---------------------------- MODULE RepeaterProofs ----------------------------
(***************************************************************************)
(* Proofs about RepeaterHandler for every set of callsigns, users, streams *)
(* and inputs, and any number of link slots.                               *)
(*                                                                         *)
(* The inductive invariant Inv is the type invariant together with the     *)
(* three stream invariants, written as a predicate StreamOK on the record  *)
(* rf.  No one of them is inductive alone: a search that ends needs the    *)
(* stream it belongs to, a stream that ends needs the one that took over.  *)
(***************************************************************************)
EXTENDS RepeaterProperties, WellFoundedInduction, TLAPS

--------------------------------------------------------------------------------
\* Each operator of LinkTables and RepeaterLinks takes a table to a table, or a link
\* state to a link state; and Remove is the loop it stands for.

CacheOK == cache \in [Families -> Vias \cup {"UNKNOWN"}]

\* A slot number that is CHOSEn need not be shown to exist: EXCEPT outside
\* the domain of a table changes nothing.
LEMMA PlaceType ==
  ASSUME NEW t \in Table, NEW c \in Calls PROVE Place(t, c) \in Table
<1>1. [st |-> "LINKING", call |-> c] \in Slot
  BY DEF Slot, SlotState
<1> DEFINE e == [t EXCEPT ![FirstFree(t)] = [st |-> "LINKING", call |-> c]]
<1>2. e \in Table
  BY <1>1 DEF Table
<1> QED BY <1>2 DEF Place

\* Freeing slots leaves a table.
LEMMA ReleaseType ==
  ASSUME NEW t \in Table, NEW S PROVE Release(t, S) \in Table
BY DEF Release, Table, FreeSlot, Slot, SlotState

\* The link() of each handler leaves a table.
LEMMA TableLinkType ==
  ASSUME NEW via, NEW t \in Table, NEW c \in Calls PROVE TableLink(via, t, c) \in Table
BY PlaceType DEF TableLink

\* The unlink() of D-Plus and DCS leaves a table.
LEMMA TableUnlinkType ==
  ASSUME NEW t \in Table, NEW calls PROVE TableUnlink(t, calls) \in Table
<1>1. \A i \in Slots : [t[i] EXCEPT !.st = "UNLINKING"] \in Slot
  BY DEF Table, Slot, SlotState
<1> QED BY <1>1 DEF TableUnlink, Table

\* The relink() of D-Plus leaves a table.
LEMMA TableRelinkType ==
  ASSUME NEW t \in Table, NEW c \in Calls PROVE TableRelink(t, c) \in Table
<1> DEFINE k == CHOOSE i \in Outgoing(t) : \A j \in Outgoing(t) : i <= j
<1> HIDE DEF k
<1>1. \A s \in Slot : [s EXCEPT !.call = c] \in Slot
  BY DEF Slot
<1>2. k \in Slots => t[k] \in Slot
  BY DEF Table
<1>3. [t EXCEPT ![k].call = c] \in Table
  BY <1>1, <1>2 DEF Table
<1> QED BY <1>3 DEF TableRelink, k

\* Every protocol has a table.
LEMMA TableOfVia == \A via \in Vias : TableOf(via) \in Tables
BY DEF Vias, Tables, TableOf

--------------------------------------------------------------------------------

\* A new table in place of the old one makes a link state.
LEMMA PutType ==
  ASSUME NEW l \in LinkState, NEW table, NEW t \in Table
  PROVE  Put(l, table, t) \in LinkState
BY DEF Put, LinkState

\* triggerInfo() takes a link state to a link state.
LEMMA AnnounceType == ASSUME NEW l \in LinkState PROVE Announce(l) \in LinkState
BY DEF Announce, LinkState

\* Clearing the link status: a link state again.
LEMMA NotLinkedType == ASSUME NEW l \in LinkState PROVE NotLinked(l) \in LinkState
BY DEF NotLinked, LinkState, AnyCall

\* Starting the reconnect timer, with or without a time-out: a link state again.
LEMMA StartReconnectType ==
  ASSUME NEW l \in LinkState PROVE StartReconnect(l) \in LinkState
BY DEF StartReconnect, LinkState, ReconnectTimer, Timer

\* A new link and its status make a link state.
LEMMA StartLinkingType ==
  ASSUME NEW l \in LinkState, NEW via \in Vias, NEW c \in Calls
  PROVE  StartLinking(l, via, c) \in LinkState
<1>1. TableOf(via) \in Tables
  BY TableOfVia
<1>2. TableLink(via, l.slots[TableOf(via)], c) \in Table
  BY <1>1, TableLinkType DEF LinkState
<1>3. c \in AnyCall
  BY DEF AnyCall
<1> QED BY <1>1, <1>2, <1>3 DEF StartLinking, LinkState

\* The cache gives a protocol or none.
LEMMA FindRepeaterType ==
  ASSUME CacheOK, NEW c
  PROVE  /\ FindRepeater(c) \in Vias \cup {"UNKNOWN"}
         /\ FindRepeater(c) # "UNKNOWN" => c \in Calls /\ FindRepeater(c) \in Vias
BY DEF CacheOK, FindRepeater, Calls

\* linkInt() takes a link state to a link state.
LEMMA LinkIntType ==
  ASSUME CacheOK, NEW l \in LinkState, NEW c \in AnyCall
  PROVE  LinkInt(l, c) \in LinkState
<1> DEFINE via == FindRepeater(c)
           refused == [l EXCEPT !.status = "NONE", !.via = "NONE", !.repeater = c]
           pending == [l EXCEPT !.status = "PENDING_IRCDDB", !.via = "NONE",
                                !.repeater = c, !.query = "RUN"]
<1>1. refused \in LinkState
  BY DEF LinkState
<1>2. pending \in LinkState
  BY DEF LinkState, Timer
<1>3. via # "UNKNOWN" => StartLinking(l, via, c) \in LinkState
  BY FindRepeaterType, StartLinkingType
<1> DEFINE body == CASE via = "UNKNOWN" /\ IsReflector(c) -> l
                     [] via = "UNKNOWN" /\ ~IsReflector(c) ->
                          IF IrcDDB THEN pending ELSE refused
                     [] OTHER -> IF via \in Enabled \cup {"LOOPBACK"}
                                 THEN StartLinking(l, via, c) ELSE refused
<1> HIDE DEF refused, pending, via
<1>4. body \in LinkState
  <2>1. CASE via = "UNKNOWN" /\ IsReflector(c)
    BY <2>1
  <2>2. CASE via = "UNKNOWN" /\ ~IsReflector(c)
    BY <2>2, <1>1, <1>2
  <2>3. CASE via # "UNKNOWN"
    BY <2>3, <1>1, <1>3
  <2> QED BY <2>1, <2>2, <2>3
<1>5. Announce(body) \in LinkState
  BY <1>4, AnnounceType
<1> QED BY <1>5 DEF LinkInt, refused, pending, via

\* resolveRepeaterInt() takes a link state to a link state.
LEMMA ResolveLinkType ==
  ASSUME NEW l \in LinkState, NEW c \in Calls, NEW found \in BOOLEAN
  PROVE  ResolveLink(l, c, found) \in LinkState
<1> DEFINE m == [l EXCEPT !.query = "OFF"]
<1>1. m \in LinkState
  BY DEF LinkState, Timer
<1>2. StartLinking(m, "DEXTRA", c) \in LinkState
  BY <1>1, StartLinkingType DEF Vias, Tables
<1>3. Announce(NotLinked(m)) \in LinkState
  BY <1>1, AnnounceType, NotLinkedType
<1> HIDE DEF m
<1>4. (IF ~(l.status = "PENDING_IRCDDB" /\ l.repeater = c) THEN l
       ELSE IF found /\ "DEXTRA" \in Enabled THEN StartLinking(m, "DEXTRA", c)
            ELSE Announce(NotLinked(m))) \in LinkState
  BY <1>2, <1>3
<1> QED BY <1>4 DEF ResolveLink, m

--------------------------------------------------------------------------------

\* linkUp() takes a link state to a link state.
LEMMA LinkUpType ==
  ASSUME NEW l \in LinkState, NEW table PROVE LinkUp(l, table) \in LinkState
<1>1. [l EXCEPT !.status = "LINKED"] \in LinkState
  BY DEF LinkState
<1> QED BY <1>1, AnnounceType DEF LinkUp

\* linkFailed(), not recoverable, with the relink from inside it: a link state.
LEMMA LinkFailedType ==
  ASSUME CacheOK, NEW l \in LinkState, NEW c PROVE LinkFailed(l, c) \in LinkState
<1>1. [l EXCEPT !.relink = FALSE] \in LinkState /\ l.repeater \in AnyCall
  BY DEF LinkState
<1>2. LinkInt([l EXCEPT !.relink = FALSE], l.repeater) \in LinkState
  BY <1>1, LinkIntType
<1>3. Announce(NotLinked(l)) \in LinkState
  BY AnnounceType, NotLinkedType
<1> QED BY <1>2, <1>3 DEF LinkFailed

\* linkFailed(), recoverable: a link state again.
LEMMA LinkLostType ==
  ASSUME NEW l \in LinkState, NEW table, NEW c PROVE LinkLost(l, table, c) \in LinkState
<1>1. [l EXCEPT !.status = "LINKING"] \in LinkState
  BY DEF LinkState
<1> QED BY <1>1, AnnounceType DEF LinkLost

\* linkRefused() takes a link state to a link state.
LEMMA LinkRefusedType ==
  ASSUME NEW l \in LinkState, NEW c PROVE LinkRefused(l, c) \in LinkState
BY AnnounceType, NotLinkedType DEF LinkRefused

--------------------------------------------------------------------------------

\* linkFailed() for several slots: a link state again.
LEMMA ReportType ==
  ASSUME NEW l \in LinkState, NEW table, NEW S PROVE Report(l, table, S) \in LinkState
BY AnnounceType, NotLinkedType DEF Report

\* The table of a protocol is a table.
LEMMA SlotsType ==
  ASSUME NEW l \in LinkState, NEW table \in Tables PROVE l.slots[table] \in Table
<1>1. l.slots \in [Tables -> Table]
  BY ZenonT(60) DEF LinkState
<1> QED BY <1>1

\* The loops that remove links, with the link made from inside: a link state.
LEMMA RemoveType ==
  ASSUME CacheOK, NEW l \in LinkState, NEW table \in Tables, NEW calls, NEW told
  PROVE  Remove(l, table, calls, told) \in LinkState
<1> DEFINE t        == l.slots[table]
           hit      == {i \in Outgoing(t) : t[i].call \in calls}
           reported == {i \in hit : t[i].st \in told}
           first    == CHOOSE i \in reported : \A j \in reported : i <= j
           before   == Release(t, {i \in hit : i < first})
           m        == LinkFailed(Put(l, table, before), t[first].call)
           u        == m.slots[table]
           later    == {i \in Outgoing(u) : i > first /\ u[i].call \in calls}
           n        == Report(m, table, {i \in later : u[i].st \in told})
<1>1. t \in Table
  BY SlotsType
<1> HIDE DEF first, reported, hit
<1>2. Put(Report(l, table, reported), table, Release(t, hit)) \in LinkState
  BY <1>1, ReportType, ReleaseType, PutType
<1>3. before \in Table
  BY <1>1, ReleaseType
<1>4. m \in LinkState
  BY <1>3, PutType, LinkFailedType
<1> HIDE DEF m
<1>5. u \in Table
  BY <1>4, SlotsType
<1>6. n \in LinkState
  BY <1>4, ReportType
<1> HIDE DEF n, later
<1>7. Put(n, table, Release(u, later \cup {first})) \in LinkState
  BY <1>5, <1>6, ReleaseType, PutType
<1> QED BY <1>2, <1>7 DEF Remove, first, reported, hit, m, n, later

\* CDExtraHandler::unlink() takes a link state to a link state.
LEMMA DExtraUnlinkType ==
  ASSUME CacheOK, NEW l \in LinkState, NEW calls PROVE DExtraUnlink(l, calls) \in LinkState
BY RemoveType DEF DExtraUnlink, Tables

\* CDPlusHandler::unlink() takes a link state to a link state.
LEMMA DPlusUnlinkType ==
  ASSUME NEW l \in LinkState, NEW calls PROVE DPlusUnlink(l, calls) \in LinkState
BY SlotsType, TableUnlinkType, PutType DEF DPlusUnlink, Tables

\* CDCSHandler::unlink() takes a link state to a link state.
LEMMA DCSUnlinkType ==
  ASSUME NEW l \in LinkState, NEW calls PROVE DCSUnlink(l, calls) \in LinkState
BY SlotsType, TableUnlinkType, PutType DEF DCSUnlink, Tables

\* The three unlinks in a row: a link state again.
LEMMA UnlinkAllType ==
  ASSUME CacheOK, NEW l \in LinkState PROVE UnlinkAll(l) \in LinkState
BY DExtraUnlinkType, DPlusUnlinkType, DCSUnlinkType DEF UnlinkAll

\* Just a change of module: a link state again.
LEMMA ChangeModuleType ==
  ASSUME CacheOK, NEW l \in LinkState, NEW c \in Calls PROVE ChangeModule(l, c) \in LinkState
<1> DEFINE m == [l EXCEPT !.relink = TRUE, !.repeater = c]
           n == IF l.via = "DEXTRA" THEN DExtraUnlink(m, Calls \ {c})
                                    ELSE DCSUnlink(m, Calls \ {c})
           p == [n EXCEPT !.status = "LINKING", !.via = l.via]
           q == [l EXCEPT !.repeater = c, !.slots["DPLUS"] = TableRelink(@, c)]
<1>1. m \in LinkState
  BY DEF LinkState, AnyCall
<1> HIDE DEF m
<1>2. n \in LinkState
  BY <1>1, DExtraUnlinkType, DCSUnlinkType
<1> HIDE DEF n
<1>3. p \in LinkState
  BY <1>2, ZenonT(60) DEF LinkState
<1>4. TableRelink(l.slots["DPLUS"], c) \in Table
  BY SlotsType, TableRelinkType DEF Tables
<1>5. q \in LinkState
  BY <1>4 DEF LinkState, AnyCall, Tables
<1> HIDE DEF p, q
<1>6. (CASE l.via \in {"DEXTRA", "DCS", "LOOPBACK"} -> Announce(p)
         [] l.via = "DPLUS" -> Announce(q)
         [] OTHER -> l) \in LinkState
  <2>1. CASE l.via \in {"DEXTRA", "DCS", "LOOPBACK"}
    BY <2>1, <1>3, AnnounceType
  <2>2. CASE l.via = "DPLUS"
    BY <2>2, <1>5, AnnounceType
  <2>3. CASE l.via \notin {"DEXTRA", "DCS", "LOOPBACK", "DPLUS"}
    BY <2>3
  <2> QED BY <2>1, <2>2, <2>3
<1> QED BY <1>6 DEF ChangeModule, m, n, p, q

--------------------------------------------------------------------------------

\* suspendLinks() takes a link state to a link state.
LEMMA SuspendLinksType ==
  ASSUME CacheOK, NEW l \in LinkState PROVE SuspendLinks(l) \in LinkState
<1> DEFINE m == IF l.status \in Active /\ l.via \in Vias
                THEN [l EXCEPT !.last = l.repeater] ELSE l
           n == DCSUnlink(DExtraUnlink(DPlusUnlink(m, Calls), Calls), Calls)
<1>1. m \in LinkState
  BY DEF LinkState
<1> HIDE DEF m
<1>2. n \in LinkState
  BY <1>1, DCSUnlinkType, DExtraUnlinkType, DPlusUnlinkType
<1> HIDE DEF n
<1>3. NotLinked(n) \in LinkState
  BY <1>2, NotLinkedType
<1>4. [NotLinked(n) EXCEPT !.reconnect = "OFF"] \in LinkState
  BY <1>3 DEF LinkState, ReconnectTimer, Timer
<1> QED BY <1>4 DEF SuspendLinks, m, n

\* restoreLinks() takes a link state to a link state.
LEMMA RestoreLinksType ==
  ASSUME CacheOK, NEW l \in LinkState PROVE RestoreLinks(l) \in LinkState
<1> DEFINE m == IF l.mode = "TIMED" THEN StartReconnect(l) ELSE l
           c == IF l.mode = "FIXED" THEN l.startup ELSE l.last
<1>1. m \in LinkState
  BY StartReconnectType
<1>2. c \in AnyCall
  BY DEF LinkState, AnyCall
<1> HIDE DEF m, c
<1>3. LinkInt(m, c) \in LinkState
  BY <1>1, <1>2, LinkIntType
<1>4. [LinkInt(m, c) EXCEPT !.last = NoCall] \in LinkState
  BY <1>3 DEF LinkState, AnyCall
<1> QED BY <1>1, <1>4 DEF RestoreLinks, m, c

\* Entering a CCS call, as status and as callsign: a link state again.
LEMMA CcsLinkedType ==
  ASSUME NEW k \in LinkState
  PROVE  [k EXCEPT !.status = "LINKED", !.via = "CCS"] \in LinkState
BY DEF LinkState

\* The callsign of a call that is made: a link state again.
LEMMA CcsMadeType ==
  ASSUME NEW k \in LinkState
  PROVE  [k EXCEPT !.repeater = CcsCall, !.query = "OFF"] \in LinkState
BY DEF LinkState, AnyCall, Timer

\* The CCS client's own state in an outgoing call: a link state again.
LEMMA CcsActiveType ==
  ASSUME NEW k \in LinkState
  PROVE  [k EXCEPT !.ccs = "ACTIVE", !.ccsDir = "OUTGOING"] \in LinkState
BY ZenonT(60) DEF LinkState

\* Waiting for a call to be made: a link state again.
LEMMA CcsWaitingType ==
  ASSUME NEW k \in LinkState
  PROVE  [k EXCEPT !.query = "RUN", !.status = "LINKING"] \in LinkState
BY DEF LinkState, Timer

\* The callsign of a call that is asked for: a link state again.
LEMMA CcsAskedType ==
  ASSUME NEW k \in LinkState
  PROVE  [k EXCEPT !.via = "CCS", !.repeater = CcsCall] \in LinkState
BY DEF LinkState, AnyCall

\* ccsLinkMade() takes a link state to a link state.
LEMMA CcsLinkMadeType ==
  ASSUME CacheOK, NEW l \in LinkState, NEW dir PROVE CcsLinkMade(l, dir) \in LinkState
<1> DEFINE m == [SuspendLinks(l) EXCEPT !.status = "LINKED", !.via = "CCS",
                                        !.repeater = CcsCall, !.query = "OFF"]
<1>1. SuspendLinks(l) \in LinkState
  BY SuspendLinksType
<1>2. m \in LinkState
  BY <1>1, CcsLinkedType, CcsMadeType
<1> HIDE DEF m
<1>3. Announce(IF dir = "OUTGOING" THEN m ELSE l) \in LinkState
  BY <1>2, AnnounceType
<1> QED BY <1>3 DEF CcsLinkMade, m

\* ccsLinkEnded() and ccsLinkFailed() take a link state to a link state.
LEMMA CcsLinkEndedType ==
  ASSUME CacheOK, NEW l \in LinkState, NEW dir PROVE CcsLinkEnded(l, dir) \in LinkState
<1> DEFINE m == [NotLinked(l) EXCEPT !.query = "OFF"]
<1>1. m \in LinkState
  BY NotLinkedType DEF LinkState, Timer
<1> HIDE DEF m
<1>2. Announce(IF dir = "OUTGOING" THEN RestoreLinks(m) ELSE l) \in LinkState
  BY <1>1, RestoreLinksType, AnnounceType
<1> QED BY <1>2 DEF CcsLinkEnded, m

\* CCCSHandler::stopLink() takes a link state to a link state.
LEMMA CcsStopLinkType ==
  ASSUME CacheOK, NEW l \in LinkState PROVE CcsStopLink(l) \in LinkState
<1>1. [l EXCEPT !.ccs = "CONNECTED"] \in LinkState
  BY DEF LinkState
<1> QED BY <1>1, CcsLinkEndedType DEF CcsStopLink

\* CCCSHandler::startLink() takes a link state to a link state.
LEMMA CcsStartLinkType ==
  ASSUME CacheOK, NEW l \in LinkState PROVE CcsStartLink(l) \in LinkState
<1> DEFINE m == IF l.ccsKnown THEN CcsLinkMade(l, l.ccsDir)
                ELSE [l EXCEPT !.ccsAsked = TRUE]
<1>1. [l EXCEPT !.ccsAsked = TRUE] \in LinkState
  BY DEF LinkState
<1>2. m \in LinkState
  BY <1>1, CcsLinkMadeType
<1> HIDE DEF m
<1>3. [m EXCEPT !.ccs = "ACTIVE", !.ccsDir = "OUTGOING"] \in LinkState
  BY <1>2, CcsActiveType
<1> QED BY <1>3 DEF CcsStartLink, m

--------------------------------------------------------------------------------
(***************************************************************************)
(* Remove is the loop RemoveLoop.  After the turns of slots k + 1 to n the *)
(* link state is a table with some slots released, put in place, and told  *)
(* of as by Report: this holds turn by turn as long as no report makes a   *)
(* link.  With a relink wanted it holds up to the first slot told of, and  *)
(* from there on for the link state that report has left.  The operators   *)
(* below name what the lemmas speak of, so that the lemmas are cited by    *)
(* their names and not by the table's functions and records.               *)
(***************************************************************************)

\* Is slot i of table t one the loop takes, and one it tells of?
Hit(t, calls, i)  == i \in Outgoing(t) /\ t[i].call \in calls
Named(t, told, i) == t[i].st \in told

\* The table of link state p, and a set with one slot more.
Holds(p, table, t) == t = p.slots[table]
With(H, i)         == H \cup {i}

\* The slots after k and up to n that the loop takes, and those of H it tells of.
HitsOf(t, calls, k, n) == {i \in Outgoing(t) : k < i /\ i <= n /\ t[i].call \in calls}
ToldOf(t, told, H)     == {i \in H : t[i].st \in told}

\* Is "after" the run of the loop, and what is the link state after i turns?
IsAfter(after, i, p) == after[i] = p
Settled(p)           == p.relink = FALSE
Turns(after, table, calls, told) ==
  \A i \in 1 .. MaxLinks : after[i] = RemoveStep(after[i - 1], table, calls, told, i)

\* A report that makes no link.
MakesNoLink(p, t, calls, told, i) ==
  p.relink = FALSE \/ ~(Hit(t, calls, i) /\ Named(t, told, i))

\* The loop has a run.
LEMMA LoopRuns ==
  ASSUME NEW l, NEW table, NEW calls, NEW told, NEW n \in Nat
  PROVE  \E f : f = [i \in 0 .. n |-> IF i = 0 THEN l ELSE RemoveStep(f[i - 1], table, calls, told, i)]
<1> DEFINE Turn(m, i) == RemoveStep(m, table, calls, told, i)
           Runs(k) == \E f : f = [i \in 0 .. k |-> IF i = 0 THEN l ELSE Turn(f[i - 1], i)]
           Short == {k \in Nat : ~Runs(k)}
<1> HIDE DEF Turn
<1>1. Runs(0)
  <2>1. [i \in 0 .. 0 |-> l] = [i \in 0 .. 0 |-> IF i = 0 THEN l ELSE Turn([j \in 0 .. 0 |-> l][i - 1], i)]
    OBVIOUS
  <2> QED BY <2>1
<1>2. ASSUME NEW k \in Nat, k # 0, Runs(k - 1) PROVE Runs(k)
  <2>1. PICK f : f = [i \in 0 .. k - 1 |-> IF i = 0 THEN l ELSE Turn(f[i - 1], i)]
    BY <1>2
  <2> DEFINE g == [i \in 0 .. k |-> IF i = k THEN Turn(f[k - 1], k) ELSE f[i]]
  <2>2. \A i \in 0 .. k : g[i] = IF i = 0 THEN l ELSE Turn(g[i - 1], i)
    <3> SUFFICES ASSUME NEW i \in 0 .. k PROVE g[i] = IF i = 0 THEN l ELSE Turn(g[i - 1], i)
      OBVIOUS
    <3>1. CASE i = 0
      <4>1. f[0] = l
        BY <1>2, <2>1
      <4> QED BY <1>2, <3>1, <4>1
    <3>2. CASE i # 0
      <4>1. i - 1 \in 0 .. k /\ i - 1 # k
        BY <1>2, <3>2
      <4>2. g[i - 1] = f[i - 1]
        BY <4>1
      <4>3. i # k => i \in 0 .. k - 1 /\ g[i] = f[i]
        BY <1>2
      <4>4. i # k => f[i] = Turn(f[i - 1], i)
        BY <2>1, <3>2, <4>3
      <4> QED BY <3>2, <4>2, <4>3, <4>4
    <3> QED BY <3>1, <3>2
  <2>3. g = [i \in 0 .. k |-> g[i]]
    OBVIOUS
  <2> HIDE DEF g
  <2>4. g = [i \in 0 .. k |-> IF i = 0 THEN l ELSE Turn(g[i - 1], i)]
    BY <2>2, <2>3, Zenon
  <2> QED BY <2>4
<1> HIDE DEF Runs
<1>3. Short = {}
  <2> SUFFICES ASSUME Short # {} PROVE FALSE
    OBVIOUS
  <2>1. PICK k \in Short : \A j \in Short : ~(<<j, k>> \in OpToRel(<, Nat))
    BY NatLessThanWellFounded, WFMin
  <2>2. \A j \in Short : ~(j < k)
    BY <2>1, Zenon DEF OpToRel
  <2>3. k \in Nat /\ ~Runs(k) /\ k # 0
    BY <1>1
  <2>4. k - 1 \in Nat /\ k - 1 < k
    BY <2>3
  <2>5. Runs(k - 1)
    BY <2>2, <2>4
  <2> QED BY <1>2, <2>3, <2>5
<1> QED BY <1>3 DEF Runs, Turn

\* Turn by turn.
LEMMA LoopTurns ==
  ASSUME NEW l, NEW table, NEW calls, NEW told
  PROVE  \E after : /\ after[0] = l /\ Turns(after, table, calls, told)
                    /\ RemoveLoop(l, table, calls, told) = after[MaxLinks]
<1> DEFINE after[i \in 0 .. MaxLinks] ==
             IF i = 0 THEN l ELSE RemoveStep(after[i - 1], table, calls, told, i)
<1>1. MaxLinks \in Nat
  BY LinksAssumption
<1>2. after = [i \in 0 .. MaxLinks |-> IF i = 0 THEN l ELSE RemoveStep(after[i - 1], table, calls, told, i)]
  BY <1>1, LoopRuns, SMTT(60)
<1>3. RemoveLoop(l, table, calls, told) = after[MaxLinks]
  BY DEF RemoveLoop
<1> HIDE DEF after
<1>4. after[0] = l /\ \A i \in 1 .. MaxLinks : after[i] = RemoveStep(after[i - 1], table, calls, told, i)
  <2>1. \A i \in 1 .. MaxLinks : i \in 0 .. MaxLinks /\ i # 0
    BY <1>1
  <2> QED BY <1>1, <1>2, <2>1
<1> QED BY <1>3, <1>4 DEF Turns

--------------------------------------------------------------------------------
\* Tables put in place one after the other, and told of in between.
LEMMA PutFacts ==
  ASSUME NEW p \in LinkState, NEW table \in Tables, NEW a \in Table, NEW b \in Table
  PROVE  /\ Put(p, table, p.slots[table]) = p
         /\ Put(p, table, a).slots[table] = a
         /\ Put(p, table, a).status = p.status /\ Put(p, table, a).repeater = p.repeater
         /\ Put(p, table, a).relink = p.relink
         /\ Put(Put(p, table, a), table, b) = Put(p, table, b)
         /\ Announce(NotLinked(Put(p, table, a))) = Put(Announce(NotLinked(p)), table, a)
<1>1. p.slots \in [Tables -> Table]
  BY DEF LinkState
<1>2. /\ [p.slots EXCEPT ![table] = p.slots[table]] = p.slots
      /\ [[p.slots EXCEPT ![table] = a] EXCEPT ![table] = b] = [p.slots EXCEPT ![table] = b]
      /\ [p.slots EXCEPT ![table] = a][table] = a
  BY <1>1
<1>3. \A s : Put(p, table, s) = [p EXCEPT !.slots = [p.slots EXCEPT ![table] = s]]
  BY DEF Put, LinkState
<1>4. Put(p, table, p.slots[table]) = p
  BY <1>2, <1>3 DEF LinkState
<1>5. /\ Put(p, table, a).slots = [p.slots EXCEPT ![table] = a]
      /\ Put(p, table, a).status = p.status /\ Put(p, table, a).repeater = p.repeater
      /\ Put(p, table, a).relink = p.relink
  BY <1>3 DEF LinkState
<1>6. Put(Put(p, table, a), table, b) = Put(p, table, b)
  BY <1>2, <1>3 DEF Put, LinkState
<1>7. Announce(NotLinked(Put(p, table, a))) = Put(Announce(NotLinked(p)), table, a)
  BY DEF Put, Announce, NotLinked, LinkState
<1> QED BY <1>2, <1>4, <1>5, <1>6, <1>7

\* Slots released, and one more.
LEMMA ReleaseFacts ==
  ASSUME NEW t \in Table, NEW H, NEW i \in Slots
  PROVE  /\ Release(Release(t, H), {i}) = Release(t, H \cup {i}) /\ Release(t, {}) = t
         /\ i \notin H => Release(t, H)[i] = t[i] /\ (i \in Outgoing(Release(t, H)) <=> i \in Outgoing(t))
BY DEF Release, Table, Outgoing

\* A turn of the loop adds a slot to those released and told of.
LEMMA OneTurn ==
  ASSUME NEW p \in LinkState, NEW table \in Tables, NEW calls, NEW told, NEW H, NEW R, NEW i \in Slots, i \notin H,
         NEW t, Holds(p, table, t), MakesNoLink(p, t, calls, told, i)
  PROVE  /\ ~Hit(t, calls, i)
              => RemoveStep(Put(Report(p, table, R), table, Release(t, H)), table, calls, told, i)
                   = Put(Report(p, table, R), table, Release(t, H))
         /\ Hit(t, calls, i) /\ ~Named(t, told, i)
              => RemoveStep(Put(Report(p, table, R), table, Release(t, H)), table, calls, told, i)
                   = Put(Report(p, table, R), table, Release(t, With(H, i)))
         /\ Hit(t, calls, i) /\ Named(t, told, i)
              => RemoveStep(Put(Report(p, table, R), table, Release(t, H)), table, calls, told, i)
                   = Put(Report(p, table, With(R, i)), table, Release(t, With(H, i)))
<1> DEFINE r  == Report(p, table, R)
           q  == Put(r, table, Release(t, H))
           r1 == Report(p, table, With(R, i))
           t1 == Release(t, With(H, i))
<1>1. t \in Table /\ Release(t, H) \in Table /\ t1 \in Table /\ r \in LinkState /\ r1 \in LinkState
  BY SlotsType, ReleaseType, ReportType DEF Holds
<1>2. Release(Release(t, H), {i}) = t1 /\ Release(t, H)[i] = t[i]
  BY <1>1, ReleaseFacts, SMTT(60) DEF With
<1>3. i \in Outgoing(Release(t, H)) <=> i \in Outgoing(t)
  BY <1>1, ReleaseFacts
<1> HIDE DEF t1, r, r1
<1>4. /\ q.slots[table] = Release(t, H) /\ q.status = r.status /\ q.repeater = r.repeater /\ q.relink = r.relink
      /\ Put(q, table, t1) = Put(r, table, t1)
  BY <1>1, PutFacts
<1> HIDE DEF q
<1>5. ASSUME ~Hit(t, calls, i)
      PROVE  RemoveStep(q, table, calls, told, i) = q
  BY <1>2, <1>3, <1>4, <1>5 DEF RemoveStep, Hit
<1>6. ASSUME Hit(t, calls, i), ~Named(t, told, i)
      PROVE  RemoveStep(q, table, calls, told, i) = Put(r, table, t1)
  BY <1>2, <1>3, <1>4, <1>6 DEF RemoveStep, Hit, Named
<1>7. ASSUME Hit(t, calls, i), Named(t, told, i)
      PROVE  RemoveStep(q, table, calls, told, i) = Put(r1, table, t1)
  <2> DEFINE f == LinkFailed(q, t[i].call)
  <2>1. p.relink = FALSE /\ r.relink = FALSE
    BY <1>7 DEF r, Report, Announce, NotLinked, LinkState, MakesNoLink, Holds
  <2>2. RemoveStep(q, table, calls, told, i) = Put(f, table, Release(f.slots[table], {i}))
    BY <1>2, <1>3, <1>4, <1>7 DEF RemoveStep, Hit, Named
  <2>3. f = IF r.status = "NONE" \/ r.repeater # t[i].call THEN q ELSE Announce(NotLinked(q))
    BY <1>4, <2>1 DEF LinkFailed
  <2> HIDE DEF f
  <2>4. f = Put(r1, table, Release(t, H))
    <3>1. CASE p.status # "NONE" /\ \E j \in R : t[j].call = p.repeater
      <4>1. r.status = "NONE" /\ r1 = r
        BY <3>1 DEF r, r1, Report, Announce, NotLinked, LinkState, With, Holds
      <4> QED BY <2>3, <4>1 DEF q
    <3>2. CASE ~(p.status # "NONE" /\ \E j \in R : t[j].call = p.repeater)
      <4>1. r = p
        BY <3>2 DEF r, Report, Holds
      <4>2. CASE p.status = "NONE" \/ p.repeater # t[i].call
        <5>1. r1 = p
          BY <3>2, <4>2 DEF r1, Report, With, Holds
        <5> QED BY <2>3, <4>1, <4>2, <5>1 DEF q
      <4>3. CASE p.status # "NONE" /\ p.repeater = t[i].call
        <5>1. r1 = Announce(NotLinked(p))
          BY <4>3 DEF r1, Report, With, Holds
        <5>2. f = Announce(NotLinked(Put(p, table, Release(t, H))))
          BY <2>3, <4>1, <4>3 DEF q
        <5> QED BY <1>1, <5>1, <5>2, PutFacts
      <4> QED BY <4>2, <4>3
    <3> QED BY <3>1, <3>2
  <2>5. f.slots[table] = Release(t, H) /\ Put(f, table, t1) = Put(r1, table, t1)
    BY <1>1, <2>4, PutFacts
  <2> QED BY <1>2, <2>2, <2>5
<1> QED BY <1>5, <1>6, <1>7 DEF q, r, r1, t1

\* Several turns, from slot k on, with no relink wanted or nobody to tell.
LEMMA ManyTurns ==
  ASSUME NEW p \in LinkState, NEW table \in Tables, NEW calls, NEW told, NEW after, NEW k \in Nat, NEW n \in Nat,
         k <= n, n <= MaxLinks, IsAfter(after, k, p), Turns(after, table, calls, told),
         NEW t, Holds(p, table, t),
         Settled(p) \/ ToldOf(t, told, HitsOf(t, calls, k, n)) = {}
  PROVE  IsAfter(after, n, Put(Report(p, table, ToldOf(t, told, HitsOf(t, calls, k, n))), table,
                          Release(t, HitsOf(t, calls, k, n))))
<1> DEFINE H(j) == HitsOf(t, calls, k, j)
           R(j) == ToldOf(t, told, H(j))
           Done(j) == after[j] = Put(Report(p, table, R(j)), table, Release(t, H(j)))
           Wrong == {j \in k .. n : ~Done(j)}
<1>1. MaxLinks \in Nat /\ t \in Table /\ Outgoing(t) \subseteq Slots /\ Slots \subseteq Nat
  BY LinksAssumption, SlotsType DEF Outgoing, Slots, Holds
<1>2. Done(k)
  <2>1. H(k) = {} /\ R(k) = {}
    <3>1. \A i \in Outgoing(t) : ~(k < i /\ i <= k)
      <4> SUFFICES ASSUME NEW i \in Outgoing(t) PROVE ~(k < i /\ i <= k)
        OBVIOUS
      <4>1. i \in Nat
        BY <1>1, Zenon DEF Slots
      <4> QED BY <4>1
    <3> QED BY <3>1 DEF HitsOf, ToldOf
  <2>2. Report(p, table, {}) = p /\ Release(t, {}) = t /\ Put(p, table, t) = p
    BY <1>1, PutFacts DEF Report, Release, Table, Holds
  <2> QED BY <2>1, <2>2 DEF IsAfter
<1>3. ASSUME NEW j \in k .. n, j # k, Done(j - 1) PROVE Done(j)
  <2>1. j \in Slots /\ j \in 1 .. MaxLinks /\ j - 1 \in Nat /\ k < j /\ j <= n
    BY <1>1, <1>3 DEF Slots
  <2>2. ASSUME NEW i \in Outgoing(t) PROVE (i <= j) <=> (i <= j - 1 \/ i = j)
    <3>1. i \in Nat
      BY <1>1, Zenon
    <3>2. j \in Nat
      BY <1>3
    <3> QED BY <3>1, <3>2
  <2>3. j \notin H(j - 1)
    BY <2>1 DEF HitsOf
  <2> DEFINE hit == j \in Outgoing(t) /\ t[j].call \in calls
  <2>4. H(j) = IF hit THEN H(j - 1) \cup {j} ELSE H(j - 1)
    BY <1>1, <2>1, <2>2 DEF HitsOf
  <2>5. R(j) = IF hit /\ t[j].st \in told THEN R(j - 1) \cup {j} ELSE R(j - 1)
    BY <2>4 DEF ToldOf
  <2>6. p.relink = FALSE \/ ~(hit /\ t[j].st \in told)
    BY <1>1, <2>1 DEF HitsOf, ToldOf, Settled
  <2>7. after[j] = RemoveStep(after[j - 1], table, calls, told, j)
    BY <2>1 DEF Turns
  <2> HIDE DEF H, R
  <2>8. RemoveStep(Put(Report(p, table, R(j - 1)), table, Release(t, H(j - 1))), table, calls, told, j)
          = Put(Report(p, table, R(j)), table, Release(t, H(j)))
    <3>1. j \in Slots /\ Holds(p, table, t) /\ MakesNoLink(p, t, calls, told, j)
      BY <2>1, <2>6 DEF Holds, MakesNoLink, Hit, Named
    <3>2. (hit <=> Hit(t, calls, j)) /\ (t[j].st \in told <=> Named(t, told, j))
      BY DEF Hit, Named
    <3> HIDE DEF hit
    <3>3. CASE Hit(t, calls, j) /\ Named(t, told, j)
      <4>1. H(j) = With(H(j - 1), j) /\ R(j) = With(R(j - 1), j)
        BY <2>4, <2>5, <3>2, <3>3 DEF With
      <4>2. RemoveStep(Put(Report(p, table, R(j - 1)), table, Release(t, H(j - 1))), table, calls, told, j)
              = Put(Report(p, table, With(R(j - 1), j)), table, Release(t, With(H(j - 1), j)))
        BY <2>3, <3>1, <3>3, OneTurn
      <4> QED BY <4>1, <4>2, Zenon
    <3>4. CASE Hit(t, calls, j) /\ ~Named(t, told, j)
      <4>1. H(j) = With(H(j - 1), j) /\ R(j) = R(j - 1)
        BY <2>4, <2>5, <3>2, <3>4 DEF With
      <4>2. RemoveStep(Put(Report(p, table, R(j - 1)), table, Release(t, H(j - 1))), table, calls, told, j)
              = Put(Report(p, table, R(j - 1)), table, Release(t, With(H(j - 1), j)))
        BY <2>3, <3>1, <3>4, OneTurn
      <4> QED BY <4>1, <4>2, Zenon
    <3>5. CASE ~Hit(t, calls, j)
      <4>1. H(j) = H(j - 1) /\ R(j) = R(j - 1)
        BY <2>4, <2>5, <3>2, <3>5
      <4>2. RemoveStep(Put(Report(p, table, R(j - 1)), table, Release(t, H(j - 1))), table, calls, told, j)
              = Put(Report(p, table, R(j - 1)), table, Release(t, H(j - 1)))
        BY <2>3, <3>1, <3>5, OneTurn
      <4> QED BY <4>1, <4>2, Zenon
    <3> QED BY <3>3, <3>4, <3>5
  <2> QED BY <1>3, <2>7, <2>8
<1> HIDE DEF Done
<1>4. Wrong = {}
  <2> SUFFICES ASSUME Wrong # {} PROVE FALSE
    OBVIOUS
  <2>1. PICK j \in Wrong : \A i \in Wrong : ~(<<i, j>> \in OpToRel(<, Nat))
    <3>1. Wrong \subseteq Nat
      OBVIOUS
    <3> QED BY <3>1, NatLessThanWellFounded, WFMin
  <2>2. \A i \in Wrong : ~(i < j)
    <3>1. Wrong \subseteq Nat
      OBVIOUS
    <3> QED BY <2>1, <3>1, Zenon DEF OpToRel
  <2>3. j \in k .. n /\ ~Done(j) /\ j # k
    BY <1>2
  <2>4. j - 1 \in k .. n /\ j - 1 < j
    BY <2>3
  <2>5. Done(j - 1)
    BY <2>2, <2>4
  <2> QED BY <1>3, <2>3, <2>5
<1>5. Done(n)
  BY <1>4
<1> QED BY <1>5 DEF Done, IsAfter

\* A report over a table in place that names the same callsigns.
LEMMA ReportInPlace ==
  ASSUME NEW p \in LinkState, NEW table \in Tables, NEW a \in Table, NEW S,
         \A i \in S : a[i].call = p.slots[table][i].call
  PROVE  Report(Put(p, table, a), table, S) = Put(Report(p, table, S), table, a)
<1> DEFINE q == Put(p, table, a)
<1>1. /\ q.slots[table] = a /\ q.status = p.status /\ q.repeater = p.repeater
      /\ Announce(NotLinked(q)) = Put(Announce(NotLinked(p)), table, a)
  BY PutFacts
<1> HIDE DEF q
<1>2. (\E i \in S : q.slots[table][i].call = q.repeater) <=> (\E i \in S : p.slots[table][i].call = p.repeater)
  BY <1>1
<1>3. Report(q, table, S) = Put(Report(p, table, S), table, a)
  <2>1. CASE p.status # "NONE" /\ \E i \in S : p.slots[table][i].call = p.repeater
    BY <1>1, <1>2, <2>1 DEF Report
  <2>2. CASE ~(p.status # "NONE" /\ \E i \in S : p.slots[table][i].call = p.repeater)
    BY <1>1, <1>2, <2>2 DEF Report, q
  <2> QED BY <2>1, <2>2
<1> QED BY <1>3 DEF q

\* A set of slots that is not empty has a first one.
LEMMA FirstSlot ==
  ASSUME NEW S \in SUBSET Slots, S # {}
  PROVE  \E i \in S : \A j \in S : i <= j
<1>1. S \subseteq Nat
  BY DEF Slots
<1>2. PICK i \in S : \A j \in S : ~(<<j, i>> \in OpToRel(<, Nat))
  BY <1>1, NatLessThanWellFounded, WFMin
<1>3. \A j \in S : ~(j < i)
  BY <1>1, <1>2, Zenon DEF OpToRel
<1> QED BY <1>1, <1>3

\* The link made from inside the loop: a link state, and no relink wanted.
LEMMA RelinkOnce ==
  ASSUME CacheOK, NEW p \in LinkState, p.relink = TRUE, NEW c
  PROVE  LinkFailed(p, c) \in LinkState /\ LinkFailed(p, c).relink = FALSE
<1> DEFINE q == [p EXCEPT !.relink = FALSE]
<1>1. q \in LinkState /\ q.relink = FALSE /\ p.repeater \in AnyCall
  BY DEF LinkState
<1>2. LinkFailed(p, c) \in LinkState
  BY LinkFailedType
<1>3. LinkFailed(p, c) = LinkInt(q, p.repeater)
  BY DEF LinkFailed
<1> HIDE DEF q
<1>4. LinkInt(q, p.repeater).relink = FALSE
  <2>1. \A via, d : StartLinking(q, via, d).relink = FALSE
    BY <1>1 DEF StartLinking, LinkState
  <2> QED BY <1>1, <2>1 DEF LinkInt, Announce, LinkState, StartLinking
<1> QED BY <1>2, <1>3, <1>4

\* Remove, a formula over the table, is the loop.
LEMMA RemoveIsLoop ==
  ASSUME CacheOK, NEW l \in LinkState, NEW table \in Tables, NEW calls, NEW told
  PROVE  Remove(l, table, calls, told) = RemoveLoop(l, table, calls, told)
<1> DEFINE t        == l.slots[table]
           hit      == {i \in Outgoing(t) : t[i].call \in calls}
           reported == {i \in hit : t[i].st \in told}
<1>1. PICK after : /\ after[0] = l /\ Turns(after, table, calls, told)
                   /\ RemoveLoop(l, table, calls, told) = after[MaxLinks]
  BY LoopTurns
<1>2. MaxLinks \in Nat /\ Slots \subseteq Nat /\ Outgoing(t) \subseteq Slots /\ t \in Table /\ Holds(l, table, t)
  BY LinksAssumption, SlotsType DEF Outgoing, Slots, Holds
<1>3. hit = HitsOf(t, calls, 0, MaxLinks) /\ reported = ToldOf(t, told, hit)
  <2>1. \A i \in Slots : 0 < i /\ i <= MaxLinks
    BY <1>2 DEF Slots
  <2> HIDE DEF t
  <2> QED BY <1>2, <2>1 DEF HitsOf, ToldOf
<1>4. CASE l.relink = FALSE \/ reported = {}
  <2>1. Remove(l, table, calls, told) = Put(Report(l, table, reported), table, Release(t, hit))
    BY <1>4 DEF Remove
  <2>2. after[MaxLinks] = Put(Report(l, table, reported), table, Release(t, hit))
    <3>1. IsAfter(after, 0, l) /\ (Settled(l) \/ reported = {}) /\ 0 \in Nat /\ 0 <= MaxLinks /\ MaxLinks <= MaxLinks
      BY <1>1, <1>2, <1>4 DEF IsAfter, Settled
    <3> HIDE DEF t, hit, reported
    <3>2. IsAfter(after, MaxLinks, Put(Report(l, table, reported), table, Release(t, hit)))
      BY <1>1, <1>2, <1>3, <3>1, ManyTurns
    <3> QED BY <3>2 DEF IsAfter
  <2> QED BY <1>1, <2>1, <2>2
<1>5. CASE l.relink = TRUE /\ reported # {}
  <2> DEFINE first  == CHOOSE i \in reported : \A j \in reported : i <= j
             before == Release(t, {i \in hit : i < first})
             p1     == Put(l, table, before)
             m      == LinkFailed(p1, t[first].call)
             u      == m.slots[table]
             later  == {i \in Outgoing(u) : i > first /\ u[i].call \in calls}
             heard  == {i \in later : u[i].st \in told}
             u2     == Release(u, {first})
             p2     == Put(m, table, u2)
  <2>1. Remove(l, table, calls, told) = Put(Report(m, table, heard), table, Release(u, later \cup {first}))
    BY <1>5, ZenonT(60) DEF Remove
  <2>2. first \in reported /\ \A j \in reported : first <= j
    BY <1>2, <1>5, FirstSlot
  <2> HIDE DEF first
  <2>3. first \in Slots /\ first \in Nat /\ first - 1 \in Nat /\ 0 < first /\ first <= MaxLinks
    BY <1>2, <2>2 DEF Slots
  <2>4. before \in Table /\ p1 \in LinkState /\ p1.slots[table] = before /\ p1.relink = TRUE
    BY <1>2, <1>5, ReleaseType, PutFacts, PutType
  <2>5. after[first - 1] = p1
    <3>1. {i \in hit : i < first} = HitsOf(t, calls, 0, first - 1)
      <4>1. \A i \in Slots : (i < first) <=> (0 < i /\ i <= first - 1)
        BY <1>2, <2>3 DEF Slots
      <4> HIDE DEF t
      <4> QED BY <1>2, <4>1 DEF HitsOf
    <3>2. ToldOf(t, told, HitsOf(t, calls, 0, first - 1)) = {}
      <4>1. ASSUME NEW i \in hit, i < first PROVE t[i].st \notin told
        <5>1. i \in Nat
          BY <1>2, Zenon
        <5>2. ~(first <= i)
          <6> HIDE DEF hit
          <6> QED BY <2>3, <4>1, <5>1
        <5>3. i \notin reported
          BY <2>2, <5>2, Zenon
        <5> QED BY <5>3
      <4> QED BY <3>1, <4>1 DEF ToldOf
    <3>3. after[first - 1] = Put(Report(l, table, {}), table, Release(t, HitsOf(t, calls, 0, first - 1)))
      <4> HIDE DEF t
      <4>1. 0 <= first - 1 /\ first - 1 <= MaxLinks /\ 0 \in Nat /\ IsAfter(after, 0, l)
        BY <1>1, <1>2, <2>3 DEF IsAfter
      <4>2. IsAfter(after, first - 1, Put(Report(l, table, {}), table, Release(t, HitsOf(t, calls, 0, first - 1))))
        BY <1>1, <1>2, <2>3, <3>2, <4>1, ManyTurns
      <4> QED BY <4>2 DEF IsAfter
    <3>4. Report(l, table, {}) = l
      BY DEF Report
    <3> QED BY <3>1, <3>3, <3>4
  <2>6. before[first] = t[first] /\ first \in Outgoing(before) /\ t[first].call \in calls /\ t[first].st \in told
    BY <1>2, <2>2, <2>3, SMTT(60) DEF Release, Table, Outgoing
  <2>7. m \in LinkState /\ m.relink = FALSE /\ u \in Table /\ u2 \in Table
    BY <2>4, RelinkOnce, SlotsType, ReleaseType
  <2>8. after[first] = p2
    <3>1. after[first] = RemoveStep(p1, table, calls, told, first)
      BY <1>1, <2>3, <2>5 DEF Turns
    <3> HIDE DEF before, p1, m
    <3>2. RemoveStep(p1, table, calls, told, first) = p2
      BY <2>4, <2>6 DEF RemoveStep, m
    <3> QED BY <3>1, <3>2
  <2> HIDE DEF m
  <2>9. p2 \in LinkState /\ p2.relink = FALSE /\ Holds(p2, table, u2)
    BY <2>7, PutFacts, PutType DEF Holds
  <2>10. /\ later = HitsOf(u2, calls, first, MaxLinks) /\ heard = ToldOf(u2, told, later)
         /\ \A i \in heard : u2[i].call = u[i].call
         /\ Release(u2, later) = Release(u, later \cup {first})
    <3>1. \A i \in Slots : i # first => u2[i] = u[i] /\ (i \in Outgoing(u2) <=> i \in Outgoing(u))
      BY <2>7 DEF Release, Table, Outgoing
    <3>2. later \subseteq Slots /\ first \notin later /\ heard \subseteq later
      BY <2>3 DEF Outgoing
    <3>3. u2[first] = FreeSlot /\ first \notin Outgoing(u2)
      BY <2>3, <2>7 DEF Release, Outgoing, Active, FreeSlot
    <3>4. Release(u2, later) = Release(u, later \cup {first})
      <4> HIDE DEF later
      <4> QED BY <2>3, <2>7 DEF Release
    <3>5. later = HitsOf(u2, calls, first, MaxLinks)
      <4>1. \A i \in Slots : i \in later <=> i \in HitsOf(u2, calls, first, MaxLinks)
        <5> SUFFICES ASSUME NEW i \in Slots PROVE i \in later <=> i \in HitsOf(u2, calls, first, MaxLinks)
          OBVIOUS
        <5>1. i \in Nat /\ i <= MaxLinks
          BY <1>2 DEF Slots
        <5> HIDE DEF u2, u
        <5> QED BY <2>3, <3>1, <3>3, <5>1 DEF HitsOf
      <4>2. HitsOf(u2, calls, first, MaxLinks) \subseteq Slots
        BY DEF HitsOf, Outgoing
      <4> QED BY <3>2, <4>1, <4>2
    <3>6. heard = ToldOf(u2, told, later)
      <4>1. \A i \in later : u2[i] = u[i]
        BY <3>1, <3>2
      <4> HIDE DEF later, u2, u
      <4> QED BY <4>1 DEF ToldOf
    <3>7. \A i \in heard : u2[i].call = u[i].call
      <4> HIDE DEF later, heard, u2, u
      <4> QED BY <3>1, <3>2
    <3> QED BY <3>4, <3>5, <3>6, <3>7
  <2>11. after[MaxLinks] = Put(Report(p2, table, heard), table, Release(u2, later))
    <3>1. IsAfter(after, first, p2) /\ Settled(p2) /\ MaxLinks <= MaxLinks
      BY <1>2, <2>8, <2>9 DEF IsAfter, Settled
    <3> HIDE DEF later, heard, u2, p2
    <3>2. IsAfter(after, MaxLinks, Put(Report(p2, table, heard), table, Release(u2, later)))
      BY <1>1, <1>2, <2>3, <2>9, <2>10, <3>1, ManyTurns
    <3> QED BY <3>2 DEF IsAfter
  <2>12. Report(p2, table, heard) = Put(Report(m, table, heard), table, u2)
    <3> HIDE DEF later, heard, u2
    <3> QED BY <2>7, <2>10, ReportInPlace
  <2>13. Put(Put(Report(m, table, heard), table, u2), table, Release(u2, later))
           = Put(Report(m, table, heard), table, Release(u2, later))
    <3>1. Report(m, table, heard) \in LinkState /\ Release(u2, later) \in Table
      BY <2>7, ReportType, ReleaseType
    <3> HIDE DEF later, heard, u2
    <3> QED BY <2>7, <3>1, PutFacts
  <2> HIDE DEF later, heard, u2, p2, u
  <2> QED BY <1>1, <2>1, <2>10, <2>11, <2>12, <2>13, SMTT(60)
<1>6. l.relink = TRUE \/ l.relink = FALSE
  BY DEF LinkState
<1> QED BY <1>4, <1>5, <1>6

--------------------------------------------------------------------------------
\* The invariant.
StreamOK(r) ==
  /\ Asking(r) => r.header
  /\ r.g2 = "XBAND" => r.xband
  /\ r.g2 = "STARNET" => r.starNet
  /\ r.id = 0 \/ r.busy = 0
  /\ Streaming(r) <=> r.watchdog # "OFF"
  /\ ~Streaming(r) => r.g2 = "NONE" /\ r.needed = {}

RfOK(r) == r \in RfState /\ StreamOK(r)

Inv == /\ RfOK(rf) /\ link \in LinkState /\ CacheOK
       /\ users \in [Users -> {"UNKNOWN", "SELF", "FAR"}]

Inputs == Commands \cup DtmfCommands \cup {NoCommand}

USE RepeaterHandlerAssumption

--------------------------------------------------------------------------------
\* The streams.

\* Announcing at once, or waiting for the end of the stream, keeps the streams.
LEMMA AnnouncedOK ==
  ASSUME NEW r, RfOK(r), NEW l \in LinkState PROVE RfOK(Announced(r, l))
<1>1. r \in RfState /\ StreamOK(r)
  BY DEF RfOK
<1>2. CASE ~l.announce
  BY <1>1, <1>2 DEF Announced, RfOK
<1>3. CASE l.announce /\ Streaming(r)
  <2> DEFINE s == [r EXCEPT !.needed = @ \cup {"INFO"}]
  <2>1. s \in RfState
    BY <1>1 DEF RfState
  <2>2. StreamOK(s)
    BY <1>1, <1>3 DEF RfState, StreamOK, Streaming, Asking
  <2> QED BY <1>3, <2>1, <2>2 DEF Announced, RfOK
<1>4. CASE l.announce /\ ~Streaming(r)
  <2> DEFINE s == [r EXCEPT !.needed = @ \ {"INFO"}]
  <2>1. s \in RfState
    BY <1>1 DEF RfState
  <2>2. StreamOK(s)
    BY <1>1, <1>4 DEF RfState, StreamOK, Streaming, Asking
  <2> QED BY <1>4, <2>1, <2>2 DEF Announced, RfOK
<1> QED BY <1>2, <1>3, <1>4

\* Every action ends in Settle, or does what Settle does.
LEMMA SettleOK ==
  ASSUME Inv, NEW r, RfOK(r), NEW l \in LinkState, Settle(r, l),
         UNCHANGED <<users, cache>>
  PROVE  Inv'
<1>1. RfOK(Announced(r, l))
  BY AnnouncedOK
<1>2. [l EXCEPT !.announce = FALSE] \in LinkState
  BY DEF LinkState
<1>3. (Vias \cup {"UNKNOWN"})' = Vias \cup {"UNKNOWN"}
  OBVIOUS
<1> QED BY <1>1, <1>2 DEF Inv, Settle, RfOK, CacheOK

\* A step of the links alone keeps the invariant.
LEMMA LinkStepOK ==
  ASSUME Inv, NEW l \in LinkState, LinkStep(l) PROVE Inv'
BY SettleOK DEF LinkStep, Inv

\* A header starts a stream that has nothing of the one before.
LEMMA NewStreamOK ==
  ASSUME Inv, NEW id \in Ids, NEW restricted \in BOOLEAN, NEW cq \in BOOLEAN
  PROVE  /\ RfOK(NewStream(id, restricted, cq))
         /\ NewStream(id, restricted, cq).id # 0
         /\ NewStream(id, restricted, cq).busy = 0
         /\ NewStream(id, restricted, cq).watchdog = "RUN"
         /\ NewStream(id, restricted, cq).g2 = "NONE"
<1>1. rf \in RfState
  BY DEF Inv, RfOK
<1>2. NewStream(id, restricted, cq) \in RfState
  BY <1>1, ZenonT(60) DEF NewStream, RfState, Timer
<1> QED BY <1>1, <1>2, ZenonT(60) DEF NewStream, RfState, RfOK, StreamOK, Streaming, Asking

--------------------------------------------------------------------------------
\* Commands.

\* Commands and their arguments have the types the handlers expect.
LEMMA InputType ==
  /\ Inputs \subseteq Command
  /\ \A c \in Inputs : /\ c.kind = "LINK" => c.arg \in Calls \cup {Self}
                       /\ c.kind = "ROUTE_RPT" => c.arg \in Calls \cup {Self}
                       /\ c.kind = "ROUTE_USER" => c.arg \in Users
<1>1. NoCommand \in Command
  BY DEF NoCommand, Command, Kinds
<1>2. NoCommand.kind = "CQ"
  BY DEF NoCommand
<1> QED BY <1>1, <1>2 DEF Inputs

\* A command to link, unlink or go back keeps the links.
LEMMA LinkCommandType ==
  ASSUME CacheOK, NEW l \in LinkState, NEW c \in Calls \cup {Self}
  PROVE  LinkCommand(l, c) \in LinkState
<1>1. c # Self => c \in Calls /\ c \in AnyCall
  BY DEF AnyCall
<1>2. c # Self => ChangeModule(l, c) \in LinkState
  BY <1>1, ChangeModuleType
<1>3. c # Self => LinkInt(UnlinkAll(l), c) \in LinkState
  BY <1>1, UnlinkAllType, LinkIntType
<1> QED BY <1>2, <1>3, AnnounceType DEF LinkCommand

\* reflectorCommandHandler() keeps the links.
LEMMA ReflectorCommandType ==
  ASSUME CacheOK, NEW l \in LinkState, NEW cmd \in Inputs
  PROVE  ReflectorCommand(l, cmd) \in LinkState
<1> DEFINE m == [l EXCEPT !.query = "OFF"]
<1>1. m \in LinkState
  BY DEF LinkState, Timer
<1> HIDE DEF m
<1>2. CASE IgnoresCommands(l)
  BY <1>2 DEF ReflectorCommand
<1>3. CASE ~IgnoresCommands(l)
  <2> DEFINE n == CASE cmd.kind = "UNLINK" /\ m.status # "NONE" ->
                         Announce(NotLinked(UnlinkAll(m)))
                    [] cmd.kind = "LINK" -> LinkCommand(m, cmd.arg)
                    [] cmd.kind = "LINK_STARTUP" /\ m.startup # NoCall ->
                         LinkCommand(m, m.startup)
                    [] OTHER -> m
  <2>1. CASE cmd.kind = "UNLINK" /\ m.status # "NONE"
    <3>1. n = Announce(NotLinked(UnlinkAll(m)))
      BY <2>1
    <3> QED BY <3>1, <1>1, UnlinkAllType, NotLinkedType, AnnounceType,
               <1>3 DEF ReflectorCommand, m
  <2>2. CASE cmd.kind = "LINK"
    <3>1. n = LinkCommand(m, cmd.arg)
      BY <2>2
    <3>2. cmd.arg \in Calls \cup {Self}
      BY <2>2, InputType
    <3> QED BY <3>1, <3>2, <1>1, LinkCommandType, <1>3 DEF ReflectorCommand, m
  <2>3. CASE cmd.kind = "LINK_STARTUP" /\ m.startup # NoCall
    <3>1. n = LinkCommand(m, m.startup)
      BY <2>3
    <3>2. m.startup \in Calls \cup {Self}
      BY <2>3, <1>1 DEF LinkState
    <3> QED BY <3>1, <3>2, <1>1, LinkCommandType, <1>3 DEF ReflectorCommand, m
  <2>4. CASE /\ ~(cmd.kind = "UNLINK" /\ m.status # "NONE") /\ cmd.kind # "LINK"
             /\ ~(cmd.kind = "LINK_STARTUP" /\ m.startup # NoCall)
    <3>1. n = m
      BY <2>4
    <3> QED BY <3>1, <1>1, <1>3 DEF ReflectorCommand, m
  <2> QED BY <2>1, <2>2, <2>3, <2>4
<1> QED BY <1>2, <1>3

\* ccsCommandHandler() keeps the links.
LEMMA CcsCommandType ==
  ASSUME CacheOK, NEW l \in LinkState, NEW cmd PROVE CcsCommand(l, cmd) \in LinkState
<1> DEFINE m == [SuspendLinks(l) EXCEPT !.query = "RUN", !.status = "LINKING",
                                        !.via = "CCS", !.repeater = CcsCall]
<1>1. m \in LinkState
  BY SuspendLinksType, CcsWaitingType, CcsAskedType
<1> HIDE DEF m
<1>2. CcsStartLink(m) \in LinkState /\ CcsStopLink(l) \in LinkState
  BY <1>1, CcsStartLinkType, CcsStopLinkType
<1> DEFINE n == CASE cmd.kind = "CCS_STOP" -> CcsStopLink(l)
                  [] cmd.kind = "CCS_CALL" /\ l.ccs = "CONNECTED" -> CcsStartLink(m)
                  [] OTHER -> l
<1>3. n \in LinkState
  <2>1. CASE cmd.kind = "CCS_STOP"
    BY <2>1, <1>2
  <2>2. CASE cmd.kind = "CCS_CALL" /\ l.ccs = "CONNECTED"
    BY <2>2, <1>2
  <2>3. CASE cmd.kind # "CCS_STOP" /\ ~(cmd.kind = "CCS_CALL" /\ l.ccs = "CONNECTED")
    BY <2>3
  <2> QED BY <2>1, <2>2, <2>3
<1> QED BY <1>3, SMTT(60) DEF CcsCommand, m

\* Whatever a header asks for keeps the links.
LEMMA ObeyType ==
  ASSUME CacheOK, NEW l \in LinkState, NEW cmd \in Inputs PROVE Obey(l, cmd) \in LinkState
BY CcsCommandType, ReflectorCommandType DEF Obey

--------------------------------------------------------------------------------
\* Headers and frames from the radio, and heard by a busy repeater.

\* Starting the reconnect timer at a header keeps the links.
LEMMA NewStreamLinkType == ASSUME Inv PROVE NewStreamLink \in LinkState
<1>1. [link EXCEPT !.query = "OFF"] \in LinkState
  BY DEF Inv, LinkState, Timer
<1> QED BY <1>1, StartReconnectType DEF NewStreamLink, Inv

\* RfOtherBand keeps the invariant.
LEMMA RfOtherBandOK ==
  ASSUME Inv, NEW id \in Ids, NEW cmd, NEW restricted \in BOOLEAN, NEW cq \in BOOLEAN,
         RfOtherBand(id, cmd, restricted, cq)
  PROVE  Inv'
<1> DEFINE r == NewStream(id, restricted, cq)
           s == CASE cmd.kind = "SILLY"     -> r
                  [] cmd.kind = "CROSSBAND" -> [r EXCEPT !.xband = TRUE, !.g2 = "XBAND"]
                  [] cmd.kind = "INVALID"   -> [r EXCEPT !.g2 = "LOCAL"]
<1>1. /\ RfOK(r) /\ r.id # 0 /\ r.watchdog = "RUN"
      /\ cmd.kind \in {"SILLY", "CROSSBAND", "INVALID"}
  BY NewStreamOK DEF RfOtherBand
<1>2. Settle(s, NewStreamLink) /\ UNCHANGED <<users, cache>>
  BY DEF RfOtherBand
<1> HIDE DEF r
<1>3. RfOK([r EXCEPT !.xband = TRUE, !.g2 = "XBAND"])
  BY <1>1 DEF RfOK, RfState, StreamOK, Streaming, Asking
<1>4. RfOK([r EXCEPT !.g2 = "LOCAL"])
  BY <1>1 DEF RfOK, RfState, StreamOK, Streaming, Asking
<1>5. RfOK(s)
  <2>1. CASE cmd.kind = "SILLY"
    BY <2>1, <1>1
  <2>2. CASE cmd.kind = "CROSSBAND"
    BY <2>2, <1>3
  <2>3. CASE cmd.kind = "INVALID"
    BY <2>3, <1>4
  <2> QED BY <1>1, <2>1, <2>2, <2>3
<1> HIDE DEF s
<1> QED BY <1>2, <1>5, NewStreamLinkType, SettleOK

\* RfStarNet keeps the invariant.
LEMMA RfStarNetOK ==
  ASSUME Inv, NEW id \in Ids, NEW restricted \in BOOLEAN, RfStarNet(id, restricted)
  PROVE  Inv'
<1> DEFINE r == NewStream(id, restricted, FALSE)
           s == [r EXCEPT !.starNet = TRUE, !.g2 = IF restricted THEN @ ELSE "STARNET"]
<1>1. RfOK(r) /\ r.id # 0 /\ r.watchdog = "RUN"
  BY NewStreamOK, ZenonT(60)
<1>2. Settle(s, NewStreamLink) /\ UNCHANGED <<users, cache>>
  BY DEF RfStarNet
<1> HIDE DEF r
<1>3. RfOK(s)
  BY <1>1, ZenonT(60) DEF RfOK, RfState, StreamOK, Streaming, Asking
<1> HIDE DEF s
<1> QED BY <1>2, <1>3, NewStreamLinkType, SettleOK

\* RfLocal keeps the invariant.
LEMMA RfLocalOK ==
  ASSUME Inv, NEW id \in Ids, NEW cmd, NEW restricted \in BOOLEAN,
         RfLocal(id, cmd, restricted)
  PROVE  Inv'
<1> DEFINE r == NewStream(id, restricted, cmd.kind = "CQ")
           s == CASE cmd.kind = "CQ" -> r
                  [] cmd.kind \in {"ECHO", "VERSION"} -> [r EXCEPT !.g2 = cmd.kind]
                  [] OTHER -> [r EXCEPT !.g2 = "LOCAL", !.needed = @ \cup {cmd.kind}]
<1>1. RfOK(r) /\ r.id # 0 /\ r.watchdog = "RUN" /\ cmd.kind \in LocalKinds
  BY NewStreamOK, ZenonT(60) DEF RfLocal
<1>2. Settle(s, NewStreamLink) /\ UNCHANGED <<users, cache>>
  BY DEF RfLocal
<1> HIDE DEF r
<1>3. RfOK(s)
  <2>1. CASE cmd.kind = "CQ"
    BY <1>1, <2>1
  <2>2. CASE cmd.kind \in {"ECHO", "VERSION"}
    <3>1. RfOK([r EXCEPT !.g2 = cmd.kind])
      BY <1>1, <2>2 DEF RfOK, RfState, StreamOK, Streaming, Asking
    <3> QED BY <2>2, <3>1
  <2>3. CASE cmd.kind \in {"INFO", "MSG", "WX"}
    <3>1. RfOK([r EXCEPT !.g2 = "LOCAL", !.needed = @ \cup {cmd.kind}])
      BY <1>1, <2>3 DEF RfOK, RfState, StreamOK, Streaming, Asking
    <3> QED BY <2>3, <3>1
  <2> QED BY <1>1, <2>1, <2>2, <2>3 DEF LocalKinds
<1> HIDE DEF s
<1> QED BY <1>2, <1>3, NewStreamLinkType, SettleOK

\* RfRestricted keeps the invariant.
LEMMA RfRestrictedOK ==
  ASSUME Inv, NEW id \in Ids, NEW cmd, RfRestricted(id, cmd) PROVE Inv'
BY NewStreamOK, NewStreamLinkType, SettleOK DEF RfRestricted

\* RfRoute keeps the invariant.
LEMMA RfRouteOK ==
  ASSUME Inv, NEW id \in Ids, NEW cmd \in Inputs, RfRoute(id, cmd) PROVE Inv'
<1> DEFINE to == G2Route(link, cmd)
           asked == to \in {"USER", "REPEATER"}
           r == NewStream(id, FALSE, FALSE)
           s == [r EXCEPT !.g2 = to, !.header = asked,
                          !.g2Call = IF asked THEN cmd.arg ELSE NoCall]
           l == IF asked THEN [NewStreamLink EXCEPT !.query = "RUN"] ELSE NewStreamLink
<1>1. RfOK(r) /\ r.id # 0 /\ r.watchdog = "RUN"
  BY NewStreamOK
<1>2. Settle(s, l) /\ UNCHANGED <<users, cache>>
  BY DEF RfRoute
<1>3. to \in {"USER", "REPEATER", "OK", "LOCAL"}
  <2>1. to # "NONE"
    BY DEF RfRoute
  <2>2. cmd.kind \in {"ROUTE_RPT", "ROUTE_USER"}
    BY <2>1 DEF G2Route
  <2>3. cmd.kind = "ROUTE_USER" => users[cmd.arg] \in {"UNKNOWN", "SELF", "FAR"}
    BY InputType DEF Inv
  <2>4. cmd.kind = "ROUTE_USER" =>
          [UNKNOWN |-> "USER", SELF |-> "LOCAL", FAR |-> "OK"][users[cmd.arg]]
            \in {"USER", "LOCAL", "OK"}
    BY <2>3
  <2> QED BY <2>1, <2>2, <2>4 DEF G2Route
<1>4. asked => cmd.arg \in Calls \cup Users
  <2>1. asked => cmd.kind \in {"ROUTE_RPT", "ROUTE_USER"} /\ cmd.arg # Self
    BY DEF G2Route, RoutedLocally
  <2> QED BY <2>1, InputType
<1> HIDE DEF r, to
<1>5. RfOK(s)
  <2>1. CASE asked
    <3>1. s = [r EXCEPT !.g2 = to, !.header = TRUE, !.g2Call = cmd.arg]
      BY <2>1
    <3> QED BY <1>1, <1>3, <1>4, <2>1, <3>1, ZenonT(60) DEF RfOK, RfState, StreamOK, Streaming, Asking
  <2>2. CASE ~asked
    <3>1. to \in {"OK", "LOCAL"}
      BY <1>3, <2>2
    <3>2. asked = FALSE
      BY <2>2
    <3> HIDE DEF asked
    <3>3. s = [r EXCEPT !.g2 = to, !.header = FALSE, !.g2Call = NoCall]
      BY <3>2
    <3> HIDE DEF s
    <3>4. [r EXCEPT !.g2 = to, !.header = FALSE, !.g2Call = NoCall] \in RfState
      BY <1>1, <3>1 DEF RfOK, RfState
    <3>5. StreamOK(s)
      BY <1>1, <3>1, <3>3 DEF RfOK, RfState, StreamOK, Streaming, Asking
    <3> QED BY <3>3, <3>4, <3>5 DEF RfOK
  <2> QED BY <2>1, <2>2
<1>6. l \in LinkState
  BY NewStreamLinkType DEF LinkState, Timer
<1> HIDE DEF s, l
<1> QED BY <1>2, <1>5, <1>6, SettleOK

\* RfCommand keeps the invariant.
LEMMA RfCommandOK ==
  ASSUME Inv, NEW id \in Ids, NEW cmd \in Inputs, RfCommand(id, cmd) PROVE Inv'
<1>1. Obey(NewStreamLink, cmd) \in LinkState
  BY NewStreamLinkType, ObeyType DEF Inv
<1> QED BY <1>1, NewStreamOK, SettleOK DEF RfCommand

\* RfBusyFlag keeps the invariant.
LEMMA RfBusyFlagOK ==
  ASSUME Inv, NEW cq \in BOOLEAN, RfBusyFlag(cq) PROVE Inv'
<1>1. RfOK([rf EXCEPT !.cq = cq])
  BY DEF Inv, RfOK, RfState, StreamOK, Streaming, Asking
<1> QED BY <1>1 DEF RfBusyFlag, Inv, CacheOK

\* RfHeader keeps the invariant.
LEMMA RfHeaderOK == ASSUME Inv, RfHeader PROVE Inv'
<1>1. PICK id \in Ids, cmd \in Commands, restricted \in Restrictions :
        \/ \E cq \in BOOLEAN : RfOtherBand(id, cmd, restricted, cq)
        \/ cmd.kind = "STARNET" /\ RfStarNet(id, restricted)
        \/ RfLocal(id, cmd, restricted)
        \/ restricted /\ RfRestricted(id, cmd)
        \/ ~restricted /\ (RfRoute(id, cmd) \/ RfCommand(id, cmd))
  BY DEF RfHeader
<1>2. cmd \in Inputs /\ restricted \in BOOLEAN
  BY DEF Inputs
<1> QED BY <1>1, <1>2, RfOtherBandOK, RfStarNetOK, RfLocalOK, RfRestrictedOK,
           RfRouteOK, RfCommandOK

\* The end of a stream, whoever brings it about.
LEMMA EndType ==
  ASSUME NEW r \in RfState, NEW h \in BOOLEAN, NEW x \in BOOLEAN, NEW n \in BOOLEAN
  PROVE  [r EXCEPT !.id = 0, !.g2 = "NONE", !.g2Call = NoCall, !.needed = {},
                   !.watchdog = "OFF", !.header = h, !.xband = x, !.starNet = n] \in RfState
<1> DEFINE p == [r EXCEPT !.id = 0, !.g2 = "NONE", !.g2Call = NoCall, !.needed = {},
                          !.watchdog = "OFF"]
<1>1. p \in RfState
  BY DEF RfState, Timer
<1> HIDE DEF p
<1>2. [p EXCEPT !.header = h, !.xband = x, !.starNet = n] \in RfState
  BY <1>1, ZenonT(60) DEF RfState
<1> QED BY <1>2 DEF p

\* The end of the radio stream keeps the streams.
LEMMA EndRadioOK ==
  ASSUME NEW r, RfOK(r), r.busy = 0
  PROVE  RfOK(EndRadio(r)) /\ EndRadio(r).id = 0 /\ EndRadio(r).busy = 0
<1> DEFINE h == r.header /\ ~Asking(r)
           x == r.xband /\ r.g2 # "XBAND"
           n == r.starNet /\ r.g2 # "STARNET"
           e == [r EXCEPT !.id = 0, !.g2 = "NONE", !.g2Call = NoCall, !.needed = {},
                          !.watchdog = "OFF", !.header = h, !.xband = x, !.starNet = n]
<1>1. r \in RfState /\ StreamOK(r)
  BY DEF RfOK
<1>2. h \in BOOLEAN /\ x \in BOOLEAN /\ n \in BOOLEAN
  OBVIOUS
<1>3. e = EndRadio(r)
  BY DEF EndRadio
<1> HIDE DEF h, x, n
<1>4. e \in RfState
  BY <1>1, <1>2, EndType, ZenonT(60)
<1>5. StreamOK(e) /\ e.id = 0 /\ e.busy = 0
  BY <1>1 DEF RfState, StreamOK, Streaming, Asking
<1> QED BY <1>3, <1>4, <1>5 DEF RfOK

\* The end of the busy stream keeps the streams.
LEMMA EndBusyOK ==
  ASSUME NEW r, RfOK(r), r.id = 0
  PROVE  RfOK(EndBusy(r)) /\ EndBusy(r).id = 0 /\ EndBusy(r).busy = 0
<1>1. r \in RfState /\ StreamOK(r)
  BY DEF RfOK
<1>2. EndBusy(r) \in RfState
  BY <1>1, ZenonT(60) DEF EndBusy, RfState, Timer
<1>3. StreamOK(EndBusy(r)) /\ EndBusy(r).id = 0 /\ EndBusy(r).busy = 0
  BY <1>1 DEF EndBusy, RfState, StreamOK, Streaming, Asking
<1> QED BY <1>2, <1>3 DEF RfOK

\* RfAMBE keeps the invariant.
LEMMA RfAMBEOK ==
  ASSUME Inv, NEW cmd \in Inputs, NEW end \in BOOLEAN, RfAMBE(cmd, end) PROVE Inv'
<1> DEFINE r == [rf EXCEPT !.watchdog = "RUN",
                           !.needed = IF cmd.kind = "INFO" THEN @ \cup {"INFO"} ELSE @]
           l == IF cmd = NoCommand \/ cmd.kind = "INFO" THEN StartReconnect(link)
                ELSE Obey(StartReconnect(link), cmd)
           m == [l EXCEPT !.announce = FALSE, !.query = IF Asking(rf) THEN "OFF" ELSE @]
<1>1. /\ rf.id # 0
      /\ IF end THEN rf' = EndRadio(r) /\ link' = m ELSE Settle(r, l)
      /\ UNCHANGED <<users, cache>>
  BY DEF RfAMBE
<1>2. RfOK(r) /\ r.busy = 0
  BY <1>1, ZenonT(60) DEF Inv, RfOK, RfState, Timer, StreamOK, Streaming, Asking
<1>3. l \in LinkState
  BY StartReconnectType, ObeyType DEF Inv
<1> HIDE DEF r, l
<1>4. m \in LinkState
  BY <1>3, ZenonT(60) DEF LinkState, Timer
<1> HIDE DEF m
<1>5. CASE end
  <2>1. RfOK(EndRadio(r))
    BY <1>2, EndRadioOK
  <2> QED BY <1>1, <1>4, <1>5, <2>1 DEF Inv, CacheOK, RfOK
<1>6. CASE ~end
  BY <1>1, <1>2, <1>3, <1>6, SettleOK
<1> QED BY <1>5, <1>6

\* BusyHeader keeps the invariant.
LEMMA BusyHeaderOK ==
  ASSUME Inv, NEW id \in Ids, NEW cmd \in Inputs, NEW restricted \in BOOLEAN,
         BusyHeader(id, cmd, restricted)
  PROVE  Inv'
<1> DEFINE cq == cmd.kind = "CQ"
           r == [rf EXCEPT !.cq = cq, !.busy = id, !.id = 0,
                           !.watchdog = "RUN", !.restricted = restricted]
           l == IF restricted \/ cmd.kind \in {"CQ", "ECHO", "INFO"} THEN link
                ELSE Obey(link, cmd)
<1>1. Settle(r, l) /\ UNCHANGED <<users, cache>>
  BY DEF BusyHeader
<1>2. cq \in BOOLEAN
  OBVIOUS
<1> HIDE DEF cq
<1>3. RfOK(r)
  BY <1>2, ZenonT(60) DEF Inv, RfOK, RfState, Timer, StreamOK, Streaming, Asking
<1>4. l \in LinkState
  BY ObeyType DEF Inv
<1> HIDE DEF r, l
<1> QED BY <1>1, <1>3, <1>4, SettleOK

\* BusyAMBE keeps the invariant.
LEMMA BusyAMBEOK ==
  ASSUME Inv, NEW cmd \in Inputs, NEW end \in BOOLEAN, BusyAMBE(cmd, end) PROVE Inv'
<1> DEFINE r == [rf EXCEPT !.watchdog = "RUN"]
           l == IF cmd = NoCommand THEN link ELSE Obey(link, cmd)
<1>1. /\ rf.busy # 0
      /\ IF end THEN rf' = EndBusy(r) /\ link' = [l EXCEPT !.announce = FALSE]
                ELSE Settle(r, l)
      /\ UNCHANGED <<users, cache>>
  BY DEF BusyAMBE
<1>2. RfOK(r) /\ r.id = 0
  BY <1>1 DEF Inv, RfOK, RfState, Timer, StreamOK, Streaming, Asking
<1>3. l \in LinkState
  BY ObeyType DEF Inv
<1> HIDE DEF r, l
<1>4. [l EXCEPT !.announce = FALSE] \in LinkState
  BY <1>3 DEF LinkState
<1>5. CASE end
  <2>1. RfOK(EndBusy(r))
    BY <1>2, EndBusyOK
  <2> QED BY <1>1, <1>4, <1>5, <2>1 DEF Inv, CacheOK, RfOK
<1>6. CASE ~end
  BY <1>1, <1>2, <1>3, <1>6, SettleOK
<1> QED BY <1>5, <1>6

\* Whatever the radio sends keeps the invariant.
LEMMA RadioOK == ASSUME Inv, Radio PROVE Inv'
<1>1. CASE RfHeader
  BY <1>1, RfHeaderOK
<1>2. CASE \E cq \in BOOLEAN : RfBusyFlag(cq)
  BY <1>2, RfBusyFlagOK
<1>3. CASE \E cmd \in DtmfCommands \cup {NoCommand}, end \in BOOLEAN :
             RfAMBE(cmd, end) \/ BusyAMBE(cmd, end)
  BY <1>3, RfAMBEOK, BusyAMBEOK DEF Inputs
<1>4. CASE \E id \in Ids, cmd \in Commands, restricted \in Restrictions :
             BusyHeader(id, cmd, restricted)
  BY <1>4, BusyHeaderOK DEF Inputs
<1> QED BY <1>1, <1>2, <1>3, <1>4 DEF Radio

--------------------------------------------------------------------------------
\* The clock.

\* The expired reconnect timer keeps the links.
LEMMA ReconnectDueType ==
  ASSUME CacheOK, NEW l \in LinkState PROVE ReconnectDue(l) \in LinkState
<1> DEFINE A == l.status # "NONE" /\ l.startup = NoCall
           B == l.startup # NoCall /\ (l.status = "NONE" \/ l.repeater # l.startup)
<1>1. Announce(NotLinked(UnlinkAll(l))) \in LinkState
  BY UnlinkAllType, NotLinkedType, AnnounceType
<1>2. LinkInt(UnlinkAll(l), l.startup) \in LinkState
  <2>1. l.startup \in AnyCall
    BY DEF LinkState, AnyCall
  <2> QED BY <2>1, UnlinkAllType, LinkIntType
<1>3. CASE A
  BY <1>1, <1>3 DEF ReconnectDue
<1>4. CASE B
  BY <1>2, <1>4 DEF ReconnectDue
<1>5. CASE ~A /\ ~B
  BY <1>5 DEF ReconnectDue
<1> QED BY <1>3, <1>4, <1>5

\* The expired query timer keeps the links.
LEMMA QueryDueType ==
  ASSUME CacheOK, NEW l \in LinkState, NEW r PROVE QueryDue(r, l) \in LinkState
<1> DEFINE m == [l EXCEPT !.query = "OFF"]
<1>1. m \in LinkState
  BY DEF LinkState, Timer
<1> HIDE DEF m
<1>2. Announce(NotLinked(m)) \in LinkState
  BY <1>1, NotLinkedType, AnnounceType
<1>3. RestoreLinks(NotLinked(CcsStopLink(m))) \in LinkState
  BY <1>1, CcsStopLinkType, NotLinkedType, RestoreLinksType
<1> DEFINE n == CASE Asking(r) -> m
                  [] ~Asking(r) /\ m.status = "PENDING_IRCDDB" -> Announce(NotLinked(m))
                  [] ~Asking(r) /\ IsUp(m, "CCS") /\ m.status = "LINKING" ->
                       RestoreLinks(NotLinked(CcsStopLink(m)))
                  [] OTHER -> m
<1>4. n \in LinkState
  <2>1. CASE Asking(r)
    BY <1>1, <2>1
  <2>2. CASE ~Asking(r) /\ m.status = "PENDING_IRCDDB"
    BY <1>2, <2>2
  <2>3. CASE ~Asking(r) /\ m.status # "PENDING_IRCDDB" /\ IsUp(m, "CCS") /\ m.status = "LINKING"
    BY <1>3, <2>3
  <2>4. CASE /\ ~Asking(r) /\ m.status # "PENDING_IRCDDB"
             /\ ~(IsUp(m, "CCS") /\ m.status = "LINKING")
    BY <1>1, <2>4
  <2> QED BY <2>1, <2>2, <2>3, <2>4
<1> QED BY <1>4 DEF QueryDue, m

\* The expired query timer ends a search and keeps the streams.
LEMMA QueryDueRfOK == ASSUME NEW r, RfOK(r) PROVE RfOK(QueryDueRf(r))
<1> DEFINE q == [r EXCEPT !.g2 = "LOCAL", !.g2Call = NoCall, !.header = FALSE]
<1>1. CASE Asking(r)
  <2>1. q \in RfState
    BY DEF RfOK, RfState
  <2>2. StreamOK(q)
    BY <1>1 DEF RfOK, RfState, StreamOK, Streaming, Asking
  <2> QED BY <1>1, <2>1, <2>2 DEF QueryDueRf, RfOK
<1> QED BY <1>1 DEF QueryDueRf

\* WatchdogDueRf keeps the invariant.
LEMMA WatchdogDueRfOK == ASSUME NEW r, RfOK(r) PROVE RfOK(WatchdogDueRf(r))
<1> DEFINE s == IF r.id # 0 THEN EndRadio(r) ELSE r
           t == IF s.busy # 0 THEN EndBusy(s) ELSE s
<1>1. r.id # 0 => r.busy = 0
  BY DEF RfOK, StreamOK
<1>2. RfOK(s) /\ s.id = 0
  BY <1>1, EndRadioOK
<1> HIDE DEF s
<1>3. RfOK(t) /\ t.id = 0 /\ t.busy = 0
  BY <1>2, EndBusyOK
<1> HIDE DEF t
<1>4. RfOK([t EXCEPT !.watchdog = "OFF"])
  BY <1>3 DEF RfOK, RfState, Timer, StreamOK, Streaming, Asking
<1> QED BY <1>4 DEF WatchdogDueRf, s, t

\* Tick keeps the invariant.
LEMMA TickOK == ASSUME Inv, NEW due \in SUBSET Timers, Tick(due) PROVE Inv'
<1> DEFINE w  == IF "watchdog" \in due THEN "DUE" ELSE rf.watchdog
           r0 == [rf EXCEPT !.watchdog = w]
           l0 == [link EXCEPT !.reconnect = IF "reconnect" \in due THEN "DUE" ELSE @,
                              !.query = IF "query" \in due THEN "DUE" ELSE @]
           l1 == IF l0.reconnect = "DUE" THEN StartReconnect(ReconnectDue(l0)) ELSE l0
           r2 == IF l1.query = "DUE" THEN QueryDueRf(r0) ELSE r0
           l2 == IF l1.query = "DUE" THEN QueryDue(r0, l1) ELSE l1
           l3 == IF w = "DUE" /\ r2.id # 0 /\ Asking(r2)
                 THEN [l2 EXCEPT !.query = "OFF"] ELSE l2
<1>1. /\ "watchdog" \in due => rf.watchdog = "RUN"
      /\ IF PortChangeDue(l0) THEN Settle(r0, ChangeModule(l0, l0.startup))
         ELSE /\ rf' = IF w = "DUE" THEN WatchdogDueRf(Announced(r2, l2))
                                    ELSE Announced(r2, l2)
              /\ link' = [l3 EXCEPT !.announce = FALSE]
      /\ UNCHANGED <<users, cache>>
  BY DEF Tick
<1>2. RfOK(r0)
  BY <1>1 DEF Inv, RfOK, RfState, Timer, StreamOK, Streaming, Asking
<1>3. l0 \in LinkState
  <2>1. ASSUME NEW l \in LinkState PROVE [l EXCEPT !.reconnect = "DUE"] \in LinkState
    BY DEF LinkState, Timer, ReconnectTimer
  <2>2. ASSUME NEW l \in LinkState PROVE [l EXCEPT !.query = "DUE"] \in LinkState
    BY DEF LinkState, Timer
  <2>3. \A l \in LinkState : [l EXCEPT !.query = @] = l /\ [l EXCEPT !.reconnect = @] = l
    BY DEF LinkState
  <2> DEFINE m == [link EXCEPT !.reconnect = IF "reconnect" \in due THEN "DUE" ELSE @]
  <2>4. m \in LinkState
    BY <2>1, <2>3 DEF Inv
  <2>5. l0 = [m EXCEPT !.query = IF "query" \in due THEN "DUE" ELSE @]
    BY <2>4 DEF Inv, LinkState
  <2> HIDE DEF m
  <2> QED BY <2>2, <2>3, <2>4, <2>5
<1> HIDE DEF r0, l0, w
<1>4. l1 \in LinkState
  BY <1>3, ReconnectDueType, StartReconnectType DEF Inv
<1> HIDE DEF l1
<1>5. RfOK(r2) /\ l2 \in LinkState
  BY <1>2, <1>4, QueryDueRfOK, QueryDueType DEF Inv
<1> HIDE DEF r2, l2
<1>6. l3 \in LinkState
  BY <1>5 DEF LinkState, Timer
<1> HIDE DEF l3
<1>7. CASE PortChangeDue(l0)
  <2>1. l0.startup \in Calls
    BY <1>3, <1>7 DEF PortChangeDue, LinkState
  <2>2. ChangeModule(l0, l0.startup) \in LinkState
    BY <1>3, <2>1, ChangeModuleType DEF Inv
  <2> QED BY <1>1, <1>2, <1>7, <2>2, SettleOK
<1>8. CASE ~PortChangeDue(l0)
  <2>1. RfOK(Announced(r2, l2))
    BY <1>5, AnnouncedOK
  <2>2. RfOK(rf')
    BY <1>1, <1>8, <2>1, WatchdogDueRfOK
  <2>3. link' \in LinkState
    <3>1. [l3 EXCEPT !.announce = FALSE] \in LinkState
      BY <1>6 DEF LinkState
    <3> QED BY <1>1, <1>8, <3>1
  <2> QED BY <1>1, <2>2, <2>3 DEF Inv, CacheOK, RfOK
<1> QED BY <1>7, <1>8

\* Clock keeps the invariant.
LEMMA ClockOK == ASSUME Inv, Clock PROVE Inv'
<1>1. CASE MinutesPass
  <2>1. [link EXCEPT !.reconnect = "LATE"] \in LinkState
    BY DEF Inv, LinkState, ReconnectTimer
  <2> QED BY <1>1, <2>1 DEF MinutesPass, Inv, CacheOK, RfOK
<1> QED BY <1>1, TickOK DEF Clock

--------------------------------------------------------------------------------
\* ircDDB.

\* Learn keeps the invariant.
LEMMA LearnOK == ASSUME CacheOK, NEW f \in Families, Learn(f) PROVE CacheOK'
BY DEF CacheOK, Learn, Vias, Tables

\* IrcRepeater keeps the invariant.
LEMMA IrcRepeaterOK ==
  ASSUME Inv, NEW c \in Calls, NEW found \in BOOLEAN, IrcRepeater(c, found) PROVE Inv'
<1> DEFINE mine == rf.g2 = "REPEATER" /\ rf.g2Call = c
           l == IF mine THEN [link EXCEPT !.query = "OFF"] ELSE link
           to == IF found THEN "OK" ELSE "LOCAL"
           q == [rf EXCEPT !.g2 = to, !.g2Call = NoCall, !.header = FALSE]
           r == IF mine THEN q ELSE rf
<1>1. /\ Settle(r, ResolveLink(l, c, found))
      /\ IF found THEN Learn(c.fam) ELSE UNCHANGED cache
      /\ UNCHANGED users
  BY DEF IrcRepeater
<1>2. l \in LinkState
  BY DEF Inv, LinkState, Timer
<1>3. to \in {"OK", "LOCAL"}
  OBVIOUS
<1> HIDE DEF to
<1>4. ASSUME mine PROVE RfOK(q)
  <2>1. q \in RfState
    BY <1>3 DEF Inv, RfOK, RfState
  <2>2. StreamOK(q)
    BY <1>3, <1>4 DEF Inv, RfOK, RfState, StreamOK, Streaming, Asking
  <2> QED BY <2>1, <2>2 DEF RfOK
<1>5. RfOK(r)
  BY <1>4 DEF Inv
<1> HIDE DEF l, r
<1>6. ResolveLink(l, c, found) \in LinkState
  BY <1>2, ResolveLinkType
<1>7. RfOK(rf') /\ link' \in LinkState
  BY <1>1, <1>5, <1>6, AnnouncedOK DEF Settle, LinkState
<1>8. c.fam \in Families
  BY DEF Calls
<1>9. CacheOK'
  BY <1>1, <1>8, LearnOK DEF Inv, CacheOK
<1> QED BY <1>1, <1>7, <1>9 DEF Inv, RfOK

\* Dropped keeps the types.
LEMMA DroppedType ==
  ASSUME CacheOK, NEW l \in LinkState, NEW table \in Tables, NEW f
  PROVE  Dropped(l, table, f) \in LinkState
BY RemoveType DEF Dropped

\* IrcDDBAnswer keeps the invariant.
LEMMA IrcDDBAnswerOK == ASSUME Inv, IrcDDBAnswer PROVE Inv'
<1>1. CASE \E c \in Calls, found \in BOOLEAN : IrcRepeater(c, found)
  BY <1>1, IrcRepeaterOK
<1>2. CASE \E u \in Users, where \in {"SELF", "FAR"} : IrcUser(u, where)
  BY <1>2 DEF IrcUser, Inv, CacheOK, RfOK
<1>3. ASSUME NEW f \in Families, NEW address \in BOOLEAN, IrcGateway(f, address)
      PROVE  Inv'
  <2>1. CASE address
    BY <1>3, <2>1, LearnOK DEF IrcGateway, Inv, RfOK
  <2>2. CASE ~address
    <3>1. Dropped(Dropped(link, "DEXTRA", f), "DPLUS", f) \in LinkState
      BY DroppedType DEF Inv, Tables
    <3> QED BY <1>3, <2>2, <3>1, LinkStepOK DEF IrcGateway
  <2> QED BY <2>1, <2>2
<1> QED BY <1>1, <1>2, <1>3 DEF IrcDDBAnswer

--------------------------------------------------------------------------------
\* The far ends.

\* SetSlots keeps the types.
LEMMA SetSlotsType ==
  ASSUME NEW l \in LinkState, NEW table \in Tables, NEW S, NEW st \in SlotState
  PROVE  SetSlots(l, table, S, st) \in LinkState
<1>1. \A i \in Slots : [l.slots[table][i] EXCEPT !.st = st] \in Slot
  BY SlotsType DEF Table, Slot
<1>2. [i \in Slots |-> IF i \in S THEN [l.slots[table][i] EXCEPT !.st = st]
                                  ELSE l.slots[table][i]] \in Table
  BY <1>1, SlotsType DEF Table
<1> QED BY <1>2, PutType DEF SetSlots

\* Free keeps the types.
LEMMA FreeType ==
  ASSUME NEW l \in LinkState, NEW table \in Tables, NEW i PROVE Free(l, table, i) \in LinkState
BY SlotsType, ReleaseType, PutType DEF Free

\* DExtraStep keeps the invariant.
LEMMA DExtraStepOK ==
  ASSUME Inv, NEW f \in Families, DExtraAck(f) \/ DExtraNak(f) PROVE Inv'
<1>1. ASSUME DExtraAck(f) PROVE Inv'
  <2> DEFINE S == {i \in InState("DEXTRA", "LINKING") : link.slots["DEXTRA"][i].call.fam = f}
             l == SetSlots(LinkUp(link, "DEXTRA"), "DEXTRA", S, "LINKED")
  <2>1. l \in LinkState
    BY LinkUpType, SetSlotsType DEF Inv, Tables, SlotState
  <2>2. LinkStep(l)
    BY <1>1 DEF DExtraAck
  <2> HIDE DEF l
  <2> QED BY <2>1, <2>2, LinkStepOK
<1>2. ASSUME DExtraNak(f) PROVE Inv'
  <2> DEFINE t == link.slots["DEXTRA"]
             S == {i \in InState("DEXTRA", "LINKING") : t[i].call.fam = f}
             l == IF \E i \in S : t[i].call = link.repeater
                  THEN LinkRefused(link, link.repeater) ELSE link
             m == Put(l, "DEXTRA", Release(t, S))
  <2>1. l \in LinkState
    BY LinkRefusedType DEF Inv
  <2> HIDE DEF l
  <2>2. m \in LinkState
    BY <2>1, SlotsType, ReleaseType, PutType, SMTT(60) DEF Inv, Tables
  <2>3. LinkStep(m)
    BY <1>2 DEF DExtraNak, l
  <2> HIDE DEF m
  <2> QED BY <2>2, <2>3, LinkStepOK
<1> QED BY <1>1, <1>2

\* DExtraDisconnect keeps the invariant.
LEMMA DExtraDisconnectOK ==
  ASSUME Inv, NEW c \in Calls, DExtraDisconnect(c) PROVE Inv'
BY RemoveType, LinkStepOK DEF DExtraDisconnect, Inv, Tables

\* What an answer does to the one link it is for.
LEMMA FreeAfterOK ==
  ASSUME Inv, NEW l \in LinkState, NEW table \in Tables, NEW i, LinkStep(Free(l, table, i))
  PROVE  Inv'
BY FreeType, LinkStepOK

\* SocketStep keeps the invariant.
LEMMA SocketStepOK ==
  ASSUME Inv, NEW i \in Slots,
         DPlusNak(i) \/ DPlusDisconnect(i) \/ DCSNak(i) \/ DCSDisconnect(i)
  PROVE  Inv'
<1>1. link \in LinkState /\ CacheOK /\ "DPLUS" \in Tables /\ "DCS" \in Tables
  BY DEF Inv, Tables
<1>2. \A c : LinkRefused(link, c) \in LinkState /\ LinkFailed(link, c) \in LinkState
  BY <1>1, LinkRefusedType, LinkFailedType
<1>3. CASE DPlusNak(i)
  BY <1>1, <1>2, <1>3, FreeAfterOK DEF DPlusNak
<1>4. CASE DPlusDisconnect(i)
  BY <1>1, <1>2, <1>4, FreeAfterOK DEF DPlusDisconnect
<1>5. CASE DCSNak(i)
  BY <1>1, <1>2, <1>5, FreeAfterOK DEF DCSNak
<1>6. CASE DCSDisconnect(i)
  BY <1>1, <1>2, <1>6, FreeAfterOK DEF DCSDisconnect
<1> QED BY <1>3, <1>4, <1>5, <1>6

\* LinkAck keeps the invariant.
LEMMA LinkAckOK ==
  ASSUME Inv, NEW table \in Tables, NEW i \in Slots, LinkAck(table, i) PROVE Inv'
<1>1. SetSlots(LinkUp(link, table), table, {i}, "LINKED") \in LinkState
  BY LinkUpType, SetSlotsType DEF Inv, SlotState
<1> QED BY <1>1, LinkStepOK DEF LinkAck

\* SlotTimeout keeps the invariant.
LEMMA SlotTimeoutOK ==
  ASSUME Inv, NEW table \in Tables, NEW i \in Slots, SlotTimeout(table, i) PROVE Inv'
<1> DEFINE c == link.slots[table][i].call
<1>1. SetSlots(LinkLost(link, table, c), table, {i}, "LINKING") \in LinkState
  BY LinkLostType, SetSlotsType DEF Inv, SlotState
<1>2. Free(link, table, i) \in LinkState
  BY FreeType DEF Inv
<1> QED BY <1>1, <1>2, LinkStepOK DEF SlotTimeout

\* Other keeps the invariant.
LEMMA OtherOK ==
  ASSUME Inv, NEW table \in Tables,
         OtherTakes(table) \/ \E i \in Slots : OtherLeaves(table, i)
  PROVE  Inv'
<1>1. SetSlots(link, table, {FirstFree(link.slots[table])}, "OTHER") \in LinkState
  BY SetSlotsType DEF Inv, SlotState
<1>2. \A i : Free(link, table, i) \in LinkState
  BY FreeType DEF Inv
<1> QED BY <1>1, <1>2, LinkStepOK DEF OtherTakes, OtherLeaves

\* Network keeps the invariant.
LEMMA NetworkOK == ASSUME Inv, Network PROVE Inv'
<1>1. CASE \E f \in Families : DExtraAck(f) \/ DExtraNak(f)
  BY <1>1, DExtraStepOK
<1>2. CASE \E c \in Calls : DExtraDisconnect(c)
  BY <1>2, DExtraDisconnectOK
<1>3. CASE \E i \in Slots : \/ DPlusNak(i) \/ DPlusDisconnect(i)
                            \/ DCSNak(i) \/ DCSDisconnect(i)
                            \/ \E table \in {"DPLUS", "DCS"} : LinkAck(table, i)
                            \/ \E table \in Tables : SlotTimeout(table, i)
  BY <1>3, SocketStepOK, LinkAckOK, SlotTimeoutOK DEF Tables
<1>4. CASE \E table \in Others : OtherTakes(table) \/ \E i \in Slots : OtherLeaves(table, i)
  BY <1>4, OtherOK
<1> QED BY <1>1, <1>2, <1>3, <1>4 DEF Network

--------------------------------------------------------------------------------
\* CCS and the remote control.

\* Ccs keeps the invariant.
LEMMA CcsOK == ASSUME Inv, Ccs PROVE Inv'
<1>1. link \in LinkState /\ CacheOK
  BY DEF Inv
<1>2. CASE CcsAck \/ CcsNak
  <2>1. [link EXCEPT !.ccs = "CONNECTED"] \in LinkState
    BY <1>1 DEF LinkState
  <2>2. [link EXCEPT !.ccs = "DISABLED"] \in LinkState
    BY <1>1 DEF LinkState
  <2> QED BY <1>2, <2>1, <2>2, LinkStepOK DEF CcsAck, CcsNak
<1>3. CASE CcsIncomingCall
  <2>1. [link EXCEPT !.ccs = "ACTIVE", !.ccsDir = "INCOMING"] \in LinkState
    BY <1>1, ZenonT(60) DEF LinkState
  <2> QED BY <1>1, <1>3, <2>1, CcsLinkMadeType, LinkStepOK DEF CcsIncomingCall
<1>4. CASE CcsTerminate
  <2>1. [link EXCEPT !.ccs = "CONNECTED"] \in LinkState
    BY <1>1 DEF LinkState
  <2> QED BY <1>1, <1>4, <2>1, CcsLinkEndedType, LinkStepOK DEF CcsTerminate
<1>5. CASE CcsFound
  <2>1. [link EXCEPT !.ccsKnown = TRUE, !.ccsAsked = FALSE] \in LinkState
    BY <1>1 DEF LinkState
  <2> QED BY <1>1, <1>5, <2>1, CcsLinkMadeType, LinkStepOK DEF CcsFound
<1>6. CASE CcsNotFound
  <2>1. [link EXCEPT !.ccs = "CONNECTED", !.ccsAsked = FALSE] \in LinkState
    BY <1>1 DEF LinkState
  <2> QED BY <1>1, <1>6, <2>1, CcsLinkEndedType, LinkStepOK DEF CcsNotFound
<1>7. CASE CcsPollLost
  <2> DEFINE m == IF link.ccs = "ACTIVE" THEN CcsLinkEnded(link, link.ccsDir) ELSE link
  <2>1. m \in LinkState
    BY <1>1, CcsLinkEndedType
  <2>2. LinkStep([m EXCEPT !.ccs = "CONNECTING"])
    BY <1>7 DEF CcsPollLost
  <2> HIDE DEF m
  <2>3. [m EXCEPT !.ccs = "CONNECTING"] \in LinkState
    BY <2>1 DEF LinkState
  <2> QED BY <2>2, <2>3, LinkStepOK
<1> QED BY <1>2, <1>3, <1>4, <1>5, <1>6, <1>7 DEF Ccs

\* DropCcs keeps the types.
LEMMA DropCcsType == ASSUME CacheOK, NEW l \in LinkState PROVE DropCcs(l) \in LinkState
<1>1. NotLinked(CcsStopLink(l)) \in LinkState
  BY CcsStopLinkType, NotLinkedType
<1>2. [NotLinked(CcsStopLink(l)) EXCEPT !.query = "OFF"] \in LinkState
  BY <1>1 DEF LinkState, Timer
<1> QED BY <1>2 DEF DropCcs

\* RemoteLink keeps the invariant.
LEMMA RemoteLinkOK ==
  ASSUME Inv, NEW mode \in RemoteModes, NEW c \in RemoteTargets, RemoteLink(mode, c)
  PROVE  Inv'
<1> DEFINE k == DropCcs(link)
           l == [k EXCEPT
                   !.startup = c, !.mode = mode, !.timeout = @ \/ mode = "TIMED",
                   !.reconnect = IF mode = "TIMED" THEN "RUN" ELSE "OFF"]
           A == (l.status # "NONE" /\ l.repeater = c) \/ (l.status = "NONE" /\ c = NoCall)
           B == l.status # "NONE" /\ l.repeater # c /\ c = NoCall
           C == l.status # "NONE" /\ l.repeater # c /\ c # NoCall /\ SameFamily(l.repeater, c)
           n == CASE A -> l
                  [] B -> Announce(NotLinked(UnlinkAll(l)))
                  [] C -> ChangeModule(l, c)
                  [] OTHER -> LinkInt(UnlinkAll(l), c)
<1>1. LinkStep(n)
  BY DEF RemoteLink
<1>2. c \in Calls \cup {NoCall} /\ c \in AnyCall /\ mode \in {"NEVER", "FIXED", "TIMED"}
  BY DEF AnyCall
<1>3. CacheOK /\ k \in LinkState
  BY DropCcsType DEF Inv
<1> HIDE DEF k
<1>4. l \in LinkState
  <2> DEFINE t == k.timeout \/ mode = "TIMED"
             w == IF mode = "TIMED" THEN "RUN" ELSE "OFF"
             p == [k EXCEPT !.startup = c, !.mode = mode]
  <2>1. t \in BOOLEAN /\ w \in ReconnectTimer
    BY DEF ReconnectTimer, Timer
  <2>2. p \in LinkState
    BY <1>2, <1>3 DEF LinkState
  <2>3. l = [p EXCEPT !.timeout = t, !.reconnect = w]
    BY <1>3 DEF LinkState
  <2> HIDE DEF p, t, w
  <2>4. [p EXCEPT !.timeout = t, !.reconnect = w] \in LinkState
    BY <2>1, <2>2 DEF LinkState
  <2> QED BY <2>3, <2>4
<1> HIDE DEF l
<1>5. n \in LinkState
  <2>1. CASE A
    BY <1>4, <2>1
  <2>2. CASE ~A /\ B
    BY <1>3, <1>4, <2>2, UnlinkAllType, NotLinkedType, AnnounceType
  <2>3. CASE ~A /\ ~B /\ C
    BY <1>2, <1>3, <1>4, <2>3, ChangeModuleType
  <2>4. CASE ~A /\ ~B /\ ~C
    BY <1>2, <1>3, <1>4, <2>4, UnlinkAllType, LinkIntType
  <2> QED BY <2>1, <2>2, <2>3, <2>4
<1> HIDE DEF n
<1> QED BY <1>1, <1>5, LinkStepOK

\* Remote keeps the invariant.
LEMMA RemoteOK == ASSUME Inv, Remote PROVE Inv'
<1>1. link \in LinkState /\ CacheOK
  BY DEF Inv
<1>2. ASSUME NEW table \in Tables, NEW c, RemoteUnlink(table, c) PROVE Inv'
  <2>1. TableUnlinkBy(link, table, c) \in LinkState
    BY <1>1, DExtraUnlinkType, DPlusUnlinkType, DCSUnlinkType DEF TableUnlinkBy, Tables
  <2> QED BY <1>2, <2>1, LinkStepOK DEF RemoteUnlink
<1>3. CASE RemoteUnlinkCcs
  BY <1>1, <1>3, CcsStopLinkType, LinkStepOK DEF RemoteUnlinkCcs
<1> QED BY <1>2, <1>3, RemoteLinkOK DEF Remote

--------------------------------------------------------------------------------
\* The theorems.

\* Fresh keeps the types.
LEMMA FreshType ==
  ASSUME NEW mode \in Modes, NEW startup \in Startups
  PROVE  Fresh(mode, startup) \in LinkState
<1>1. [t \in Tables |-> [i \in Slots |-> FreeSlot]] \in [Tables -> Table]
  BY DEF Table, FreeSlot, Slot, SlotState
<1>2. /\ mode \in {"NEVER", "FIXED", "TIMED"} /\ startup \in Calls \cup {NoCall}
      /\ NoCall \in AnyCall
  BY DEF AnyCall
<1> DEFINE late == IF mode = "TIMED" THEN "RUN" ELSE "OFF"
           timed == mode = "TIMED"
           ccs == IF CcsOn THEN "CONNECTING" ELSE "DISABLED"
<1>3. /\ late \in ReconnectTimer /\ timed \in BOOLEAN
      /\ ccs \in {"DISABLED", "CONNECTING", "CONNECTED", "ACTIVE"} /\ "OFF" \in Timer
  BY DEF ReconnectTimer, Timer
<1> HIDE DEF late, timed, ccs
<1> DEFINE f == [status |-> "NONE", via |-> "NONE", repeater |-> NoCall, relink |-> FALSE,
                 query |-> "OFF", reconnect |-> late, timeout |-> timed, mode |-> mode,
                 startup |-> startup, last |-> NoCall, announce |-> FALSE, ccs |-> ccs,
                 ccsDir |-> "OUTGOING", ccsKnown |-> FALSE, ccsAsked |-> FALSE,
                 slots |-> [t \in Tables |-> [i \in Slots |-> FreeSlot]]]
<1>4. f \in LinkState
  BY <1>1, <1>2, <1>3 DEF LinkState
<1> QED BY <1>4 DEF Fresh, late, timed, ccs

\* LinkAtStartup keeps the types.
LEMMA LinkAtStartupType ==
  ASSUME CacheOK, NEW l \in LinkState, NEW c \in Calls \cup {NoCall}
  PROVE  LinkAtStartup(l, c) \in LinkState
<1> DEFINE pending == [l EXCEPT !.status = "PENDING_IRCDDB", !.repeater = c, !.query = "RUN"]
           unknown == [l EXCEPT !.repeater = c]
<1>1. c \in AnyCall
  BY DEF AnyCall
<1>2. pending \in LinkState /\ unknown \in LinkState
  BY <1>1, ZenonT(60) DEF LinkState, Timer
<1>3. LinkInt(l, c) \in LinkState
  BY <1>1, LinkIntType
<1> HIDE DEF pending, unknown
<1> DEFINE n == CASE c = NoCall -> l
                  [] c # NoCall /\ FindRepeater(c) = "UNKNOWN" /\ IrcDDB -> pending
                  [] c # NoCall /\ FindRepeater(c) = "UNKNOWN" /\ ~IrcDDB -> unknown
                  [] OTHER -> LinkInt(l, c)
<1>4. n \in LinkState
  <2>1. CASE c = NoCall
    BY <2>1
  <2>2. CASE c # NoCall /\ FindRepeater(c) = "UNKNOWN"
    BY <2>2, <1>2
  <2>3. CASE c # NoCall /\ FindRepeater(c) # "UNKNOWN"
    BY <2>3, <1>3
  <2> QED BY <2>1, <2>2, <2>3
<1> QED BY <1>4 DEF LinkAtStartup, pending, unknown

\* A repeater starts in the invariant.
LEMMA InitOK == Init => Inv
<1> SUFFICES ASSUME Init PROVE Inv
  OBVIOUS
<1>1. CacheOK
  BY DEF Init, CacheOK
<1>2. RfOK(rf)
  BY DEF Init, RfOK, RfState, Timer, StreamOK, Streaming, Asking
<1>3. link \in LinkState
  <2>1. PICK mode \in Modes, startup \in Startups, atStartup \in BOOLEAN :
          link = [LinkAtStartup(Fresh(mode, startup),
                                IF atStartup THEN startup ELSE NoCall)
                    EXCEPT !.announce = FALSE]
    BY DEF Init
  <2> DEFINE c == IF atStartup THEN startup ELSE NoCall
             l == LinkAtStartup(Fresh(mode, startup), c)
  <2>2. c \in Calls \cup {NoCall}
    OBVIOUS
  <2> HIDE DEF c
  <2>3. l \in LinkState
    BY <1>1, <2>2, FreshType, LinkAtStartupType
  <2>4. link = [l EXCEPT !.announce = FALSE]
    BY <2>1 DEF c
  <2> HIDE DEF l
  <2> QED BY <2>3, <2>4 DEF LinkState
<1>4. users \in [Users -> {"UNKNOWN", "SELF", "FAR"}]
  BY DEF Init
<1> QED BY <1>1, <1>2, <1>3, <1>4 DEF Inv

\* No step leaves the invariant.
LEMMA NextOK == Inv /\ [Next]_vars => Inv'
<1> SUFFICES ASSUME Inv, [Next]_vars PROVE Inv'
  OBVIOUS
<1>1. CASE Next
  BY <1>1, RadioOK, ClockOK, IrcDDBAnswerOK, NetworkOK, CcsOK, RemoteOK DEF Next
<1>2. CASE UNCHANGED vars
  BY <1>2 DEF vars, Inv, CacheOK, RfOK
<1> QED BY <1>1, <1>2

\* Types and stream conditions together hold in every state of the repeater.
THEOREM InvHolds == Spec => []Inv
BY InitOK, NextOK, PTL DEF Spec

\* Every record and table of the repeater keeps its type, whatever the order
\* of commands, answers, refusals, time-outs and calls.
THEOREM TypeCorrect == Spec => []TypeOK
<1>1. Inv => TypeOK
  BY DEF Inv, TypeOK, RfOK, CacheOK
<1> QED BY <1>1, InvHolds, PTL

\* The loops that unlink a repeater (DExtraHandler.cpp 434-499), which call
\* back into the repeater and may link again from inside, do what Remove says.
THEOREM LoopIsRemove == Spec => []RemoveIsTheLoop
<1>1. Inv => RemoveIsTheLoop
  <2> SUFFICES ASSUME Inv, NEW calls, NEW told, NEW r \in BOOLEAN
               PROVE  LET l == [link EXCEPT !.relink = r]
                      IN  Remove(l, "DEXTRA", calls, told) = RemoveLoop(l, "DEXTRA", calls, told)
    BY DEF RemoveIsTheLoop
  <2>1. CacheOK /\ [link EXCEPT !.relink = r] \in LinkState
    BY DEF Inv, LinkState
  <2>2. "DEXTRA" \in Tables
    BY DEF Tables
  <2> QED BY <2>1, <2>2, RemoveIsLoop
<1> QED BY <1>1, InvHolds, PTL

\* The header, cross-band and StarNet pointers are there whenever m_g2Status
\* lets the code follow them (RepeaterHandler.cpp 705-728, 1149-1191, 1447).
THEOREM PointersValid == Spec => []G2PointersValid
<1>1. Inv => G2PointersValid
  BY DEF Inv, RfOK, StreamOK, G2PointersValid
<1> QED BY <1>1, InvHolds, PTL

\* One stream at a time, and under the watchdog.
THEOREM StreamIsWatched == Spec => []StreamWatched
<1>1. Inv => StreamWatched
  BY DEF Inv, RfOK, StreamOK, StreamWatched
<1> QED BY <1>1, InvHolds, PTL

\* No route and no pending announcement survive the stream they belong to.
THEOREM IdleClean == Spec => []IdleIsClean
<1>1. Inv => IdleIsClean
  BY DEF Inv, RfOK, StreamOK, IdleIsClean
<1> QED BY <1>1, InvHolds, PTL

\* A step of the CCS client during an incoming call leaves the repeater's links
\* as they are: ccsLinkMade and ccsLinkEnded do nothing for that direction.
THEOREM IncomingKeeps == Spec => IncomingKeepsLinks
<1> DEFINE Kept(l) == /\ l.slots = link.slots
                      /\ l.status = link.status /\ l.repeater = link.repeater
<1>1. ASSUME Inv, Ccs, link.ccs = "ACTIVE", link.ccsDir = "INCOMING" PROVE Kept(link')
  <2>1. link \in LinkState
    BY <1>1 DEF Inv
  <2>2. CASE CcsAck \/ CcsNak \/ CcsIncomingCall
    BY <1>1, <2>2 DEF CcsAck, CcsNak, CcsIncomingCall
  <2>3. CASE CcsTerminate
    BY <1>1, <2>1, <2>3
       DEF CcsTerminate, LinkStep, Settle, CcsLinkEnded, Announce, LinkState
  <2>4. CASE CcsFound
    BY <1>1, <2>1, <2>4 DEF CcsFound, LinkStep, Settle, CcsLinkMade, Announce, LinkState
  <2>5. CASE CcsNotFound
    BY <1>1, <2>1, <2>5
       DEF CcsNotFound, LinkStep, Settle, CcsLinkEnded, Announce, LinkState
  <2>6. CASE CcsPollLost
    BY <1>1, <2>1, <2>6
       DEF CcsPollLost, LinkStep, Settle, CcsLinkEnded, Announce, LinkState
  <2> QED BY <1>1, <2>2, <2>3, <2>4, <2>5, <2>6 DEF Ccs
<1> DEFINE A == Ccs /\ link.ccs = "ACTIVE" /\ link.ccsDir = "INCOMING" =>
                  /\ link'.slots = link.slots
                  /\ link'.status = link.status /\ link'.repeater = link.repeater
<1>2. Inv /\ [Next]_vars => [A]_vars
  BY <1>1
<1>3. Spec => [][A]_vars
  BY <1>2, InvHolds, PTL DEF Spec
<1> QED BY <1>3 DEF IncomingKeepsLinks

================================================================================
