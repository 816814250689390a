----------------------------- MODULE RepeaterLinks -----------------------------
(***************************************************************************)
(* The link control of CRepeaterHandler for one DV repeater, with the      *)
(* callbacks of the reflector handlers and the CCS client it drives.       *)
(*                                                                         *)
(* The handlers run on one thread and call each other synchronously and    *)
(* re-entrantly: a user command calls CDExtraHandler::unlink, which calls  *)
(* CRepeaterHandler::linkFailed while its own loop is in progress, which   *)
(* may call linkInt and through it link() of any handler.  Every C++       *)
(* function is therefore an operator from a link state to the next one,    *)
(* and a call is an application.                                           *)
(***************************************************************************)
EXTENDS LinkTables

CONSTANTS CcsCall,   \* the number or callsign of a CCS call: never a Calls member
          Enabled,   \* protocols enabled in the configuration
          IrcDDB     \* is ircDDB configured (m_irc != NULL)?

ASSUME RepeaterLinksAssumption ==
  /\ Enabled \subseteq Tables
  /\ IrcDDB \in BOOLEAN
  /\ CcsCall # NoCall /\ CcsCall \notin Calls

VARIABLE cache   \* CCacheManager: family of callsigns -> protocol of its gateway

AnyCall == Calls \cup {NoCall, CcsCall}
Timer   == {"OFF", "RUN", "DUE"}     \* CTimer: stopped, running, hasExpired()

\* The reconnect timer runs for minutes, the other timers for seconds: "LATE"
\* is the end of its time, reached only after every query begun before it ended.
ReconnectTimer == Timer \cup {"LATE"}

LinkState ==
  [status    : {"NONE", "PENDING_IRCDDB", "LINKING", "LINKED"},  \* m_linkStatus
   via       : Vias \cup {"NONE", "CCS"},  \* the protocol LINKING or LINKED is by
   repeater  : AnyCall,                    \* m_linkRepeater
   relink    : BOOLEAN,                    \* m_linkRelink
   query     : Timer,                      \* m_queryTimer
   reconnect : ReconnectTimer,             \* m_linkReconnectTimer
   timeout   : BOOLEAN,                    \* has that timer a time-out set?
   mode      : {"NEVER", "FIXED", "TIMED"},\* m_linkReconnect
   startup   : Calls \cup {NoCall},        \* m_linkStartup
   last      : AnyCall,                    \* m_lastReflector
   announce  : BOOLEAN,                    \* triggerInfo() has been called
   ccs       : {"DISABLED", "CONNECTING", "CONNECTED", "ACTIVE"}, \* CCCSHandler::m_state
   ccsDir    : {"OUTGOING", "INCOMING"},   \* CCCSHandler::m_direction
   ccsKnown  : BOOLEAN,                    \* CCCSHandler::m_cache maps the number
   ccsAsked  : BOOLEAN,                    \* the server owes an answer on the number
   slots     : [Tables -> Table]]

--------------------------------------------------------------------------------
\* Helpers.

Announce(l) == [l EXCEPT !.announce = TRUE]

NotLinked(l) == [l EXCEPT !.status = "NONE", !.via = "NONE", !.repeater = NoCall]

\* CTimer::start(): nothing happens while no time-out has been set.
StartReconnect(l) == IF l.timeout THEN [l EXCEPT !.reconnect = "RUN"] ELSE l

\* "Just a change of port?": the first seven characters are the same.
SameFamily(c, d) ==
  c = d \/ (c \in Calls /\ d \in Calls /\ c.fam = d.fam)

\* CCacheManager::findRepeater: the protocol, or UNKNOWN when it returns NULL.
FindRepeater(c) == IF c \in Calls THEN cache[c.fam] ELSE "UNKNOWN"

IsReflector(c) == c \in Calls /\ c.fam \in ReflectorFamilies

IsUp(l, via) == l.status \in Active /\ l.via = via

--------------------------------------------------------------------------------
\* Making a link.

\* The handler's link() and the status that goes with it.
StartLinking(l, via, c) ==
  [l EXCEPT !.status = "LINKING", !.via = via, !.repeater = c,
            !.slots[TableOf(via)] = TableLink(via, @, c)]

LinkInt(l, c) ==
  LET via     == FindRepeater(c)
      refused == [l EXCEPT !.status = "NONE", !.via = "NONE", !.repeater = c]
  IN  Announce(
        CASE via = "UNKNOWN" /\ IsReflector(c) -> l
          [] via = "UNKNOWN" /\ ~IsReflector(c) ->
               IF IrcDDB
               THEN [l EXCEPT !.status = "PENDING_IRCDDB", !.via = "NONE",
                              !.repeater = c, !.query = "RUN"]
               ELSE refused
          [] OTHER -> IF via \in Enabled \cup {"LOOPBACK"}
                      THEN StartLinking(l, via, c) ELSE refused)

\* ircDDB has answered a search for a repeater; it always says DP_DEXTRA.
ResolveLink(l, c, found) ==
  IF ~(l.status = "PENDING_IRCDDB" /\ l.repeater = c) THEN l
  ELSE LET m == [l EXCEPT !.query = "OFF"]
       IN  IF found /\ "DEXTRA" \in Enabled THEN StartLinking(m, "DEXTRA", c)
           ELSE Announce(NotLinked(m))

--------------------------------------------------------------------------------
\* Callbacks of the reflector handlers.

LinkUp(l, table) ==
  IF l.status = "LINKING" /\ l.via \in Vias /\ TableOf(l.via) = table
  THEN Announce([l EXCEPT !.status = "LINKED"]) ELSE l

\* Mutant: the wish to relink is not cleared.
LinkFailedAgain(l, c) ==
  IF l.relink THEN LinkInt(l, l.repeater)
  ELSE IF l.status = "NONE" \/ l.repeater # c THEN l
  ELSE Announce(NotLinked(l))

\* linkFailed(..., false): the link is over.
LinkFailed(l, c) ==
  IF l.relink THEN LinkInt([l EXCEPT !.relink = FALSE], l.repeater)
  ELSE IF l.status = "NONE" \/ l.repeater # c THEN l
  ELSE Announce(NotLinked(l))

\* linkFailed(..., true): should the handler keep trying, and the new state.
KeepTrying(l, table, c) ==
  /\ l.status \in Active /\ l.repeater = c
  /\ l.via \in Vias /\ TableOf(l.via) = table

\* Mutant: the users are not told that the link is lost.
LinkLostInSilence(l, table, c) == l

LinkLost(l, table, c) ==
  IF KeepTrying(l, table, c) /\ l.status = "LINKED"
  THEN Announce([l EXCEPT !.status = "LINKING"]) ELSE l

LinkRefused(l, c) == IF l.repeater = c THEN Announce(NotLinked(l)) ELSE l

--------------------------------------------------------------------------------
\* Ending links.

(***************************************************************************)
(* The loops that remove outgoing links to some callsigns at once:         *)
(* CDExtraHandler::unlink, CDExtraHandler::process(CT_UNLINK), and         *)
(* gatewayUpdate of DExtra and of D-Plus.  In slot order each link in a    *)
(* state of "told" is reported to the repeater with linkFailed before its  *)
(* slot is freed; the others go without a word.  If a relink is wanted the *)
(* first report makes a new link, from inside the loop, in the first free  *)
(* slot: the loop meets it only if that slot lies further on.              *)
(***************************************************************************)
Put(l, table, t) == [l EXCEPT !.slots[table] = t]

Report(l, table, reported) ==      \* linkFailed for slots, no relink wanted
  IF l.status # "NONE" /\ \E i \in reported : l.slots[table][i].call = l.repeater
  THEN Announce(NotLinked(l)) ELSE l

\* Mutant: the link made from inside the loop is lost with the old ones.
RemoveAtOnce(l, table, calls, told) ==
  LET t   == l.slots[table]
      hit == {i \in Outgoing(t) : t[i].call \in calls}
      m   == Report(l, table, {i \in hit : t[i].st \in told})
  IN  Put(m, table, Release(t, hit))

Remove(l, table, calls, told) ==
  LET t        == l.slots[table]
      hit      == {i \in Outgoing(t) : t[i].call \in calls}
      reported == {i \in hit : t[i].st \in told}
  IN  IF ~l.relink \/ reported = {}
      THEN Put(Report(l, table, reported), table, Release(t, hit))
      ELSE LET first  == CHOOSE i \in reported : \A j \in reported : i <= j
               before == Release(t, {i \in hit : i < first})
               m      == LinkFailed(Put(l, table, before), t[first].call)
               u      == m.slots[table]
               later  == {i \in Outgoing(u) : i > first /\ u[i].call \in calls}
               n      == Report(m, table, {i \in later : u[i].st \in told})
           IN  Put(n, table, Release(u, later \cup {first}))

\* The loops themselves, one slot after the other.
RemoveStep(l, table, calls, told, i) ==
  LET s == l.slots[table][i]
      m == IF s.st \in told THEN LinkFailed(l, s.call) ELSE l
  IN  IF i \in Outgoing(l.slots[table]) /\ s.call \in calls
      THEN Put(m, table, Release(m.slots[table], {i})) ELSE l

RemoveLoop(l, table, calls, told) ==
  LET after[i \in 0 .. MaxLinks] ==
        IF i = 0 THEN l ELSE RemoveStep(after[i - 1], table, calls, told, i)
  IN  after[MaxLinks]

\* CDExtraHandler::unlink(handler, callsign, exclude).
DExtraUnlink(l, calls) == Remove(l, "DEXTRA", calls, Active)
DPlusUnlink(l, calls)  == Put(l, "DPLUS", TableUnlink(l.slots["DPLUS"], calls))
DCSUnlink(l, calls)    == Put(l, "DCS", TableUnlink(l.slots["DCS"], calls))

\* Mutants: one of the three calls forgotten.
UnlinkAllButDExtra(l) == DCSUnlink(DPlusUnlink(l, Calls), Calls)
UnlinkAllButDPlus(l)  == DCSUnlink(DExtraUnlink(l, Calls), Calls)

\* The three calls unlink(this) that precede every other link.
UnlinkAll(l) == DCSUnlink(DPlusUnlink(DExtraUnlink(l, Calls), Calls), Calls)

\* The change of module letter, common to the three places that link.
ChangeModule(l, c) ==
  LET m == [l EXCEPT !.relink = TRUE, !.repeater = c]
      n == IF l.via = "DEXTRA" THEN DExtraUnlink(m, Calls \ {c})
                               ELSE DCSUnlink(m, Calls \ {c})
  IN  CASE l.via \in {"DEXTRA", "DCS", "LOOPBACK"} ->
             Announce([n EXCEPT !.status = "LINKING", !.via = l.via])
        [] l.via = "DPLUS" ->
             Announce([l EXCEPT !.repeater = c, !.slots["DPLUS"] = TableRelink(@, c)])
        [] OTHER -> l

--------------------------------------------------------------------------------
\* CCS: links are suspended while a call is up and restored after it.

\* Mutant: D-Plus links forgotten.
SuspendLinksButDPlus(l) ==
  LET m == IF l.status \in Active /\ l.via \in Vias
           THEN [l EXCEPT !.last = l.repeater] ELSE l
  IN  [NotLinked(DCSUnlink(DExtraUnlink(m, Calls), Calls)) EXCEPT !.reconnect = "OFF"]

SuspendLinks(l) ==
  LET m == IF l.status \in Active /\ l.via \in Vias
           THEN [l EXCEPT !.last = l.repeater] ELSE l
      n == DCSUnlink(DExtraUnlink(DPlusUnlink(m, Calls), Calls), Calls)
  IN  [NotLinked(n) EXCEPT !.reconnect = "OFF"]

RestoreLinks(l) ==
  LET m == IF l.mode = "TIMED" THEN StartReconnect(l) ELSE l
  IN  IF l.last = NoCall THEN m
      ELSE [LinkInt(m, IF l.mode = "FIXED" THEN l.startup ELSE l.last)
              EXCEPT !.last = NoCall]

CcsLinkMade(l, dir) ==
  Announce(IF dir = "OUTGOING"
           THEN [SuspendLinks(l) EXCEPT !.status = "LINKED", !.via = "CCS",
                                        !.repeater = CcsCall, !.query = "OFF"]
           ELSE l)

\* Mutant: the direction of the call forgotten.
CcsLinkEndedAnyway(l, dir) == Announce(RestoreLinks([NotLinked(l) EXCEPT !.query = "OFF"]))

\* ccsLinkEnded and ccsLinkFailed.
CcsLinkEnded(l, dir) ==
  Announce(IF dir = "OUTGOING"
           THEN RestoreLinks([NotLinked(l) EXCEPT !.query = "OFF"]) ELSE l)

CcsStopLink(l) ==
  IF l.ccs # "ACTIVE" THEN l
  ELSE CcsLinkEnded([l EXCEPT !.ccs = "CONNECTED"], l.ccsDir)

CcsStartLink(l) ==
  IF l.ccs # "CONNECTED" THEN l
  ELSE [(IF l.ccsKnown THEN CcsLinkMade(l, l.ccsDir)
                       ELSE [l EXCEPT !.ccsAsked = TRUE])
          EXCEPT !.ccs = "ACTIVE", !.ccsDir = "OUTGOING"]

================================================================================
