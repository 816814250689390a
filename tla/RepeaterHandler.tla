---------------------------- MODULE RepeaterHandler ----------------------------
(***************************************************************************)
(* CRepeaterHandler for one DV repeater: the radio and busy streams of its *)
(* own users, callsign routing (G2), the reflector and CCS commands, the   *)
(* three timers, and everything that calls it from outside: the reflector  *)
(* handlers, the CCS client, ircDDB and the remote control.                *)
(*                                                                         *)
(* One thread runs them all (CIRCDDBGatewayThread::run), so each message   *)
(* or timer tick is one action.  What interleaves is the order of the      *)
(* messages: a command, an acknowledgement, a refusal, a time-out and an   *)
(* ircDDB answer may meet the repeater in any state.  Each action computes *)
(* the new link state with the operators of RepeaterLinks and commits it.  *)
(***************************************************************************)
EXTENDS RepeaterLinks

CONSTANTS Ids,           \* stream identifiers (never 0)
          Users,         \* callsigns of far users
          Self,          \* the callsign of this repeater
          Commands,      \* what a radio or busy header asks for
          DtmfCommands,  \* what a DTMF sequence asks for
          Restrictions,  \* may the user be on the restrict list?
          RemoteModes,   \* reconnect modes the remote control sets
          RemoteTargets, \* reflectors it sets, NoCall to unlink
          Startups,      \* reflectors the configuration may name, or NoCall
          Modes,         \* reconnect modes the configuration may name
          Others,        \* tables where links of other repeaters come and go
          CcsOn,         \* is the CCS client enabled?
          InitialCache   \* what the hosts files say of each family

Kinds == {"SILLY", "CROSSBAND", "INVALID", "STARNET", "CQ", "ECHO", "INFO", "MSG",
          "WX", "VERSION", "CCS_STOP", "CCS_CALL", "ROUTE_RPT", "ROUTE_USER",
          "LINK", "LINK_STARTUP", "UNLINK"}
Command == [kind : Kinds, arg : Calls \cup Users \cup {Self, NoCall}]

ASSUME RepeaterHandlerAssumption ==
  /\ 0 \notin Ids
  /\ Self \notin Calls /\ Self # NoCall /\ Self # CcsCall
  /\ Commands \subseteq Command /\ DtmfCommands \subseteq Command
  /\ \A c \in Commands \cup DtmfCommands :
       /\ c.kind = "LINK" => c.arg \in Calls \cup {Self}
       /\ c.kind = "ROUTE_RPT" => c.arg \in Calls \cup {Self}
       /\ c.kind = "ROUTE_USER" => c.arg \in Users
  /\ Restrictions \subseteq BOOLEAN /\ CcsOn \in BOOLEAN
  /\ RemoteModes \subseteq {"NEVER", "FIXED", "TIMED"}
  /\ Modes \subseteq {"NEVER", "FIXED", "TIMED"}
  /\ RemoteTargets \subseteq Calls \cup {NoCall}
  /\ Startups \subseteq Calls \cup {NoCall}
  /\ Others \subseteq Tables
  /\ InitialCache \in [Families -> Vias \cup {"UNKNOWN"}]

VARIABLES rf,    \* the streams of the repeater and their routing
          link,  \* LinkState
          users  \* CCacheManager: where a user was last heard

vars == <<rf, link, users, cache>>

RfState ==
  [id         : Ids \cup {0},     \* m_repeaterId, 0 when no radio stream
   busy       : Ids \cup {0},     \* m_busyId
   g2         : {"NONE", "USER", "REPEATER", "OK", "LOCAL", "XBAND", "STARNET",
                 "ECHO", "VERSION"},                            \* m_g2Status
   g2Call     : Calls \cup Users \cup {NoCall}, \* m_g2User or m_g2Repeater, while asked
   header     : BOOLEAN,          \* m_g2Header # NULL
   xband      : BOOLEAN,          \* m_xBandRptr # NULL
   starNet    : BOOLEAN,          \* m_starNet # NULL
   cq         : BOOLEAN,          \* m_yourCall starts with CQCQ
   restricted : BOOLEAN,          \* m_restricted
   needed     : SUBSET {"INFO", "MSG", "WX"},  \* m_infoNeeded, m_msgNeeded, m_wxNeeded
   watchdog   : Timer]            \* m_watchdogTimer

\* The records of the repeater hold values their members of the class can have.
TypeOK ==
  /\ rf \in RfState
  /\ link \in LinkState
  /\ users \in [Users -> {"UNKNOWN", "SELF", "FAR"}]
  /\ cache \in [Families -> Vias \cup {"UNKNOWN"}]

Streaming(r) == r.id # 0 \/ r.busy # 0

--------------------------------------------------------------------------------
\* Ending a step.

\* Mutant: announced at the end of a stream, even when there is none.
AnnouncedLater(r, l) == IF ~l.announce THEN r ELSE [r EXCEPT !.needed = @ \cup {"INFO"}]

\* triggerInfo(): say the link state now, or at the end of the stream.
Announced(r, l) ==
  IF ~l.announce THEN r
  ELSE [r EXCEPT !.needed = IF Streaming(r) THEN @ \cup {"INFO"} ELSE @ \ {"INFO"}]

Settle(r, l) ==
  /\ rf' = Announced(r, l)
  /\ link' = [l EXCEPT !.announce = FALSE]

LinkStep(l) == Settle(rf, l) /\ UNCHANGED <<users, cache>>

--------------------------------------------------------------------------------
\* The state the gateway starts in: the constructor and startupInt().

Fresh(mode, startup) ==
  [status |-> "NONE", via |-> "NONE", repeater |-> NoCall, relink |-> FALSE,
   query |-> "OFF", reconnect |-> IF mode = "TIMED" THEN "RUN" ELSE "OFF",
   timeout |-> mode = "TIMED", mode |-> mode, startup |-> startup, last |-> NoCall,
   announce |-> FALSE, ccs |-> IF CcsOn THEN "CONNECTING" ELSE "DISABLED",
   ccsDir |-> "OUTGOING", ccsKnown |-> FALSE, ccsAsked |-> FALSE,
   slots |-> [t \in Tables |-> [i \in Slots |-> FreeSlot]]]

\* startupInt() spells linkInt() out again, without its test for an unknown
\* reflector: that one is looked for in ircDDB like a repeater.
LinkAtStartup(l, c) ==
  CASE c = NoCall -> l
    [] c # NoCall /\ FindRepeater(c) = "UNKNOWN" /\ IrcDDB ->
         [l EXCEPT !.status = "PENDING_IRCDDB", !.repeater = c, !.query = "RUN"]
    [] c # NoCall /\ FindRepeater(c) = "UNKNOWN" /\ ~IrcDDB -> [l EXCEPT !.repeater = c]
    [] OTHER -> LinkInt(l, c)

Init ==
  /\ rf = [id |-> 0, busy |-> 0, g2 |-> "NONE", g2Call |-> NoCall, header |-> FALSE,
           xband |-> FALSE, starNet |-> FALSE, cq |-> FALSE, restricted |-> FALSE,
           needed |-> {}, watchdog |-> "OFF"]
  /\ cache = InitialCache
  /\ users = [u \in Users |-> "UNKNOWN"]
  /\ \E mode \in Modes, startup \in Startups, atStartup \in BOOLEAN :
       link = [LinkAtStartup(Fresh(mode, startup), IF atStartup THEN startup ELSE NoCall)
                 EXCEPT !.announce = FALSE]

--------------------------------------------------------------------------------
\* Commands of a user.

ByCcs(l) == l.status \in Active /\ l.via = "CCS"

LinkCommand(l, c) ==
  IF l.status # "NONE" /\ c = l.repeater THEN l     \* a duplicate
  ELSE IF c = Self THEN Announce(l)
  ELSE IF l.status # "NONE" /\ SameFamily(l.repeater, c) THEN ChangeModule(l, c)
  ELSE LinkInt(UnlinkAll(l), c)

\* Mutant: the fixed repeater forgotten.
IgnoresInCallOnly(l) == ByCcs(l)

\* Reflector commands are ignored in a CCS call and by a fixed repeater.
IgnoresCommands(l) == ByCcs(l) \/ l.mode = "FIXED"

\* reflectorCommandHandler(): whatever the command, a pending search ends.
ReflectorCommand(l, cmd) ==
  IF IgnoresCommands(l) THEN l
  ELSE LET m == [l EXCEPT !.query = "OFF"]
       IN  CASE cmd.kind = "UNLINK" /\ m.status # "NONE" ->
                  Announce(NotLinked(UnlinkAll(m)))
             [] cmd.kind = "LINK" -> LinkCommand(m, cmd.arg)
             [] cmd.kind = "LINK_STARTUP" /\ m.startup # NoCall ->
                  LinkCommand(m, m.startup)
             [] OTHER -> m

CcsKinds == {"CCS_STOP", "CCS_CALL"}

\* ccsCommandHandler().
CcsCommand(l, cmd) ==
  CASE cmd.kind = "CCS_STOP" -> CcsStopLink(l)
    [] cmd.kind = "CCS_CALL" /\ l.ccs = "CONNECTED" ->
         CcsStartLink([SuspendLinks(l) EXCEPT !.query = "RUN", !.status = "LINKING",
                                              !.via = "CCS", !.repeater = CcsCall])
    [] OTHER -> l

Obey(l, cmd) == IF cmd.kind \in CcsKinds THEN CcsCommand(l, cmd) ELSE ReflectorCommand(l, cmd)

\* Callsigns that are not worth a search.
RoutedLocally(c) == ~IrcDDB \/ c = Self \/ IsReflector(c)

\* Where g2CommandHandler() sends a header: nowhere ("NONE"), or the new m_g2Status.
G2Route(l, cmd) ==
  IF ByCcs(l) \/ cmd.kind \notin {"ROUTE_RPT", "ROUTE_USER"} THEN "NONE"
  ELSE IF RoutedLocally(cmd.arg) THEN "LOCAL"
  ELSE IF cmd.kind = "ROUTE_RPT"
       THEN IF FindRepeater(cmd.arg) = "UNKNOWN" THEN "REPEATER" ELSE "OK"
       ELSE [UNKNOWN |-> "USER", SELF |-> "LOCAL", FAR |-> "OK"][users[cmd.arg]]

--------------------------------------------------------------------------------
\* A header from the radio: processRepeater(CHeaderData&).

Asking(r) == r.g2 \in {"USER", "REPEATER"}

\* What every header does before it is looked at: the stream is the
\* repeater's, and no route is left of the one before.
NewStream(id, restricted, cq) ==
  [rf EXCEPT !.id = id, !.busy = 0, !.watchdog = "RUN", !.xband = FALSE,
             !.starNet = FALSE, !.header = FALSE, !.g2 = "NONE", !.g2Call = NoCall,
             !.restricted = restricted, !.cq = cq]

NewStreamLink ==
  StartReconnect(IF Asking(rf) THEN [link EXCEPT !.query = "OFF"] ELSE link)

\* RPT2 is the repeater itself, another repeater of the gateway, or neither.
RfOtherBand(id, cmd, restricted, cq) ==
  /\ id # rf.id
  /\ cmd.kind \in {"SILLY", "CROSSBAND", "INVALID"}
  /\ LET r == NewStream(id, restricted, cq)
     IN  Settle(CASE cmd.kind = "SILLY"     -> r
                  [] cmd.kind = "CROSSBAND" -> [r EXCEPT !.xband = TRUE, !.g2 = "XBAND"]
                  [] cmd.kind = "INVALID"   -> [r EXCEPT !.g2 = "LOCAL"],
                NewStreamLink)
  /\ UNCHANGED <<users, cache>>

\* The pointer is set for a restricted user too, who is then treated as
\* anybody whose call is not a command.
RfStarNet(id, restricted) ==
  /\ id # rf.id
  /\ Settle([NewStream(id, restricted, FALSE) EXCEPT
               !.starNet = TRUE, !.g2 = IF restricted THEN @ ELSE "STARNET"],
            NewStreamLink)
  /\ UNCHANGED <<users, cache>>

\* The calls that are for this repeater alone, open to restricted users.
LocalKinds == {"CQ", "ECHO", "INFO", "MSG", "WX", "VERSION"}
RfLocal(id, cmd, restricted) ==
  /\ id # rf.id
  /\ cmd.kind \in LocalKinds
  /\ LET r == NewStream(id, restricted, cmd.kind = "CQ")
     IN  Settle(CASE cmd.kind = "CQ" -> r
                  [] cmd.kind \in {"ECHO", "VERSION"} -> [r EXCEPT !.g2 = cmd.kind]
                  [] OTHER -> [r EXCEPT !.g2 = "LOCAL", !.needed = @ \cup {cmd.kind}],
                NewStreamLink)
  /\ UNCHANGED <<users, cache>>

UserKinds == CcsKinds \cup {"ROUTE_RPT", "ROUTE_USER", "LINK", "LINK_STARTUP", "UNLINK"}

RfRestricted(id, cmd) ==
  /\ id # rf.id
  /\ cmd.kind \in UserKinds
  /\ Settle(NewStream(id, TRUE, FALSE), NewStreamLink)
  /\ UNCHANGED <<users, cache>>

RfRoute(id, cmd) ==
  /\ id # rf.id
  /\ G2Route(link, cmd) # "NONE"
  /\ LET to == G2Route(link, cmd)
         asked == to \in {"USER", "REPEATER"}
     IN  Settle([NewStream(id, FALSE, FALSE) EXCEPT
                   !.g2 = to, !.header = asked, !.g2Call = IF asked THEN cmd.arg ELSE NoCall],
                IF asked THEN [NewStreamLink EXCEPT !.query = "RUN"] ELSE NewStreamLink)
  /\ UNCHANGED <<users, cache>>

RfCommand(id, cmd) ==
  /\ id # rf.id
  /\ cmd.kind \in UserKinds
  /\ G2Route(link, cmd) = "NONE"
  /\ Settle(NewStream(id, FALSE, FALSE), Obey(NewStreamLink, cmd))
  /\ UNCHANGED <<users, cache>>

\* A header with the busy flag only leaves its fields behind.
RfBusyFlag(cq) ==
  /\ rf' = [rf EXCEPT !.cq = cq]
  /\ UNCHANGED <<link, users, cache>>

RfHeader ==
  \E id \in Ids, cmd \in Commands, restricted \in Restrictions :
    \/ \E cq \in BOOLEAN : RfOtherBand(id, cmd, restricted, cq)
    \/ cmd.kind = "STARNET" /\ RfStarNet(id, restricted)
    \/ RfLocal(id, cmd, restricted)
    \/ restricted /\ RfRestricted(id, cmd)
    \/ ~restricted /\ (RfRoute(id, cmd) \/ RfCommand(id, cmd))

--------------------------------------------------------------------------------
\* Voice frames from the radio: processRepeater(CAMBEData&).

NoCommand == [kind |-> "CQ", arg |-> NoCall]     \* no DTMF in the frame

\* Mutant: the route outlives the header it was kept for.
EndRadioKeepsRoute(r) ==
  [r EXCEPT !.id = 0, !.needed = {}, !.watchdog = "OFF", !.header = @ /\ ~Asking(r)]

EndRadio(r) ==
  [r EXCEPT !.id = 0, !.g2 = "NONE", !.g2Call = NoCall, !.needed = {}, !.watchdog = "OFF",
            !.header = @ /\ ~Asking(r), !.xband = @ /\ r.g2 # "XBAND",
            !.starNet = @ /\ r.g2 # "STARNET"]

RfAMBE(cmd, end) ==
  /\ rf.id # 0
  /\ cmd # NoCommand => rf.g2 # "XBAND" /\ ~rf.restricted /\ rf.cq
  /\ LET r == [rf EXCEPT !.watchdog = "RUN",
                         !.needed = IF cmd.kind = "INFO" THEN @ \cup {"INFO"} ELSE @]
         l == IF cmd = NoCommand \/ cmd.kind = "INFO" THEN StartReconnect(link)
              ELSE Obey(StartReconnect(link), cmd)
     IN  IF end
         THEN /\ rf' = EndRadio(r)
              /\ link' = [l EXCEPT !.announce = FALSE,
                                   !.query = IF Asking(rf) THEN "OFF" ELSE @]
         ELSE Settle(r, l)
  /\ UNCHANGED <<users, cache>>

--------------------------------------------------------------------------------
\* What the repeater hears while it relays network traffic: processBusy().

BusyHeader(id, cmd, restricted) ==
  /\ id # rf.busy
  /\ cmd.kind \notin {"SILLY", "CROSSBAND", "INVALID"}
  /\ LET r == [rf EXCEPT !.cq = cmd.kind = "CQ", !.busy = id, !.id = 0,
                         !.watchdog = "RUN", !.restricted = restricted]
     IN  Settle(r, IF restricted \/ cmd.kind \in {"CQ", "ECHO", "INFO"} THEN link
                   ELSE Obey(link, cmd))
  /\ UNCHANGED <<users, cache>>

\* Mutant: the watchdog is not stopped.
EndBusyWatched(r) ==
  [r EXCEPT !.busy = 0, !.g2 = "NONE", !.g2Call = NoCall, !.needed = {}]

EndBusy(r) ==
  [r EXCEPT !.busy = 0, !.g2 = "NONE", !.g2Call = NoCall, !.needed = {}, !.watchdog = "OFF"]

BusyAMBE(cmd, end) ==
  /\ rf.busy # 0
  /\ cmd # NoCommand => cmd.kind # "INFO" /\ ~rf.restricted /\ rf.cq
  /\ LET l == IF cmd = NoCommand THEN link ELSE Obey(link, cmd)
         r == [rf EXCEPT !.watchdog = "RUN"]
     IN  IF end THEN rf' = EndBusy(r) /\ link' = [l EXCEPT !.announce = FALSE]
                ELSE Settle(r, l)
  /\ UNCHANGED <<users, cache>>

--------------------------------------------------------------------------------
\* The clock: clockInt().  A tick may find any set of running timers expired.

Timers == {"reconnect", "query", "watchdog"}

\* Mutant: without a default reflector the status is cleared, the links stay.
ReconnectDueKeepsLinks(l) ==
  IF l.startup = NoCall THEN Announce(NotLinked(l))
  ELSE IF l.status = "NONE" \/ l.repeater # l.startup
       THEN LinkInt(UnlinkAll(l), l.startup) ELSE l

\* The reconnect time-out, other than a mere change of module.
ReconnectDue(l) ==
  CASE l.status # "NONE" /\ l.startup = NoCall -> Announce(NotLinked(UnlinkAll(l)))
    [] l.startup # NoCall /\ (l.status = "NONE" \/ l.repeater # l.startup) ->
         LinkInt(UnlinkAll(l), l.startup)
    [] OTHER -> l

\* "Just a change of port?" returns at once: the timer stays expired and the
\* two others are not looked at in this tick.
PortChangeDue(l) ==
  /\ l.reconnect = "DUE" /\ l.status # "NONE" /\ l.startup # NoCall
  /\ l.repeater # l.startup /\ SameFamily(l.repeater, l.startup)

\* The query timer is shared by the G2 search, the search for a repeater to
\* link to and the CCS call, in this order of preference.
QueryDue(r, l) ==
  LET m == [l EXCEPT !.query = "OFF"]
  IN  CASE Asking(r)                   -> m
        [] ~Asking(r) /\ m.status = "PENDING_IRCDDB" -> Announce(NotLinked(m))
        [] ~Asking(r) /\ IsUp(m, "CCS") /\ m.status = "LINKING" ->
             RestoreLinks(NotLinked(CcsStopLink(m)))
        [] OTHER                       -> m

QueryDueRf(r) ==
  IF Asking(r) THEN [r EXCEPT !.g2 = "LOCAL", !.g2Call = NoCall, !.header = FALSE] ELSE r

\* Mutant: the watchdog looks at the radio stream only.
WatchdogDueRadio(r) ==
  [(IF r.id # 0 THEN EndRadio(r) ELSE r) EXCEPT !.watchdog = "OFF"]

WatchdogDueRf(r) ==
  LET s == IF r.id # 0 THEN EndRadio(r) ELSE r
      t == IF s.busy # 0 THEN EndBusy(s) ELSE s
  IN  [t EXCEPT !.watchdog = "OFF"]

Tick(due) ==
  /\ "watchdog" \in due => rf.watchdog = "RUN"
  /\ "query" \in due => link.query = "RUN"
  /\ "reconnect" \in due => link.reconnect = "LATE"
  /\ LET w  == IF "watchdog" \in due THEN "DUE" ELSE rf.watchdog
         r0 == [rf EXCEPT !.watchdog = w]
         l0 == [link EXCEPT !.reconnect = IF "reconnect" \in due THEN "DUE" ELSE @,
                            !.query = IF "query" \in due THEN "DUE" ELSE @]
         l1 == IF l0.reconnect = "DUE" THEN StartReconnect(ReconnectDue(l0)) ELSE l0
         r2 == IF l1.query = "DUE" THEN QueryDueRf(r0) ELSE r0
         l2 == IF l1.query = "DUE" THEN QueryDue(r0, l1) ELSE l1
         l3 == IF w = "DUE" /\ r2.id # 0 /\ Asking(r2) THEN [l2 EXCEPT !.query = "OFF"] ELSE l2
     IN  IF PortChangeDue(l0) THEN Settle(r0, ChangeModule(l0, l0.startup))
         ELSE /\ rf' = IF w = "DUE" THEN WatchdogDueRf(Announced(r2, l2))
                                    ELSE Announced(r2, l2)
              /\ link' = [l3 EXCEPT !.announce = FALSE]
  /\ UNCHANGED <<users, cache>>

MinutesPass ==
  /\ link.reconnect = "RUN" /\ link.query # "RUN"
  /\ link' = [link EXCEPT !.reconnect = "LATE"]
  /\ UNCHANGED <<rf, users, cache>>

--------------------------------------------------------------------------------
\* ircDDB answers: CIRCDDBGatewayThread::processIrcDDB().

Learn(f) == cache' = [cache EXCEPT ![f] = IF @ = "UNKNOWN" THEN "DEXTRA" ELSE @]

IrcRepeater(c, found) ==
  /\ LET mine == rf.g2 = "REPEATER" /\ rf.g2Call = c
         l == IF mine THEN [link EXCEPT !.query = "OFF"] ELSE link
         r == IF mine THEN [rf EXCEPT !.g2 = IF found THEN "OK" ELSE "LOCAL",
                                      !.g2Call = NoCall, !.header = FALSE] ELSE rf
     IN  Settle(r, ResolveLink(l, c, found))
  /\ IF found THEN Learn(c.fam) ELSE UNCHANGED cache
  /\ UNCHANGED users

\* The answer on a user reaches the cache only.
IrcUser(u, where) ==
  /\ users' = [users EXCEPT ![u] = where]
  /\ UNCHANGED <<rf, link, cache>>

\* gatewayUpdate(): links of every direction to a gateway that lost its address go.
Dropped(l, table, f) ==
  Remove(l, table, [fam : {f}, mod : Modules], Active \cup {"UNLINKING"})

IrcGateway(f, address) ==
  IF address THEN Learn(f) /\ UNCHANGED <<rf, link, users>>
  ELSE LinkStep(Dropped(Dropped(link, "DEXTRA", f), "DPLUS", f))

--------------------------------------------------------------------------------
\* Messages of the far ends, and the time-outs of the links.

SetSlots(l, table, S, st) ==
  Put(l, table, [i \in Slots |-> IF i \in S THEN [l.slots[table][i] EXCEPT !.st = st]
                                            ELSE l.slots[table][i]])

InState(table, st) == {i \in Slots : link.slots[table][i].st = st}

\* DExtra sockets are shared: every link to the gateway hears the answer.
DExtraAck(f) ==
  LET S == {i \in InState("DEXTRA", "LINKING") : link.slots["DEXTRA"][i].call.fam = f}
  IN  S # {} /\ LinkStep(SetSlots(LinkUp(link, "DEXTRA"), "DEXTRA", S, "LINKED"))

DExtraNak(f) ==
  LET t == link.slots["DEXTRA"]
      S == {i \in InState("DEXTRA", "LINKING") : t[i].call.fam = f}
      l == IF \E i \in S : t[i].call = link.repeater
           THEN LinkRefused(link, link.repeater) ELSE link
  IN  S # {} /\ LinkStep(Put(l, "DEXTRA", Release(t, S)))

DExtraDisconnect(c) ==
  /\ ActiveTo(link.slots["DEXTRA"], {c}) # {}
  /\ LinkStep(Remove(link, "DEXTRA", {c}, {"LINKED"}))

\* D-Plus and DCS links have a socket each: the answer is to one of them.
Mine(table, i) == i \in Outgoing(link.slots[table])

Free(l, table, i) == Put(l, table, Release(l.slots[table], {i}))

LinkAck(table, i) ==
  /\ i \in InState(table, "LINKING")
  /\ LinkStep(SetSlots(LinkUp(link, table), table, {i}, "LINKED"))

DPlusNak(i) ==
  LET s == link.slots["DPLUS"][i]
  IN  /\ Mine("DPLUS", i)
      /\ LinkStep(Free(IF s.st = "LINKING" THEN LinkRefused(link, s.call) ELSE link,
                       "DPLUS", i))

DPlusDisconnect(i) ==
  LET s == link.slots["DPLUS"][i]
  IN  /\ Mine("DPLUS", i)
      /\ LinkStep(Free(IF s.st = "UNLINKING" THEN LinkFailed(link, s.call) ELSE link,
                       "DPLUS", i))

DCSNak(i) ==
  LET s == link.slots["DCS"][i]
  IN  /\ Mine("DCS", i) /\ s.st # "LINKED"
      /\ LinkStep(Free(IF s.st = "LINKING" THEN LinkRefused(link, s.call)
                                           ELSE LinkFailed(link, s.call), "DCS", i))

DCSDisconnect(i) ==
  LET s == link.slots["DCS"][i]
  IN  /\ Mine("DCS", i)
      /\ LinkStep(Free(IF s.st = "LINKED" THEN LinkFailed(link, s.call) ELSE link, "DCS", i))

\* The poll inactivity timer of a link, LINKING ones included.
SlotTimeout(table, i) ==
  LET s == link.slots[table][i]
  IN  /\ Mine(table, i)
      /\ LinkStep(IF KeepTrying(link, table, s.call)
                  THEN SetSlots(LinkLost(link, table, s.call), table, {i}, "LINKING")
                  ELSE Free(link, table, i))

\* Links of other repeaters, and incoming ones, use the same tables.
OtherTakes(table) ==
  /\ FreeSlots(link.slots[table]) # {}
  /\ LinkStep(SetSlots(link, table, {FirstFree(link.slots[table])}, "OTHER"))

OtherLeaves(table, i) ==
  /\ i \in InState(table, "OTHER")
  /\ LinkStep(Free(link, table, i))

Network ==
  \/ \E f \in Families : DExtraAck(f) \/ DExtraNak(f)
  \/ \E c \in Calls : DExtraDisconnect(c)
  \/ \E i \in Slots : \/ DPlusNak(i) \/ DPlusDisconnect(i)
                      \/ DCSNak(i) \/ DCSDisconnect(i)
                      \/ \E table \in {"DPLUS", "DCS"} : LinkAck(table, i)
                      \/ \E table \in Tables : SlotTimeout(table, i)
  \/ \E table \in Others : OtherTakes(table) \/ \E i \in Slots : OtherLeaves(table, i)

--------------------------------------------------------------------------------
\* The CCS client: CCCSHandler, enabled only if it could be connected.

CcsAck ==
  link.ccs = "CONNECTING" /\ LinkStep([link EXCEPT !.ccs = "CONNECTED"])

CcsNak ==
  link.ccs = "CONNECTING" /\ LinkStep([link EXCEPT !.ccs = "DISABLED"])

CcsIncomingCall ==
  /\ link.ccs = "CONNECTED"
  /\ LinkStep(CcsLinkMade([link EXCEPT !.ccs = "ACTIVE", !.ccsDir = "INCOMING"], "INCOMING"))

\* CT_TERMINATE, and the time-out of an idle call.
CcsTerminate ==
  /\ link.ccs = "ACTIVE"
  /\ LinkStep(CcsLinkEnded([link EXCEPT !.ccs = "CONNECTED"], link.ccsDir))

\* CT_DTMFFOUND and CT_DTMFNOTFOUND do not look at the state.
CcsFound ==
  /\ link.ccsAsked /\ link.ccs # "DISABLED"
  /\ LinkStep(CcsLinkMade([link EXCEPT !.ccsKnown = TRUE, !.ccsAsked = FALSE], link.ccsDir))

CcsNotFound ==
  /\ link.ccsAsked /\ link.ccs # "DISABLED"
  /\ LinkStep(CcsLinkEnded([link EXCEPT !.ccs = "CONNECTED", !.ccsAsked = FALSE],
                           link.ccsDir))

CcsPollLost ==
  /\ link.ccs \in {"CONNECTED", "ACTIVE"}
  /\ LinkStep([(IF link.ccs = "ACTIVE" THEN CcsLinkEnded(link, link.ccsDir) ELSE link)
                 EXCEPT !.ccs = "CONNECTING"])

Ccs == \/ CcsAck \/ CcsNak \/ CcsIncomingCall \/ CcsTerminate
       \/ CcsFound \/ CcsNotFound \/ CcsPollLost

--------------------------------------------------------------------------------
\* The remote control: link() and unlink().

DropCcs(l) ==
  IF ByCcs(l) THEN [NotLinked(CcsStopLink(l)) EXCEPT !.query = "OFF"] ELSE l

RemoteLink(mode, c) ==
  LET l == [DropCcs(link) EXCEPT
              !.startup = c, !.mode = mode, !.timeout = @ \/ mode = "TIMED",
              !.reconnect = IF mode = "TIMED" THEN "RUN" ELSE "OFF"]
  IN  LinkStep(CASE (l.status # "NONE" /\ l.repeater = c)
                      \/ (l.status = "NONE" /\ c = NoCall) -> l
                 [] l.status # "NONE" /\ l.repeater # c /\ c = NoCall ->
                      Announce(NotLinked(UnlinkAll(l)))
                 [] l.status # "NONE" /\ l.repeater # c /\ c # NoCall
                      /\ SameFamily(l.repeater, c) -> ChangeModule(l, c)
                 [] OTHER -> LinkInt(UnlinkAll(l), c))

TableUnlinkBy(l, table, c) ==
  CASE table = "DEXTRA" -> DExtraUnlink(l, {c})
    [] table = "DPLUS"  -> DPlusUnlink(l, {c})
    [] table = "DCS"    -> DCSUnlink(l, {c})

RemoteUnlink(table, c) ==
  /\ ~(link.mode = "FIXED" /\ link.repeater = c)
  /\ ActiveTo(link.slots[table], {c}) # {}
  /\ LinkStep(TableUnlinkBy(link, table, c))

RemoteUnlinkCcs == link.ccs = "ACTIVE" /\ LinkStep(CcsStopLink(link))

Remote == \/ \E mode \in RemoteModes, c \in RemoteTargets : RemoteLink(mode, c)
          \/ \E table \in Tables, c \in RemoteTargets \ {NoCall} : RemoteUnlink(table, c)
          \/ RemoteModes # {} /\ RemoteUnlinkCcs

--------------------------------------------------------------------------------
\* The specification.

Radio == \/ RfHeader
         \/ \E cq \in BOOLEAN : RfBusyFlag(cq)
         \/ \E cmd \in DtmfCommands \cup {NoCommand}, end \in BOOLEAN :
              RfAMBE(cmd, end) \/ BusyAMBE(cmd, end)
         \/ \E id \in Ids, cmd \in Commands, restricted \in Restrictions :
              BusyHeader(id, cmd, restricted)

Clock == MinutesPass \/ \E due \in SUBSET Timers : Tick(due)

IrcDDBAnswer ==
  /\ IrcDDB
  /\ \/ \E c \in Calls, found \in BOOLEAN : IrcRepeater(c, found)
     \/ \E u \in Users, where \in {"SELF", "FAR"} : IrcUser(u, where)
     \/ \E f \in Families, address \in BOOLEAN : IrcGateway(f, address)

Next == Radio \/ Clock \/ IrcDDBAnswer \/ Network \/ Ccs \/ Remote

Spec == Init /\ [][Next]_vars

================================================================================
