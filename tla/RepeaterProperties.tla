-------------------------- MODULE RepeaterProperties --------------------------
(***************************************************************************)
(* What RepeaterHandler should guarantee.  The last section holds promises *)
(* of the source's comments and change log that the code does not keep.    *)
(***************************************************************************)
EXTENDS RepeaterHandler

\* The outgoing links of the repeater that carry, or are about to carry, audio.
Act(table) == {i \in Slots : link.slots[table][i].st \in Active}
SlotCall(table, i) == link.slots[table][i].call

\* A timer that runs is served: the thread calls clock() every few milliseconds.
Expire(timer) == \E due \in SUBSET Timers : timer \in due /\ Tick(due)

FairSpec == /\ Spec
            /\ \A timer \in Timers : WF_vars(Expire(timer))
            /\ WF_vars(Tick({}))

--------------------------------------------------------------------------------
\* Streams and callsign routing.

\* processRepeater, resolveRepeaterInt and clockInt use m_g2Header, m_xBandRptr
\* and m_starNet according to m_g2Status alone, although other handlers clear
\* each of the four at different times: the pointer is always there.
G2PointersValid ==
  /\ Asking(rf) => rf.header
  /\ rf.g2 = "XBAND" => rf.xband
  /\ rf.g2 = "STARNET" => rf.starNet

\* The repeater is never owned by a radio and a busy stream together, and a
\* stream that loses its end is always under the watchdog, whichever of the
\* four handlers last started, ended or took over the stream.
StreamWatched ==
  /\ rf.id = 0 \/ rf.busy = 0
  /\ Streaming(rf) <=> rf.watchdog # "OFF"

\* Nothing of a stream outlives it: no route for the next busy stream to end,
\* and no announcement that would wait for a stranger's transmission.
IdleIsClean == ~Streaming(rf) => rf.g2 = "NONE" /\ rf.needed = {}

\* If the radio falls silent, whatever it was doing, the stream is given up,
\* its announcements are made and its callsign search is over.
StreamsEnd ==
  \/ []<><<Radio>>_vars
  \/ []<>(~Streaming(rf) /\ rf.needed = {} /\ ~Asking(rf))

--------------------------------------------------------------------------------
\* Links.

\* Remove, a formula over the table, is that loop, in every state the
\* repeater gets into and with or without a relink from inside the loop.
RemoveIsTheLoop ==
  \A calls \in {Calls} \cup {Calls \ {c} : c \in Calls} \cup {{c} : c \in Calls},
     told \in {{"LINKED"}, Active, Active \cup {"UNLINKING"}}, r \in BOOLEAN :
       LET l == [link EXCEPT !.relink = r]
       IN  Remove(l, "DEXTRA", calls, told) = RemoveLoop(l, "DEXTRA", calls, told)

\* A link shown as made is one that is: the handler has a linked slot to the
\* very repeater the users are told of.
LinkedIsReal ==
  link.status = "LINKED" /\ link.via \in Vias =>
    \E i \in InState(TableOf(link.via), "LINKED") :
      SlotCall(TableOf(link.via), i) = link.repeater

\* A repeater shown as not linked sends its audio nowhere.
NoOrphan == link.status = "NONE" => \A table \in Tables : Act(table) = {}

\* A repeater has one outgoing link at most.
OneOutgoing ==
  \A t, u \in Tables : \A i \in Act(t), j \in Act(u) : t = u /\ i = j

\* DExtra tells the repeater of all that happens to a link: a DExtra link is
\* the only one, to the repeater's target, and in the state that is shown.
DExtraFollows ==
  \A i \in Act("DEXTRA") :
    /\ Act("DEXTRA") = {i}
    /\ link.via = "DEXTRA" /\ link.repeater = SlotCall("DEXTRA", i)
    /\ link.status = link.slots["DEXTRA"][i].st

\* While the repeater is after some link, no link to anything else carries
\* audio, in whatever table and whatever was unlinked or lost before.
ActiveToRepeater ==
  link.status # "NONE" =>
    \A table \in Tables : \A i \in Act(table) :
      /\ SlotCall(table, i) = link.repeater
      /\ link.via \in Vias /\ TableOf(link.via) = table

\* The far ends never start a link: when a repeater is not linked, no answer,
\* refusal, disconnect or time-out, however late, gets it linked again.
NetworkNeverLinks ==
  [][Network /\ link.status = "NONE" => link'.status = "NONE"]_vars

\* "Suspend outgoing links when a CCS link starts" (CHANGES.txt 1233): nothing
\* that happens during a call a repeater shows brings a reflector link back.
CcsAlone ==
  ByCcs(link) /\ link.status = "LINKED" => \A table \in Tables : Act(table) = {}

\* "Incoming CCS no longer unlinks existing reflector links" (CHANGES.txt 1260),
\* not even through late answers to an outgoing call made before it.
IncomingKeepsLinks ==
  [][Ccs /\ link.ccs = "ACTIVE" /\ link.ccsDir = "INCOMING" =>
       /\ link'.slots = link.slots
       /\ link'.status = link.status /\ link'.repeater = link.repeater]_vars

\* A fixed repeater is at its reflector, being brought there, or in a call:
\* commands, calls that suspend its link and the remote control included.
FixedHome ==
  link.mode = "FIXED" /\ link.status # "NONE" /\ ~ByCcs(link) =>
    link.repeater = link.startup

--------------------------------------------------------------------------------
\* Promises the code does not keep.

\* RepeaterHandler.cpp:2094, "Ensure duplicate link requests aren't acted on":
\* a search for a repeater to link to ends after five seconds.
PendingTimed == link.status = "PENDING_IRCDDB" => link.query # "OFF"

\* RepeaterHandler.cpp:1491, "If the watchdog timer has expired, clean up".
WatchdogCleansUp == rf.watchdog = "DUE" ~> rf.watchdog # "DUE"

\* RepeaterHandler.cpp:1207, "User found, update the settings and send the
\* header to the correct place": nobody asks for a user who has been found.
FoundUserRouted == rf.g2 = "USER" => users[rf.g2Call] = "UNKNOWN"

\* CHANGES.txt 1233: no reflector link while the CCS client has a call out.
CallHasNoLinks ==
  link.ccs = "ACTIVE" /\ link.ccsDir = "OUTGOING" =>
    \A table \in Tables : Act(table) = {}

================================================================================
