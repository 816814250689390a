------------------------------- MODULE LinkStreams ------------------------------
(***************************************************************************)
(* Voice over one link of CDExtraHandler, CDPlusHandler, CDCSHandler or    *)
(* CCCSHandler, as it comes in: the far end, which is not part of the      *)
(* program, sends headers and frames of several streams, and any of them   *)
(* may be lost or overtaken.  A link is made by this gateway (OUT), by     *)
(* another one (IN) or by a user's dongle (DONGLE), whose headers say which*)
(* of the repeaters they are for.                                          *)
(***************************************************************************)
EXTENDS Naturals

CONSTANTS Ids,         \* identifiers of streams, never 0
          Homes,       \* our repeaters
          Elsewhere    \* a callsign that is not one of them

ASSUME LinkStreamsAssumption == Ids \subseteq Nat \ {0} /\ Elsewhere \notin Homes

Kinds == {<<"DEXTRA", "OUT">>, <<"DEXTRA", "IN">>, <<"DEXTRA", "DONGLE">>,
          <<"DPLUS", "OUT">>, <<"DPLUS", "DONGLE">>,
          <<"DCS", "OUT">>, <<"DCS", "IN">>, <<"CCS", "IN">>}

VARIABLES kind,
          linkState,   \* m_linkState, "NO" for a link that is not there
          streamId,    \* m_dExtraId, m_dPlusId, m_dcsId: 0 for none
          kept,        \* m_header: the stream it is of, 0 for NULL
          watch,       \* is m_inactivityTimer running?
          destination, \* m_destination, Elsewhere for NULL
          given,       \* what the repeaters were given last
          opened,      \* home -> the stream whose header it was given last
          silent       \* the far end says nothing any more

streamVars == <<kind, linkState, streamId, kept, watch, destination, given, opened, silent>>

protocol == kind[1]
way == kind[2]
Silence == [what |-> "NOTHING", to |-> Elsewhere, id |-> 0]

StreamInit ==
  /\ kind \in Kinds /\ linkState = "NO" /\ streamId = 0 /\ kept = 0 /\ watch = FALSE
  /\ destination \in (IF way = "DONGLE" THEN {Elsewhere} ELSE Homes)
  /\ given = Silence /\ opened = [h \in Homes |-> 0] /\ silent = FALSE

Give(what, id, to) == given' = [what |-> what, to |-> to, id |-> id]

Reset == streamId' = 0 /\ kept' = 0 /\ watch' = FALSE

\* The first header: from now on the link is in use.
OpenStream(id, to) ==
  /\ streamId' = id /\ kept' = id /\ watch' = TRUE
  /\ Give("HEADER", id, to) /\ opened' = [opened EXCEPT ![to] = id]

NotOpened == UNCHANGED <<streamId, kept, watch, given, opened>>

Rejected == \* by the white or the black list: whatever stream is under way
  /\ streamId' = 0 /\ UNCHANGED <<kept, watch, destination, given, opened>>

Known(rpt) == IF rpt \in Homes THEN rpt ELSE Elsewhere

\* CDExtraHandler::processInt and CDPlusHandler::processInt of a header.  For a
\* dongle the destination is looked up before it is seen that the link is in use.
TakeLinkHeader(id, rpt) ==
  /\ destination' = IF way = "DONGLE" THEN Known(rpt) ELSE destination
  /\ IF streamId = 0 /\ rpt \in Homes /\ (way = "DONGLE" \/ destination = rpt)
     THEN OpenStream(id, rpt) ELSE NotOpened

DExtraHeader(id, rpt, barred) ==
  IF barred THEN Rejected
  ELSE IF linkState = "LINKED" THEN TakeLinkHeader(id, rpt) ELSE NotOpened /\ UNCHANGED destination

DPlusHeader(id, rpt, barred) ==
  IF barred THEN Rejected
  ELSE IF linkState = "LINKED" THEN TakeLinkHeader(id, rpt) ELSE NotOpened /\ UNCHANGED destination

HeaderIn(id, rpt, barred) ==
  /\ linkState # "NO" /\ ~silent
  /\ \/ protocol = "DEXTRA" /\ DExtraHeader(id, rpt, barred)
     \/ protocol = "DPLUS" /\ DPlusHeader(id, rpt, barred)
  /\ UNCHANGED <<kind, linkState, silent>>

\* A frame of the stream under way; an end leaves the link free.  With the first of 21 frames the header is given again.
PassFrame(id, first, end) ==
  /\ Give("FRAME", id, destination) /\ UNCHANGED destination
  /\ opened' = [h \in Homes |-> IF first /\ kept # 0 /\ h = destination THEN kept ELSE opened[h]]
  /\ IF end THEN Reset ELSE watch' = TRUE /\ UNCHANGED <<streamId, kept>>

Dropped == NotOpened /\ UNCHANGED destination

\* Mutant: frames of any stream are passed.
DExtraFrameOfAny(id, first, end) == IF linkState = "LINKED" THEN PassFrame(id, first, end) ELSE Dropped

DExtraFrame(id, first, end) ==
  IF linkState = "LINKED" /\ streamId = id THEN PassFrame(id, first, end) ELSE Dropped

\* D-Plus passes them while the link is being taken down as well.
DPlusFrame(id, first, end) == IF streamId = id THEN PassFrame(id, first, end) ELSE Dropped

FrameIn(id, first, end) ==
  /\ linkState # "NO" /\ ~silent
  /\ \/ protocol = "DEXTRA" /\ DExtraFrame(id, first, end)
     \/ protocol = "DPLUS" /\ DPlusFrame(id, first, end)
  /\ UNCHANGED <<kind, linkState, silent>>

\* CDCSHandler::processInt: the header is in every frame; a stream is begun at
\* a frame with the sequence number 0.
DCSFrame(id, rpt, barred, first, end) ==
  IF barred THEN Rejected
  ELSE IF linkState # "LINKED" \/ rpt # destination \/ (streamId = 0 /\ ~first)
          \/ (streamId # 0 /\ streamId # id)
  THEN Dropped
  ELSE /\ opened' = IF streamId = 0 THEN [opened EXCEPT ![destination] = id] ELSE opened
       /\ Give("FRAME", id, destination) /\ kept' = 0 /\ UNCHANGED destination
       /\ streamId' = (IF end THEN 0 ELSE id) /\ watch' = ~end

\* CCCSHandler::process: m_id is the last stream's for ever, and the call's
\* own time-out is another matter.
CCSFrame(id) ==
  /\ IF linkState # "LINKED" THEN Dropped
     ELSE /\ opened' = IF streamId # id THEN [opened EXCEPT ![destination] = id] ELSE opened
          /\ Give("FRAME", id, destination) /\ streamId' = id
          /\ UNCHANGED <<kept, watch, destination>>

CombinedFrameIn(id, rpt, barred, first, end) ==
  /\ linkState # "NO" /\ ~silent
  /\ \/ protocol = "DCS" /\ DCSFrame(id, rpt, barred, first, end)
     \/ protocol = "CCS" /\ CCSFrame(id)
  /\ UNCHANGED <<kind, linkState, silent>>

\* Mutant: a stream that breaks off keeps the link.
StreamLostStays == watch /\ watch' = FALSE /\ UNCHANGED <<streamId, kept>>

\* clockInt: m_inactivityTimer.
StreamLost == watch /\ Reset

InactivityTimeout ==
  /\ StreamLost /\ UNCHANGED <<kind, linkState, destination, given, opened, silent>>

-----------------------------------------------------------------------------
(* The life of the link, as far as streams depend on it.                   *)

DExtraLinks == protocol = "DEXTRA" /\ linkState = "NO" /\ linkState' = (IF way = "OUT" THEN "LINKING" ELSE "LINKED")
DPlusLinks == protocol = "DPLUS" /\ linkState = "NO" /\ linkState' = "LINKING"
DCSLinks == protocol = "DCS" /\ linkState = "NO" /\ linkState' = (IF way = "OUT" THEN "LINKING" ELSE "LINKED")
CCSCall == protocol = "CCS" /\ linkState = "NO" /\ linkState' = "LINKED"
Acknowledged == linkState = "LINKING" /\ linkState' = "LINKED"
Unlinking == linkState = "LINKED" /\ protocol \in {"DPLUS", "DCS"} /\ linkState' = "UNLINKING"

LinkChanges ==
  /\ ~silent
  /\ DExtraLinks \/ DPlusLinks \/ DCSLinks \/ CCSCall \/ Acknowledged \/ Unlinking
  /\ UNCHANGED <<kind, streamId, kept, watch, destination, given, opened, silent>>

\* A link is removed with its stream; a dongle's next link is another object.
LinkGone ==
  /\ linkState # "NO" /\ linkState' = "NO" /\ Reset
  /\ destination' = (IF way = "DONGLE" THEN Elsewhere ELSE destination)
  /\ UNCHANGED <<kind, given, opened, silent>>

\* m_pollInactivityTimer of a link the repeater wants back: the object is kept.
LinkRetried ==
  /\ way = "OUT" /\ linkState # "NO" /\ linkState' = "LINKING"
  /\ streamId' = 0 /\ kept' = 0
  /\ UNCHANGED <<kind, watch, destination, given, opened, silent>>

FallsSilent ==
  /\ ~silent /\ silent' = TRUE
  /\ UNCHANGED <<kind, linkState, streamId, kept, watch, destination, given, opened>>

StreamNext ==
  \/ \E id \in Ids, rpt \in Homes \cup {Elsewhere}, barred \in BOOLEAN : HeaderIn(id, rpt, barred)
  \/ \E id \in Ids, first, end \in BOOLEAN : FrameIn(id, first, end)
  \/ \E id \in Ids, rpt \in Homes \cup {Elsewhere}, barred, first, end \in BOOLEAN :
       CombinedFrameIn(id, rpt, barred, first, end)
  \/ InactivityTimeout \/ LinkChanges \/ LinkGone \/ LinkRetried \/ FallsSilent

StreamFairness == WF_streamVars(InactivityTimeout)

StreamSpec == StreamInit /\ [][StreamNext]_streamVars /\ StreamFairness

\* A repeater is given frames of the stream whose header it was given last by
\* this link, however headers are lost, repeated, rejected or overtaken.  A
\* dongle's may go to another repeater than the header (see HeaderIgnored).
FramesFollowHeader ==
  given.what = "FRAME" /\ way # "DONGLE" => opened[given.to] = given.id

\* A stream that breaks off without an end does not keep the link for ever.
LinkFreed == silent /\ protocol # "CCS" /\ streamId # 0 ~> streamId = 0

\* "If we're already processing, ignore the new header": while a stream is
\* under way a header for another repeater, or of another stream, moves nothing.
HeaderIgnored == [][streamId # 0 /\ streamId' = streamId => destination' = destination]_streamVars
=============================================================================
