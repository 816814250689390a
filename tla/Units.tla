--------------------------------- MODULE Units ---------------------------------
(***************************************************************************)
(* What a repeater says of itself: CAudioUnit tells the link's status,     *)
(* two CAnnouncementUnits play files, CEchoUnit plays a transmission back  *)
(* and CVersionUnit gives the version.  processRepeater and processBusy    *)
(* start them when a transmission ends, clockInt moves them, and process() *)
(* passes what they send to the radio unless somebody talks.  Other        *)
(* streams, commands and links are in RepeaterHandler.                     *)
(***************************************************************************)
EXTENDS Integers

CONSTANT MaxFrames    \* bound: frames of a recording, an announcement or a file

ASSUME UnitsAssumption == MaxFrames \in Nat \ {0}

Announcers == {"INFO", "MSG", "WX"}
Files == {"MSG", "WX"}
Units == Announcers \cup {"ECHO", "VERSION"}

VARIABLES
  talking, relayed,  \* m_repeaterId and m_busyId: a transmission of either kind
  reply,     \* m_g2Status: "ECHO", "VERSION" or "NONE"
  wanted,    \* m_infoNeeded, m_msgNeeded and m_wxNeeded
  doing,     \* m_status: unit -> "IDLE", "RECEIVE", "WAIT" or "TRANSMIT"
  stored,    \* m_in: unit -> frames to send
  played,    \* m_out: unit -> frames sent
  onAir,     \* the units whose header the radio has and whose end it has not
  voice,     \* m_ambe is not NULL: the language's voice files were there at the start
  awaited,   \* the units that a user has asked and that have not answered
  dropped,   \* those of them that the code will not have answer
  undefined  \* a NULL frame has been used

unitVars ==
  <<talking, relayed, reply, wanted, doing, stored, played, onAir, voice, awaited, dropped, undefined>>

-----------------------------------------------------------------------------
(* The repeater.                                                           *)

\* Mutant: the version is not cancelled.
CancelledButVersion == Units \ {"VERSION"}
Cancelled == Units

\* processRepeater(header): a user talks and asks for something, or not.
Talk(what) ==
  /\ talking' = TRUE /\ relayed' = FALSE
  /\ reply' = IF what \in {"ECHO", "VERSION"} THEN what ELSE "NONE"
  /\ wanted' = wanted \cup ({what} \cap Announcers)
  /\ doing' = [u \in Units |-> IF u = "ECHO" /\ what = "ECHO" THEN "RECEIVE"
                               ELSE IF u \in Cancelled THEN "IDLE" ELSE doing[u]]
  /\ stored' = [u \in Units |-> IF u \in Cancelled THEN 0 ELSE stored[u]]
  /\ played' = [u \in Units |-> IF u \in Cancelled THEN 0 ELSE played[u]]
  /\ onAir' = {}
  /\ awaited' = wanted' \cup ({what} \cap Units) /\ dropped' = {}
  /\ UNCHANGED <<voice, undefined>>

\* CEchoUnit::writeData
Record ==
  /\ talking /\ reply = "ECHO" /\ stored["ECHO"] < MaxFrames
  /\ stored' = [stored EXCEPT !["ECHO"] = @ + 1]
  /\ UNCHANGED <<talking, relayed, reply, wanted, doing, played, onAir, voice, awaited, dropped, undefined>>

\* processBusy(header): a user talks while the repeater relays.  Nobody ends a recording
\* that is under way: it stays as it is until a user talks to the repeater again.
TalkOver ==
  /\ relayed' = TRUE /\ talking' = FALSE
  /\ dropped' = IF doing["ECHO"] = "RECEIVE" THEN dropped \cup {"ECHO"} ELSE dropped
  /\ UNCHANGED <<reply, wanted, doing, stored, played, onAir, voice, awaited, undefined>>

\* sendStatus, sendAnnouncement and sendVersion, for those that do nothing yet: without
\* the voice files there is no status.
Started(units) ==
  [u \in Units |->
     IF u \in units /\ doing[u] = "IDLE" /\ (u = "INFO" => voice) THEN "WAIT" ELSE doing[u]]

\* What a transmission leaves: some of the files may not be there.
Leave(echo) ==
  /\ talking' = FALSE /\ relayed' = FALSE /\ reply' = "NONE" /\ wanted' = {}
  /\ \E missing \in SUBSET (Files \cap wanted) :
       /\ doing' = [Started((wanted \cup ({reply} \cap {"VERSION"})) \ missing) EXCEPT
                      !["ECHO"] = IF echo /\ @ = "RECEIVE" THEN "WAIT" ELSE @]
       /\ dropped' = dropped \cup (awaited \cap (missing \cup (IF voice THEN {} ELSE wanted \cap {"INFO"})))
  /\ UNCHANGED <<played, onAir, voice, awaited, undefined>>

\* The end of a transmission, which is recorded too.
TransmissionEnds ==
  /\ talking \/ relayed
  /\ Leave(talking)
  /\ stored' = IF talking /\ reply = "ECHO" /\ stored["ECHO"] < MaxFrames
               THEN [stored EXCEPT !["ECHO"] = @ + 1] ELSE stored

\* Mutant: a recording without an end is not ended by the watchdog.
WatchdogEchoStays == (talking \/ relayed) /\ Leave(FALSE) /\ UNCHANGED stored

\* The watchdog
Watchdog == (talking \/ relayed) /\ Leave(talking) /\ UNCHANGED stored

\* triggerInfo: a link has come, gone or been refused.
triggerInfo ==
  /\ IF talking \/ relayed
     THEN wanted' = wanted \cup {"INFO"} /\ UNCHANGED doing
     ELSE doing' = Started({"INFO"}) /\ wanted' = wanted \ {"INFO"}
  /\ UNCHANGED <<talking, relayed, reply, stored, played, onAir, voice, awaited, dropped, undefined>>

-----------------------------------------------------------------------------
(* The units' clocks.                                                      *)

\* Two seconds later: the header.  The version and the files bring their frames.
UnitBegins(u) ==
  /\ doing[u] = "WAIT"
  /\ doing' = [doing EXCEPT ![u] = "TRANSMIT"]
  /\ onAir' = IF talking THEN onAir ELSE onAir \cup {u}
  /\ \E n \in 1 .. MaxFrames : stored' = [stored EXCEPT ![u] = IF u = "ECHO" THEN @ ELSE n]
  /\ played' = [played EXCEPT ![u] = 0]
  /\ UNCHANGED <<talking, relayed, reply, wanted, voice, awaited, dropped, undefined>>

\* A recording of which no frame has come has no frame to send.
UnitSends(u) ==
  /\ doing[u] = "TRANSMIT"
  /\ undefined' = (stored[u] = 0)
  /\ IF played[u] + 1 # stored[u]
     THEN played' = [played EXCEPT ![u] = @ + 1] /\ UNCHANGED <<doing, stored, onAir, awaited>>
     ELSE /\ played' = [played EXCEPT ![u] = 0] /\ stored' = [stored EXCEPT ![u] = 0]
          /\ doing' = [doing EXCEPT ![u] = "IDLE"]
          /\ onAir' = onAir \ {u} /\ awaited' = awaited \ {u}
  /\ UNCHANGED <<talking, relayed, reply, wanted, voice, dropped>>

\* A file that is too short ends without an end.
BreakOff(u) ==
  /\ u \in Files /\ doing[u] = "TRANSMIT"
  /\ doing' = [doing EXCEPT ![u] = "IDLE"]
  /\ played' = [played EXCEPT ![u] = 0] /\ stored' = [stored EXCEPT ![u] = 0]
  /\ awaited' = awaited \ {u}
  /\ UNCHANGED <<talking, relayed, reply, wanted, onAir, voice, dropped, undefined>>

-----------------------------------------------------------------------------
UnitsInit ==
  /\ talking = FALSE /\ relayed = FALSE /\ reply = "NONE" /\ wanted = {}
  /\ doing = [u \in Units |-> "IDLE"] /\ stored = [u \in Units |-> 0] /\ played = [u \in Units |-> 0]
  /\ onAir = {} /\ voice \in BOOLEAN /\ awaited = {} /\ dropped = {} /\ undefined = FALSE

AnyTalk == \E what \in Units \cup {"ELSE"} : Talk(what)

UnitsNext ==
  /\ ~ undefined
  /\ \/ AnyTalk \/ Record \/ TalkOver \/ TransmissionEnds \/ Watchdog \/ triggerInfo
     \/ \E u \in Units : UnitBegins(u) \/ UnitSends(u) \/ BreakOff(u)

\* Users do not talk without a pause for ever, so each transmission ends or the watchdog
\* ends it; the clocks go on.
UnitsFairness ==
  /\ WF_unitVars(~ undefined /\ Watchdog)
  /\ \A u \in Units : WF_unitVars(~ undefined /\ (UnitBegins(u) \/ UnitSends(u)))

-----------------------------------------------------------------------------
\* Every frame that a unit gets through to the radio follows its header: who talks in
\* between stops them all, and nothing starts them before the end.
HeadersFirst == ~ talking => \A u \in Units : doing[u] = "TRANSMIT" => u \in onAir

\* Who asks for an answer, and does not talk to the repeater again, gets it, whether the
\* transmission ends or is lost and whatever links do meanwhile, but where the code drops
\* what was asked: the status when the language's voice files could not be read
\* (AudioUnit.cpp:152), a message or the weather whose file is not there when the
\* transmission ends (AnnouncementUnit.cpp:53), and an echo whose recording somebody
\* talked over (RepeaterHandler.cpp:957).  A recording without frames is not defined
\* (EchoUnit.cpp:119).
AskersHear ==
  \/ []<><<AnyTalk>>_unitVars
  \/ (awaited \ dropped # {}) ~> (awaited \subseteq dropped \/ undefined)
=============================================================================
