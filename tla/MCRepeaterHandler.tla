--------------------------- MODULE MCRepeaterHandler ---------------------------
(***************************************************************************)
(* Small instances of RepeaterHandler for TLC.  Families of callsigns: X,  *)
(* a DExtra reflector; R, a D-Plus one; D, a DCS one; Y, a repeater only   *)
(* ircDDB knows of.  Each configuration takes a slice of the inputs.       *)
(***************************************************************************)
EXTENDS RepeaterProperties

Do(kind, arg)  == [kind |-> kind, arg |-> arg]
On(fam, mod)   == [fam |-> fam, mod |-> mod]
OnCalls(kind)  == {Do(kind, c) : c \in Calls}
Plain(kinds)   == {Do(kind, NoCall) : kind \in kinds}

Hosts == [f \in Families |-> [X |-> "DEXTRA", R |-> "DPLUS", D |-> "DCS", Y |-> "UNKNOWN"][f]]

\* Every kind of header but weather and version, which go as message and echo.
StreamCommands ==
  Plain(Kinds \ (CcsKinds \cup {"WX", "VERSION", "ROUTE_RPT", "ROUTE_USER", "LINK"}))
    \cup OnCalls("ROUTE_RPT") \cup OnCalls("LINK")
    \cup {Do("ROUTE_RPT", Self)} \cup {Do("ROUTE_USER", u) : u \in Users}
StreamDtmf == Plain({"INFO", "UNLINK"})

LinkCommands  == OnCalls("LINK") \cup Plain({"UNLINK", "LINK_STARTUP"})
SomeLinks     == {Do("LINK", On("X", "A")), Do("LINK", On("X", "B")),
                  Do("LINK", On("Y", "A"))} \cup Plain({"UNLINK"})
CcsCommands   == LinkCommands \cup Plain({"CCS_CALL", "CCS_STOP"})

AnyTarget     == Calls \cup {NoCall}
SomeTargets   == {On("X", "A"), On("X", "B"), NoCall}
StartAtB      == {NoCall, On("X", "B")}
NoStartup     == {NoCall}

================================================================================
