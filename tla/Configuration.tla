---------------------------- MODULE Configuration ----------------------------
(***************************************************************************)
(* The configuration files: CIRCDDBGatewayConfig, which the gateway and    *)
(* its editor (ircDDBGatewayConfig) both load and write, and the smaller   *)
(* CTimeServerConfig and CTimerControlConfig of programs that edit their   *)
(* own.  On Linux a configuration is a text file of key=value lines; on    *)
(* Windows the gateway writes the registry and the file, and reads only    *)
(* the registry.                                                           *)
(*                                                                         *)
(* Every key of the source is here, by its name, its number (0 for a key   *)
(* that has none) and the way it is written and read: a row.  A            *)
(* configuration is the function of the rows that are not at their default *)
(* to their values: "NEW" is a value that a line keeps as it is, "FINE" a  *)
(* number with more digits than are printed, "EMPTY" an empty text.        *)
(***************************************************************************)
EXTENDS Naturals, Functions

CONSTANTS
  Saves,     \* the saves of the editor, and the closings of a gateway, in a behaviour
  Numbers    \* the numbers of the rows that somebody changes, 0 among them

VARIABLES
  program,     \* whose configuration: "GATEWAY", "TIME" or "TIMER"
  platform,    \* "FILE" (Linux) or "REGISTRY" (Windows)
  row,         \* the row that somebody changed, or is about to
  disk,        \* the lines of the file, or the values of the registry
  editorOn, editor,   \* the program that edits, and its members
  touched,     \* the user changed the control of row
  panels,      \* what the controls hold
  gatewayOn, gateway, \* the gateway, and its members
  saves,       \* the saves so far
  reported, promised      \* a save was reported done, and what it held

confVars == <<program, platform, row, disk, editorOn, editor, touched, panels, gatewayOn, gateway, saves,
              reported, promised>>

Rows(table, ns) == UNION {{kind} \X table[kind] \X ns : kind \in DOMAIN table}

-----------------------------------------------------------------------------
(* The lines that the constructor for Linux reads.                         *)

GatewayRead ==
  [Integer  |-> {"gatewayType"}, Unsigned |-> {"icomPort", "hbPort"}, Decimal |-> {"latitude", "longitude"},
   Text     |-> {"gatewayCallsign", "gatewayAddress", "icomAddress", "hbAddress", "description1",
                 "description2", "url"}]
RepeaterRead ==
  [Integer  |-> {"repeaterType", "reconnect"}, Unsigned |-> {"repeaterPort"}, Flag |-> {"atStartup"},
   Decimal  |-> {"frequency", "offset", "rangeKms", "latitude", "longitude", "agl"},
   Byte     |-> {"band_1", "band_2", "band_3"},
   Text     |-> {"repeaterCall", "repeaterBand", "repeaterAddress", "reflector", "description_1",
                 "description_2", "url"}]
IrcDDBRead == [Flag |-> {"ircddbEnabled"}, Text |-> {"ircddbHostname", "ircddbUsername", "ircddbPassword"}]
NetworksRead ==
  [Flag     |-> {"aprsEnabled", "dextraEnabled", "dplusEnabled", "dcsEnabled", "ccsEnabled", "xlxEnabled"},
   Unsigned |-> {"dextraMaxDongles", "dplusMaxDongles"},
   Text     |-> {"dplusLogin", "ccsHost", "xlxHostsFileUrl"}]
StarNetRead ==
  [Text     |-> {"starNetBand", "starNetCallsign", "starNetLogoff", "starNetInfo", "starNetPermanent", "starNetReflector"},
   Unsigned |-> {"starNetUserTimeout", "starNetGroupTimeout"},
   Integer  |-> {"starNetCallsignSwitch"}, Flag |-> {"starNetTXMsgSwitch"}]
ServicesRead ==
  [Flag     |-> {"remoteEnabled", "infoEnabled", "echoEnabled", "logEnabled", "dratsEnabled", "dtmfEnabled",
                 "gpsdEnabled"},
   Text     |-> {"remotePassword", "gpsdAddress", "gpsdPort", "mqttAddress"},
   Unsigned |-> {"remotePort", "mqttPort", "mqttKeepalive"}, Integer |-> {"language", "windowX", "windowY"}]

GatewayFileRead ==
  UNION {Rows(GatewayRead, {0}), Rows(RepeaterRead, 1..4), Rows(IrcDDBRead, 1..4), Rows(NetworksRead, {0}),
         Rows(StarNetRead, 1..5), Rows(ServicesRead, {0})}

(* The lines that write() makes.                                           *)

GatewayWritten ==
  [Integer  |-> {"gatewayType"}, Unsigned |-> {"icomPort", "hbPort"}, Decimal |-> {"latitude", "longitude"},
   Text     |-> {"gatewayCallsign", "gatewayAddress", "icomAddress", "hbAddress", "description1",
                 "description2", "url"}]
RepeaterWritten ==
  [Integer  |-> {"repeaterType", "reconnect"}, Unsigned |-> {"repeaterPort"}, Flag |-> {"atStartup"},
   Decimal  |-> {"frequency", "offset", "rangeKms", "latitude", "longitude", "agl"},
   Byte     |-> {"band_1", "band_2", "band_3"},
   Text     |-> {"repeaterCall", "repeaterBand", "repeaterAddress", "reflector", "description_1",
                 "description_2", "url"}]
NetworksWritten ==
  [Flag     |-> {"aprsEnabled", "dextraEnabled", "dplusEnabled", "dcsEnabled", "ccsEnabled", "xlxEnabled"},
   Unsigned |-> {"dextraMaxDongles", "dplusMaxDongles"},
   Text     |-> {"dplusLogin", "ccsHost", "xlxHostsFileUrl"}]
IrcDDBWritten == [Flag |-> {"ircddbEnabled"}, Text |-> {"ircddbHostname", "ircddbUsername", "ircddbPassword"}]
\* Mutant: the reflector of a group is read, but nobody writes it.
StarNetWrittenShort ==
  [Text     |-> {"starNetBand", "starNetCallsign", "starNetLogoff", "starNetInfo", "starNetPermanent"},
   Unsigned |-> {"starNetUserTimeout", "starNetGroupTimeout"},
   Integer  |-> {"starNetCallsignSwitch"}, Flag |-> {"starNetTXMsgSwitch"}]
StarNetWritten ==
  [Text     |-> {"starNetBand", "starNetCallsign", "starNetLogoff", "starNetInfo", "starNetPermanent", "starNetReflector"},
   Unsigned |-> {"starNetUserTimeout", "starNetGroupTimeout"},
   Integer  |-> {"starNetCallsignSwitch"}, Flag |-> {"starNetTXMsgSwitch"}]
ServicesWritten ==
  [Flag     |-> {"remoteEnabled", "infoEnabled", "echoEnabled", "logEnabled", "dratsEnabled", "dtmfEnabled",
                 "gpsdEnabled"},
   Text     |-> {"remotePassword", "gpsdAddress", "gpsdPort", "mqttAddress"},
   Unsigned |-> {"remotePort", "mqttPort", "mqttKeepalive"}, Integer |-> {"language", "windowX", "windowY"}]

GatewayFileWritten ==
  UNION {Rows(GatewayWritten, {0}), Rows(RepeaterWritten, 1..4), Rows(IrcDDBWritten, 1..4),
         Rows(NetworksWritten, {0}), Rows(StarNetWritten, 1..5), Rows(ServicesWritten, {0})}

(* Windows reads the same rows from the registry.  Its lines for gpsdPort  *)
(* assign a number to a text and do not compile, so that row is left out   *)
(* of what is changed there.  It writes all but the repeaters' callsigns.  *)

RegistryGateway == Rows(GatewayRead, {0})
RegistryRepeaters == Rows(RepeaterRead, 1..4)
RegistryNetworks == Rows(IrcDDBRead, 1..4) \cup Rows(NetworksRead, {0})
RegistryStarNet == Rows(StarNetRead, 1..5)
RegistryServices == Rows(ServicesRead, {0})
RegistryRead == UNION {RegistryGateway, RegistryRepeaters, RegistryNetworks, RegistryStarNet, RegistryServices}

RegistryGatewayWritten == Rows(GatewayWritten, {0})
RegistryRepeatersWritten == Rows(RepeaterWritten, 1..4) \ Rows([Text |-> {"repeaterCall"}], 1..4)
RegistryNetworksWritten == Rows(IrcDDBWritten, 1..4) \cup Rows(NetworksWritten, {0})
RegistryStarNetWritten == Rows(StarNetWritten, 1..5)
RegistryServicesWritten == Rows(ServicesWritten, {0})
RegistryWritten ==
  UNION {RegistryGatewayWritten, RegistryRepeatersWritten, RegistryNetworksWritten, RegistryStarNetWritten,
         RegistryServicesWritten}

TimeRows ==
  Rows([Flag |-> {"sendA", "sendB", "sendC", "sendD", "sendE"}, Text |-> {"callsign", "address"},
        Integer |-> {"language", "format", "interval", "windowX", "windowY"}], {0})
TimerRows ==
  Rows([Text |-> {"address", "password"}, Unsigned |-> {"port"}, Integer |-> {"windowX", "windowY"}, Flag |-> {"delay"}], {0})
TimeWritten ==
  Rows([Flag |-> {"sendA", "sendB", "sendC", "sendD", "sendE"}, Text |-> {"callsign", "address"},
        Integer |-> {"language", "format", "interval", "windowX", "windowY"}], {0})
TimerWritten ==
  Rows([Text |-> {"address", "password"}, Unsigned |-> {"port"}, Integer |-> {"windowX", "windowY"}, Flag |-> {"delay"}], {0})

ReadRows ==
  [p \in {"GATEWAY", "TIME", "TIMER"} |->
     CASE p = "GATEWAY" -> GatewayFileRead [] p = "TIME" -> TimeRows [] p = "TIMER" -> TimerRows]
Written ==
  [p \in {"GATEWAY", "TIME", "TIMER"} |->
     CASE p = "GATEWAY" -> GatewayFileWritten [] p = "TIME" -> TimeWritten [] p = "TIMER" -> TimerWritten]

-----------------------------------------------------------------------------
(* A line keeps a text as it is, and a number with some of its digits.     *)

Value(conf, r) == IF r \in DOMAIN conf THEN conf[r] ELSE "DEFAULT"
\* The values of some rows set in a configuration.
Onto(rows, conf) == [r \in DOMAIN rows \cup DOMAIN conf |-> IF r \in DOMAIN rows THEN rows[r] ELSE conf[r]]
NotDefault(conf) == Restrict(conf, {r \in DOMAIN conf : conf[r] # "DEFAULT"})

Printed(v) == IF v = "FINE" THEN "NEW" ELSE v

XlxUrl == <<"Text", "xlxHostsFileUrl", 0>>
XlxEnabled == <<"Flag", "xlxEnabled", 0>>   \* on by default

\* An empty address of the XLX host file is not read; on Windows only when XLX is on.
Ignored(lines, r) ==
  /\ r = XlxUrl
  /\ lines[r] = "EMPTY"
  /\ platform = "FILE" \/ Value(lines, XlxEnabled) = "DEFAULT"

Load(lines) ==
  LET rows == IF program = "GATEWAY" /\ platform = "REGISTRY" THEN RegistryRead ELSE ReadRows[program]
  IN  Restrict(lines, {r \in DOMAIN lines \cap rows : ~ Ignored(lines, r)})

FileLines(conf) == [r \in DOMAIN conf \cap Written[program] |-> Printed(conf[r])]

\* The registry keeps the range and the height above ground as numbers, not as text.
Unrounded(r) == r[1] = "Decimal" /\ r[2] \in {"rangeKms", "agl"}
OnDisk(r, v) == IF platform = "REGISTRY" /\ Unrounded(r) THEN v ELSE Printed(v)

\* The registry keeps the values that are not written again.
RegistryLines(conf, old) ==
  LET rows == IF program = "GATEWAY" THEN RegistryWritten ELSE Written[program]
  IN  Onto([r \in DOMAIN conf \cap rows |-> OnDisk(r, conf[r])], Restrict(old, DOMAIN old \ rows))

Lines(conf, old) == IF platform = "FILE" THEN FileLines(conf) ELSE RegistryLines(conf, old)

-----------------------------------------------------------------------------
(* The controls of the editor, panel by panel: what one gives back for a   *)
(* member that it was given, when nobody touches it.                       *)

Callsign == <<"Text", "gatewayCallsign", 0>>

\* getGateway clears an address that is the machine's own.
GatewayPanel(r, v) == IF r[2] = "gatewayAddress" /\ v = "LOOPBACK" THEN "EMPTY" ELSE Printed(v)
GatewayValid(conf) ==
  /\ Value(conf, Callsign) \notin {"DEFAULT", "EMPTY"}
  /\ \A port \in {"icomPort", "hbPort"} : Value(conf, <<"Unsigned", port, 0>>) # "ZERO"

\* A band or a reflector that is not in its list is shown as none.
RepeaterPanel(r, v) == IF v = "UNLISTED" THEN "DEFAULT" ELSE v
\* A DD repeater is Icom's, and has no reflector.
DDMode(conf, n) == Value(conf, <<"Text", "repeaterBand", n>>) = "DD"
RepeaterGives(conf, r) ==
  CASE r[2] = "repeaterType" /\ DDMode(conf, r[3]) -> "NEW"
    [] r[2] \in {"reflector", "atStartup", "reconnect"} /\ DDMode(conf, r[3]) -> "DEFAULT"
    [] OTHER -> Value(conf, r)
RepeaterValid(conf) ==
  \A n \in 1..4 :
    Value(conf, <<"Text", "repeaterBand", n>>) # "DEFAULT" =>
      /\ Value(conf, <<"Text", "repeaterAddress", n>>) # "EMPTY"
      /\ Value(conf, <<"Unsigned", "repeaterPort", n>>) # "ZERO"

\* The range and the height above ground are shown without their fraction.
InfoPanel(r, v) == IF v = "HALF" /\ r[2] \in {"rangeKms", "agl"} THEN "NEW" ELSE Printed(v)

\* A host that is not in the list leaves the choice without a selection.
IrcDDBPanel(r, v) == IF v = "UNLISTED" THEN "EMPTY" ELSE v
IrcDDBOn(conf, n) == (Value(conf, <<"Flag", "ircddbEnabled", n>>) = "DEFAULT") = (n \in {1, 2})
IrcDDBValid(conf) ==
  \A n \in 1..4 :
    IrcDDBOn(conf, n) =>
      /\ Value(conf, <<"Text", "ircddbHostname", n>>) \notin {"EMPTY"} \cup (IF n \in {3, 4} THEN {"DEFAULT"} ELSE {})
      /\ Value(conf, <<"Text", "ircddbUsername", n>>) \notin {"EMPTY", "DEFAULT"}

\* The time-outs have a fixed list that ends in the default.
StarNetPanel(r, v) ==
  CASE r[2] = "starNetBand" /\ v \in {"DEFAULT", "UNLISTED", "EMPTY"} -> "FIRST"
    [] r[1] = "Unsigned" /\ v = "UNLISTED" -> "DEFAULT"
    [] OTHER -> v
StarNetGives(r, v) ==
  IF r[2] \in {"starNetCallsign", "starNetLogoff", "starNetPermanent"} /\ v \in {"DEFAULT", "EMPTY"} THEN "BLANK" ELSE v

DPlusGives(r, v) == IF r[2] = "dplusLogin" /\ v \in {"DEFAULT", "EMPTY"} THEN "BLANK" ELSE v
DPlusValid(conf) ==
  Value(conf, <<"Flag", "dplusEnabled", 0>>) # "DEFAULT" =>
    Value(conf, <<"Text", "dplusLogin", 0>>) \notin {"DEFAULT", "EMPTY", "BLANK"}

DCSPanel(r, v) == IF r[2] = "ccsHost" /\ v \in {"UNLISTED", "EMPTY"} THEN "FIRST" ELSE v
XLXValid(conf) == platform = "REGISTRY" => Value(conf, XlxUrl) # "EMPTY"
RemoteValid(conf) ==
  Value(conf, <<"Flag", "remoteEnabled", 0>>) # "DEFAULT" =>
    /\ Value(conf, <<"Text", "remotePassword", 0>>) \notin {"DEFAULT", "EMPTY"}
    /\ Value(conf, <<"Unsigned", "remotePort", 0>>) \notin {"DEFAULT", "ZERO"}
GPSDValid(conf) == \A name \in {"gpsdAddress", "gpsdPort"} : Value(conf, <<"Text", name, 0>>) # "EMPTY"

-----------------------------------------------------------------------------
(* The editor: its constructor gives every panel its members, and onSave   *)
(* sets the members from what the panels give and writes them.             *)

GatewaySet == Rows(GatewayRead, {0})
RepeaterSet == Rows(RepeaterRead, 1..4) \ Rows([Text |-> {"repeaterCall"}], 1..4)
NetworksSet == Rows(NetworksRead, {0}) \cup Rows(IrcDDBRead, 1..4)
\* The reflector has a control only in a build with DEXTRA_LINK or DCS_LINK.
StarNetSet == Rows(StarNetRead, 1..5) \ Rows([Text |-> {"starNetReflector"}], 1..5)
ServicesSet ==
  Rows(ServicesRead, {0}) \
  Rows([Text |-> {"mqttAddress"}, Unsigned |-> {"mqttPort", "mqttKeepalive"}, Integer |-> {"windowX", "windowY"}], {0})
\* The programs that edit their own configuration have a dialog for all but the window.
Window == Rows([Integer |-> {"windowX", "windowY"}], {0})
OwnSet == ReadRows[program] \ Window

InfoRows == Rows([Decimal |-> RepeaterRead.Decimal], 1..4)
IrcDDBRows == Rows(IrcDDBRead, 1..4)
GatewayEdits == UNION {GatewaySet, RepeaterSet, NetworksSet, StarNetSet, ServicesSet}
Edited == IF program = "GATEWAY" THEN GatewayEdits ELSE OwnSet

Panel(conf, r, v) ==
  CASE r \in GatewaySet -> GatewayPanel(r, v)
    [] r \in InfoRows -> InfoPanel(r, v)
    [] r \in RepeaterSet \ InfoRows -> RepeaterPanel(r, RepeaterGives(conf, r))
    [] r \in IrcDDBRows -> IrcDDBPanel(r, v)
    [] r \in StarNetSet -> StarNetPanel(r, v)
    [] OTHER -> DCSPanel(r, v)
Gives(conf, r) ==
  CASE r \in RepeaterSet -> RepeaterGives(conf, r)
    [] r \in StarNetSet -> StarNetGives(r, Value(conf, r))
    [] OTHER -> DPlusGives(r, Value(conf, r))

Bands == Rows([Text |-> {"starNetBand"}], 1..5)
Padded == Rows([Text |-> {"starNetCallsign", "starNetLogoff", "starNetPermanent"}], 1..5) \cup Rows([Text |-> {"dplusLogin"}], {0})
Types == Rows([Integer |-> {"repeaterType"}], 1..4)

Shown(conf) ==
  IF program = "GATEWAY"
  THEN NotDefault([r \in (DOMAIN conf \cup Bands \cup Types) \cap Edited |-> Panel(conf, r, Value(conf, r))])
  ELSE Restrict(conf, DOMAIN conf \cap Edited)
\* Mutant: a configuration made anew from the panels, without what has no control.
TakenAnew == NotDefault([r \in DOMAIN panels \cap Edited |-> IF program = "GATEWAY" THEN Gives(panels, r) ELSE panels[r]])
Taken ==
  LET rows == IF program = "GATEWAY" THEN DOMAIN panels \cup Padded \cup Types ELSE DOMAIN panels
      given == NotDefault([r \in rows \cap Edited |-> IF program = "GATEWAY" THEN Gives(panels, r) ELSE panels[r]])
  IN  Onto(given, Restrict(editor, DOMAIN editor \ Edited))

TimeValid(conf) ==
  /\ Value(conf, <<"Text", "callsign", 0>>) \notin {"DEFAULT", "EMPTY"}
  /\ Value(conf, <<"Text", "address", 0>>) # "EMPTY"
TimerValid(conf) ==
  /\ \A name \in {"address", "password"} : Value(conf, <<"Text", name, 0>>) \notin {"DEFAULT", "EMPTY"}
  /\ Value(conf, <<"Unsigned", "port", 0>>) \notin {"DEFAULT", "ZERO"}
Valid(conf) ==
  CASE program = "GATEWAY" ->
         /\ GatewayValid(conf) /\ RepeaterValid(conf) /\ IrcDDBValid(conf) /\ DPlusValid(conf)
         /\ XLXValid(conf) /\ RemoteValid(conf) /\ GPSDValid(conf)
    [] program = "TIME" -> TimeValid(conf)
    [] program = "TIMER" -> TimerValid(conf)

\* What is on the disk after a write, and whether it was reported done.  A file that
\* cannot be written is left as it was, for it is replaced whole; on Windows the
\* registry is written first.
Writes(conf) ==
  \/ /\ disk' = Lines(conf, disk)
     /\ reported' = TRUE /\ promised' = conf
  \/ /\ program = "GATEWAY" \/ platform = "FILE"
     /\ disk' = IF platform = "FILE" THEN disk ELSE Lines(conf, disk)
     /\ reported' = (reported /\ platform = "FILE") /\ promised' = IF platform = "FILE" THEN promised ELSE << >>

EditorOpens ==
  /\ ~ editorOn
  /\ editorOn' = TRUE /\ editor' = Load(disk) /\ panels' = Shown(Load(disk)) /\ touched' = FALSE
  /\ UNCHANGED <<program, platform, row, disk, gatewayOn, gateway, saves, reported, promised>>

\* What a user can type or choose.
Enterable(r) ==
  CASE r[1] = "Decimal" -> {"FINE", "HALF"}
    [] r[1] = "Unsigned" -> {"NEW", "ZERO"}
    [] r[2] = "repeaterBand" -> {"NEW", "DD"}
    [] r[1] = "Text" /\ r[2] \notin {"repeaterBand", "reflector", "ircddbHostname", "ccsHost", "starNetBand"} ->
         {"NEW", "EMPTY"}
    [] OTHER -> {"NEW"}

\* A band that becomes a DD one clears the controls of the reflector.
OnBand(conf) ==
  Restrict(conf, {r \in DOMAIN conf :
    ~ (r[2] \in {"reflector", "atStartup", "reconnect"} /\ row[2] = "repeaterBand" /\ DDMode(conf, r[3]))})

EditorChanges ==
  /\ editorOn /\ ~ touched /\ row \in Edited
  /\ touched' = TRUE
  /\ \E v \in Enterable(row) : panels' = OnBand(Onto([r \in {row} |-> v], panels))
  /\ UNCHANGED <<program, platform, row, disk, editorOn, editor, gatewayOn, gateway, saves, reported, promised>>

\* An invalid value is refused, and nothing is set or written.
EditorSaves ==
  /\ editorOn /\ Valid(panels) /\ saves < Saves
  /\ editor' = Taken /\ saves' = saves + 1
  /\ Writes(Taken)
  /\ UNCHANGED <<program, platform, row, editorOn, touched, panels, gatewayOn, gateway>>

\* The window's place, which is stored when the window of a program is closed.
Placed(conf) == Onto([r \in Window |-> "NEW"], conf)

EditorCloses ==
  /\ editorOn
  /\ editorOn' = FALSE /\ editor' = << >> /\ panels' = << >> /\ touched' = FALSE
  /\ UNCHANGED <<program, platform, row, disk, gatewayOn, gateway, saves, reported, promised>>

\* A program that edits its own configuration stores its place as it closes.
OwnCloses ==
  /\ program # "GATEWAY" /\ editorOn /\ saves < Saves
  /\ saves' = saves + 1 /\ Writes(Placed(editor))
  /\ editorOn' = FALSE /\ editor' = << >> /\ panels' = << >> /\ touched' = FALSE
  /\ UNCHANGED <<program, platform, row, gatewayOn, gateway>>

-----------------------------------------------------------------------------
(* The gateway loads the configuration as it starts.  The one with a       *)
(* window writes all of it back, with the window's place, as it closes; a  *)
(* window that is off the screen, or the daemon, writes nothing.           *)

GatewayStarts ==
  /\ program = "GATEWAY" /\ ~ gatewayOn
  /\ gatewayOn' = TRUE /\ gateway' = Load(disk)
  /\ UNCHANGED <<program, platform, row, disk, editorOn, editor, touched, panels, saves, reported, promised>>

DaemonStops ==
  /\ gatewayOn
  /\ gatewayOn' = FALSE /\ gateway' = << >>
  /\ UNCHANGED <<program, platform, row, disk, editorOn, editor, touched, panels, saves, reported, promised>>

GatewayCloses ==
  /\ gatewayOn /\ saves < Saves
  /\ gatewayOn' = FALSE /\ gateway' = << >> /\ saves' = saves + 1
  /\ Writes(Placed(gateway))
  /\ UNCHANGED <<program, platform, row, editorOn, editor, touched, panels>>

-----------------------------------------------------------------------------
(* A file made by hand has any value; the rest is what Validate insists on. *)
Required ==
  CASE program = "GATEWAY" ->
         [r \in {Callsign} \cup Rows([Text |-> {"ircddbUsername"}], {1, 2}) |-> "NEW"]
    [] program = "TIME" -> [r \in {<<"Text", "callsign", 0>>} |-> "NEW"]
    [] program = "TIMER" ->
         [r \in Rows([Text |-> {"address", "password"}, Unsigned |-> {"port"}], {0}) |-> "NEW"]

ByHand(r) ==
  Enterable(r) \cup
  CASE r[2] = "gatewayAddress" -> {"LOOPBACK"}
    [] r[2] \in {"repeaterBand", "reflector", "ircddbHostname", "ccsHost", "starNetBand",
                 "starNetUserTimeout", "starNetGroupTimeout"} -> {"UNLISTED"}
    [] OTHER -> {}

ConfInit ==
  /\ program \in {"GATEWAY", "TIME", "TIMER"} /\ platform \in {"FILE", "REGISTRY"}
  /\ row \in {r \in ReadRows[program] : r[3] \in Numbers}
  /\ platform = "REGISTRY" => row[2] # "gpsdPort"
  /\ disk = Required \/ \E v \in ByHand(row) : disk = Onto([r \in {row} |-> v], Required)
  /\ editorOn = FALSE /\ editor = << >> /\ touched = FALSE /\ panels = << >>
  /\ gatewayOn = FALSE /\ gateway = << >> /\ saves = 0 /\ reported = FALSE /\ promised = << >>

ConfNext ==
  \/ EditorOpens \/ EditorChanges \/ EditorSaves \/ EditorCloses \/ OwnCloses
  \/ GatewayStarts \/ DaemonStops \/ GatewayCloses

-----------------------------------------------------------------------------
\* After a save that was reported done, a program that starts finds what the
\* members of the last one to write held, to the digits that are kept: every row
\* is read into the member that it was written from.
SavedIsRead ==
  reported =>
    LET found == Load(disk)
    IN  \A r \in (DOMAIN disk \cup DOMAIN promised) \cap ReadRows[program] :
          \/ Value(found, r) = OnDisk(r, Value(promised, r))
          \/ r = XlxUrl /\ Value(promised, r) = "EMPTY" /\ Value(found, r) = "DEFAULT"

\* A save sets the row that the user changed, and leaves every row that nobody
\* touched as it was, but for those the controls cannot show.
OnlyEdits ==
  [][editorOn /\ editorOn' /\ gatewayOn' = gatewayOn /\ saves' # saves =>
       /\ touched => Value(editor', row) \in
            {Value(panels, row)} \cup (IF Value(panels, row) = "EMPTY" THEN {"BLANK"} ELSE {})
       /\ \A r \in (DOMAIN editor \cup DOMAIN editor') \ (IF touched THEN {row} ELSE {}) :
            Value(editor, r) \in {"NEW", "DEFAULT"} /\ ~ DDMode(panels, r[3]) /\ ~ DDMode(editor, r[3]) =>
              Value(editor', r) \in
                {Value(editor, r)} \cup (IF Value(editor, r) = "DEFAULT" THEN {"BLANK", "FIRST"} ELSE {})]_confVars
=============================================================================
