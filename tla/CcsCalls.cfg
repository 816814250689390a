SPECIFICATION Spec
CONSTANTS
  Families = {"X","R"}
  ReflectorFamilies = {"X","R"}
  Modules = {"A"}
  NoCall = NoCall
  MaxLinks = 2
  CcsCall = CcsCall
  Enabled = {"DEXTRA","DPLUS","DCS"}
  IrcDDB = TRUE
  Ids = {1}
  Users = {}
  Self = Self
  Commands <- CcsCommands
  DtmfCommands = {}
  Restrictions = {FALSE}
  RemoteModes = {"FIXED"}
  RemoteTargets <- AnyTarget
  Startups <- AnyTarget
  Modes = {"NEVER","TIMED","FIXED"}
  Others = {}
  CcsOn = TRUE
  InitialCache <- Hosts
INVARIANTS CcsAlone FixedHome
PROPERTIES IncomingKeepsLinks
