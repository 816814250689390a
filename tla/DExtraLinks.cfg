SPECIFICATION Spec
CONSTANTS
  Families = {"X","Y"}
  ReflectorFamilies = {"X"}
  Modules = {"A","B"}
  NoCall = NoCall
  MaxLinks = 2
  CcsCall = CcsCall
  Enabled = {"DEXTRA","DPLUS","DCS"}
  IrcDDB = TRUE
  Ids = {1}
  Users = {}
  Self = Self
  Commands <- SomeLinks
  DtmfCommands = {}
  Restrictions = {FALSE}
  RemoteModes = {"TIMED","NEVER"}
  RemoteTargets <- SomeTargets
  Startups <- StartAtB
  Modes = {"NEVER"}
  Others = {}
  CcsOn = FALSE
  InitialCache <- Hosts
INVARIANTS LinkedIsReal NoOrphan OneOutgoing RemoveIsTheLoop
PROPERTIES NetworkNeverLinks
