SPECIFICATION Spec
CONSTANTS
  Families = {"Y"}
  ReflectorFamilies = {}
  Modules = {"A"}
  NoCall = NoCall
  MaxLinks = 2
  CcsCall = CcsCall
  Enabled = {"DEXTRA", "DPLUS", "DCS"}
  IrcDDB = TRUE
  Ids = {1}
  Users = {}
  Self = Self
  Commands <- LinkCommands
  DtmfCommands = {}
  Restrictions = {FALSE}
  RemoteModes = {}
  RemoteTargets = {}
  Startups <- NoStartup
  Modes = {"NEVER"}
  Others = {}
  CcsOn = FALSE
  InitialCache <- Hosts
INVARIANTS PendingTimed
