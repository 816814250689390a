SPECIFICATION FairSpec
CONSTANTS
  Families = {"Y"}
  ReflectorFamilies = {}
  Modules = {"A", "B"}
  NoCall = NoCall
  MaxLinks = 2
  CcsCall = CcsCall
  Enabled = {"DEXTRA", "DPLUS", "DCS"}
  IrcDDB = TRUE
  Ids = {1}
  Users = {}
  Self = Self
  Commands <- LinkCommands
  DtmfCommands = {}
  Restrictions = {FALSE}
  RemoteModes = {}
  RemoteTargets = {}
  Startups <- AnyTarget
  Modes = {"TIMED"}
  Others = {}
  CcsOn = FALSE
  InitialCache <- Hosts
PROPERTIES WatchdogCleansUp
