SPECIFICATION Spec
CONSTANTS
  Families = {"X","R","D","Y"}
  ReflectorFamilies = {"X","R","D"}
  Modules = {"A"}
  NoCall = NoCall
  MaxLinks = 2
  CcsCall = CcsCall
  Enabled = {"DEXTRA","DPLUS","DCS"}
  IrcDDB = TRUE
  Ids = {1}
  Users = {}
  Self = Self
  Commands <- LinkCommands
  DtmfCommands = {}
  Restrictions = {FALSE}
  RemoteModes = {"TIMED"}
  RemoteTargets <- AnyTarget
  Startups <- NoStartup
  Modes = {"NEVER"}
  Others = {}
  CcsOn = FALSE
  InitialCache <- Hosts
INVARIANTS DExtraFollows ActiveToRepeater
