SPECIFICATION FairSpec
CONSTANTS
  Families = {"Y"}
  ReflectorFamilies = {}
  Modules = {"A"}
  NoCall = NoCall
  MaxLinks = 0
  CcsCall = CcsCall
  Enabled = {}
  IrcDDB = TRUE
  Ids = {1,2}
  Users = {u1}
  Self = Self
  Commands <- StreamCommands
  DtmfCommands <- StreamDtmf
  Restrictions = {FALSE,TRUE}
  RemoteModes = {}
  RemoteTargets = {}
  Startups <- NoStartup
  Modes = {"NEVER"}
  Others = {}
  CcsOn = FALSE
  InitialCache <- Hosts
INVARIANTS G2PointersValid StreamWatched IdleIsClean
PROPERTIES StreamsEnd
