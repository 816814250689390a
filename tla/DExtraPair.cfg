SPECIFICATION FairSpec
CONSTANTS
  Targets = {A, B}
  Mods = {A}
  NoTarget = NoTarget
  PollLimit = 3
  MaxNet = 2
PROPERTIES ImplementsLink Settles GhostsFade DeadEndNoticed
