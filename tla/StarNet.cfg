SPECIFICATION Spec
CONSTANTS
  Users = {u1, u2}
  Permanent = {u2}
  Repeaters = {r1}
  Nowhere = Nowhere
  Streams = {1, 2}
  UserLife = 3
  GroupLife = 3
  Linked = TRUE
INVARIANTS SpeakerWatched
PROPERTIES UsersOutliveStreams ComesToRest
CHECK_DEADLOCK FALSE
