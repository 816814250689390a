SPECIFICATION Spec
CONSTANTS
  Users = {u1, u2}
  Permanent = {u2}
  Repeaters = {r1}
  Nowhere = Nowhere
  Streams = {1, 2}
  UserLife = 3
  GroupLife = 3
  Linked = TRUE
INVARIANT NoneLeftAllClear

CHECK_DEADLOCK FALSE
