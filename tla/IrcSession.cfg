SPECIFICATION Spec
CONSTANTS
  Servers = {s1, s2}
  Me = Me
  None = None
  s1 = s1
  s2 = s2
  Group <- GroupOf
  Addresses = 1
  Polls = 2
INVARIANTS ListedFirst
PROPERTY GoesOnline
