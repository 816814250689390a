SPECIFICATION MCSpec
CONSTANTS
  Parts = {"DATABASE", "QUERIES", "PACKETS", "ICOM", "STREAMS", "G2", "TIME", "REMOTE", "CONFIGURATION", "SLOW",
           "UNITS", "DTMF"}
  Gateways = {g1}
  Repeaters = {r1}
  Persons = {p1}
  Sessions = {1, 2, 3}
  Hosts = {h1, h2}
  NoHost = NoHost
  Joins = 4
  Replies = 1
  Clients = {c1, c2}
  Keys = {k1}
  Stamps = 2
  Flying = 2
  Bytes = {1, 2}
  Hops = 3
  RingSize = 3
  SeqNos = 3
  MaxQueued = 4
  Wire = 2
  Ids = {1, 2}
  Homes = {a, b}
  Elsewhere = Elsewhere
  G2Streams = {s1, s2}
  Routes = {1, 2}
  Copies = 3
  Flight = 5
  Controls = {remote1}
  Turns = 3
  MaxRetries = 3
  Randoms = 3
  Items = 1
  Wires = 2
  Saves = 2
  Numbers = {0, 1}
  Strings = {30, 60}
  Rounds = 2
  Marks = {7, 13}
  Losses = 1
  MaxFrames = 1
  Release = 2
  Reflectors = {120}
  ModuleLetters = {2, 26}
  Misreads = 3
INVARIANTS NewestWins SameStream Understood FramesFollowHeader BegunOnce TimeIsTold AcceptedIsDone SavedIsRead HeardAsSent
           HeadersFirst MeantIsDone
PROPERTIES AnswerComes TheirOrder QueueMoves LinkFreed OnlyEdits AskersHear
CHECK_DEADLOCK FALSE
