SPECIFICATION FairSpec
CONSTANTS
  p1 = p1
  p2 = p2
  c1 = c1
  c2 = c2
  h1 = h1
  Paths = {p1}
  Clients = {c1, c2}
  Kinds = {"create", "open", "trunc", "touch", "remove"}
  Fds = {h1}
  Failures = TRUE
  Foreign = TRUE
  MaxCalls = 2
  MaxVersion = 3
  MaxTime = 2
INVARIANT QuietMeansSame
PROPERTY PullKeepsNewer
PROPERTY NotesGo
CHECK_DEADLOCK FALSE
