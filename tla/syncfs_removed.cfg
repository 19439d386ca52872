SPECIFICATION Spec
CONSTANTS
  p1 = p1
  p2 = p2
  c1 = c1
  c2 = c2
  h1 = h1
  Paths = {p1}
  Clients = {c1}
  Kinds = {"create", "remove"}
  Fds = {}
  Failures = FALSE
  Foreign = FALSE
  MaxCalls = 3
  MaxVersion = 3
  MaxTime = 0
INVARIANT RemovedStaysRemoved
CHECK_DEADLOCK FALSE
