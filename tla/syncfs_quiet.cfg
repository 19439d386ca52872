SPECIFICATION Spec
CONSTANTS
  p1 = p1
  p2 = p2
  c1 = c1
  c2 = c2
  h1 = h1
  Paths = {p1, p2}
  Clients = {c1, c2}
  Kinds = {"create", "open", "remove", "rename"}
  Fds = {h1}
  Failures = FALSE
  Foreign = FALSE
  MaxCalls = 3
  MaxVersion = 3
  MaxTime = 0
SYMMETRY Symmetry
INVARIANT QuietMeansSame
CHECK_DEADLOCK FALSE
