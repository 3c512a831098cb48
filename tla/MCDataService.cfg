CONSTANTS
  Clients = {c1, c2}
  open = open
  fixed = fixed
  Paths <- MCPaths
  Fixed <- MCFixed
  Data <- MCData
  Values = {1, 2}
  Absent = absent
  NoRequest = NoRequest
  NoReport = NoReport
  MaxCommands = 3
  MaxRestarts = 1
SPECIFICATION Spec
SYMMETRY MCSymmetry
INVARIANT PrintedWasTrue
CHECK_DEADLOCK FALSE
