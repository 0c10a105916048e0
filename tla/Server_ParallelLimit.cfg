SPECIFICATION ServerSpec

CONSTANTS
  Sessions = {s1, s2}
  Clients = {c1, c2}
  ParallelTransfers = {1, 2}
  Fds = {3, 4, 5}
  ServerPort = 1
  CommPortStart = 3
  CommPortEnd = 5
  EphemeralPorts = {9}
  BuiltinCommPortStart = 2
  MaxRetryCreateSocket = 2

SYMMETRY Symmetry

INVARIANT ParallelLimit

\* The bounds end a behaviour.
CHECK_DEADLOCK FALSE
