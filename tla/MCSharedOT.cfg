SPECIFICATION Spec
CONSTANTS
  None = None
  Addresses = {1, 2}
  Sessions = 3
  Rounds = 2
  Deaths = 2
INVARIANTS InStep FreshConnectionsServe
PROPERTIES SessionsEnd
