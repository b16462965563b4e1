SPECIFICATION Spec
CONSTANTS
  N = 2
  K = 2
  Xof <- MCXof
  Prf <- MCPrf
  HashG <- MCHashG
  HashH <- MCHashH
  LEN = 2
  Pairs <- MCPairs
  Seeds = {0, 40}
  Draw <- MCDraw
INVARIANTS RngExclusive EveryDrawAdvances ChosenKeyIsReceivers ConnectionLeftEmpty
PROPERTIES ImplementsOT
