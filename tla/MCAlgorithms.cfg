SPECIFICATION Spec
CONSTANTS
  None = None
  BlockBits = {0, 1, 2, 3}
  GfMul <- MCGfMul
  WordBits = 3
  Lanes = 2
  GroupSize = 4
  Seeds = {1, 2, 3, 4, 5, 6, 7, 8}
  MaxCols = 10
  MaxBits = 11
  Lists = {1, 3}
INVARIANTS
  ArithmeticRight
  SamplingRight
  PackingRight
  PackedBlocksAuthentic
  ProductsAccepted
