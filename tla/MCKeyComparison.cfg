SPECIFICATION Spec
CONSTANTS
  BlockBits = {0, 1, 2}
  GfMul <- MCGfMul
  RandomBit <- MCRandomBit
  RandomBlock <- MCRandomBlock
  Challenge <- MCChallenge
  SecurityBits = 2
  Setups <- MCSetups
  Seeds = {1, 2}
  Unset = Unset
INVARIANT SameDataCompareEqual
