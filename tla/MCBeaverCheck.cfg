SPECIFICATION CheckSpec
CONSTANTS
  BlockBits = {0, 1, 2}
  GfMul <- MCGfMul
  RandomBit <- MCRandomBit
  RandomBlock <- MCRandomBlock
  CompressParam <- MCCompressParam
  Setups <- MCSetups
  Circuits <- NoDuplicates
  Seeds = {1, 2, 3, 4, 5}
  Unset = Unset
  Challenge <- MCChallenge
  ByteSize = 1
INVARIANT BeaverComparesEqual
