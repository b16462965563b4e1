SPECIFICATION Spec
CONSTANTS
  BlockBits = {0, 1, 2}
  GfMul <- MCGfMul
  RandomBit <- MCRandomBit
  RandomBlock <- MCRandomBlock
  CompressParam <- MCCompressParam
  Setups <- MCSetups
  Circuits <- Duplicated
  Seeds = {1, 2, 3, 4, 5, 6, 7, 8}
  Unset = Unset
INVARIANT AndedMasksAreProducts
