SPECIFICATION Spec
CONSTANTS
  BlockBits = {0, 1, 2}
  CheckBits = {0, 1}
  Seeds = {1, 2, 3, 4, 5, 6, 7, 8, 9, 10, 11, 12}
  None = None
  Challenges = {1, 2}
  Setups <- MCSetups
  H <- MCH
  GfMul <- MCGfMul
  Coeff <- MCCoeff
INVARIANTS
  TypeOK
  StreamAligned
  FreeXor
  LabelMatchesMaskedValue
  MaskedValueCorrect
  OutputCorrect
  NoFalseAlarm
