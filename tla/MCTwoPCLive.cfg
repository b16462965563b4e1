SPECIFICATION Spec
CONSTANTS
  BlockBits = {0, 1, 2}
  CheckBits = {0, 1}
  Seeds = {3}
  None = None
  Challenges = {1}
  Setups <- MCSetups
  H <- MCH
  GfMul <- MCGfMul
  Coeff <- MCCoeff
PROPERTIES
  Termination
  ImplementsIdeal
