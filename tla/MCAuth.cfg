CONSTANTS
  Slots = {s1, s2}
  Kids = {k1, k2}
  None = None
SYMMETRY Symmetry
SPECIFICATION Spec
INVARIANTS TypeOK WorkIsBounded
PROPERTIES GoodTokensAccepted WithdrawalSticks
