CONSTANTS
  Loads <- MCLoads
  Key <- MCKey
  Order = 6
  MaxPages = 16
SPECIFICATION Spec
INVARIANTS TreeSound AccessExact
