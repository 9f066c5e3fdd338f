SPECIFICATION Spec
CONSTANTS
  Codes <- MCCodes
  MaxBody <- MCMaxBody
  MaxUpdates <- MCMaxUpdates
  MaxPairs <- MCMaxPairs
  Half <- MCHalf
  Sizes <- MCSizes
INVARIANT AlwaysFreeable
