SPECIFICATION FairSpecOver
CONSTANTS
  Codes <- MCCodes
  MaxBody <- MCMaxBody
  MaxUpdates <- MCMaxUpdates
  MaxPairs <- MCMaxPairs
  Half <- MCHalf
  Sizes <- MCSizes
INVARIANTS
  TypeOK
  DeliveredUpToOther
  ReplyIsOwned
  AssignedUpToFailure
  SizesAreExact
PROPERTIES
  NoStringOverwritten
  ImplementsEntryPoint
  CallReturns
  ImplementsUpdates
