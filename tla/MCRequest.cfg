SPECIFICATION FairSpec
CONSTANTS
  Codes <- MCCodes
  MaxBody <- MCMaxBody
INVARIANTS
  TypeOK
  ReleasedUnlessLost
  BodyIsWhole
  FdOwnerKnown
PROPERTIES
  ImplementsExchange
  ExchangeReturns
