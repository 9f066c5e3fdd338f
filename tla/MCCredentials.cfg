SPECIFICATION Spec
CONSTANTS
  Codes <- MCCodes
  MaxBody <- MCMaxBody
  MaxCalls <- MCMaxCalls
INVARIANTS
  TypeOK
  UsableIsOfOneReply
  NoOwnStringLost
PROPERTIES
  SuccessFillsAll
  SessionFreeable
  ImplementsEntryPoint
