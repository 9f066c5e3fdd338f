SPECIFICATION Spec
CONSTANTS
  Codes <- MCCodes
  MaxBody <- MCMaxBody
  MaxReports <- MCMaxReports
  MaxValues <- MCMaxValues
  Names <- MCNames
INVARIANTS
  TypeOK
  FirstValueWins
  NoErrorSwallowed
  ReferencesBalance
  SuccessMeansAccepted
  SentUnderOwnName
PROPERTY ImplementsEntryPoint
