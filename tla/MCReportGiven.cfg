SPECIFICATION Spec
CONSTANTS
  Codes <- MCCodes
  MaxBody <- MCMaxBody
  MaxReports <- MCMaxReports
  MaxValues <- MCMaxValues
  Names <- MCNames
INVARIANT AllGivenIsReported
