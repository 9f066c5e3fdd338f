SPECIFICATION Spec
CONSTANTS
  Codes <- MCCodes
  MaxBody <- MCMaxBody
  MaxCalls <- MCMaxCalls
INVARIANT OldContentsFreed
