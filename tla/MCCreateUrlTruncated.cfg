SPECIFICATION Spec
CONSTANTS
  Increment <- MCIncrement
  MaxUrl <- MCMaxUrl
  FilterTexts <- MCFilterTexts
  MaxFilters <- MCMaxFilters
  MaxCurlFails <- MCMaxCurlFails
INVARIANT SentUrlIsWhole
