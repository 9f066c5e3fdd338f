SPECIFICATION FairSpec
CONSTANTS
  Increment <- MCIncrement
  MaxUrl <- MCMaxUrl
  FilterTexts <- MCFilterTexts
  MaxFilters <- MCMaxFilters
  MaxCurlFails <- MCMaxCurlFails
INVARIANTS
  TypeOK
  QueryInsideBlock
  TextInsideBuffer
  GrownUrlIsWhole
  ShortUrlIsWhole
  GrowthIsTight
PROPERTIES
  UrlEventuallySent
