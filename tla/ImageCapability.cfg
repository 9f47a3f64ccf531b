SPECIFICATION MCSpec
CONSTANTS
  Objects = {"urn", "bowl"}
  Offers <- SomeOffers
  Grants <- SomeGrants
  Claims <- SomeClaims
  Canvases <- SomeCanvases
  MaxViews = 1
  MaxCanvases = 2
  MaxAssets = 3
  MaxTime = 2
  Pairs <- SomePairs
  MinImprovement = 1
  MaxAssessments = 2
INVARIANTS
  ExportIsLicensed
  SupportedIsObserved
  EnabledIsEvidenced
CHECK_DEADLOCK FALSE
