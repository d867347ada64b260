CONSTANTS
  Paths <- SixPaths
  Regenerable <- Builds
  Ignored <- IgnoredNames
  Target <- LinkedTo
  MaxDepth = 2
  Places <- TwoPlaces
  Birthplace <- Here
  Veiled <- OneVeiled
  Lived <- OneLayout
  MaxEntries = 1
  MaxEvents = 2
SPECIFICATION Spec
INVARIANT UnaskedIsSafe
CHECK_DEADLOCK FALSE
