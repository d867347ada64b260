CONSTANTS
  Paths <- SixPaths
  Regenerable <- Builds
  Ignored <- IgnoredNames
  Target <- LinkedTo
  MaxDepth = 2
  Places <- TwoPlaces
  Birthplace <- Here
  Veiled <- OneVeiled
  Lived <- FourLayouts
  MaxEntries = 3
  MaxEvents = 2
SPECIFICATION Spec
INVARIANTS TypeOK Mirrors NothingShared WorkBlocks LinksStand UntouchedRemovable
CHECK_DEADLOCK FALSE
