\* Do the leaf controls of the classical route decide its leaf evidence?
CONSTANTS
  Commands = {"analyze"}
  Kinds = {"cross_signed"}
  Surprises <- MCSurprises
  Sha256 <- MCSha256
  Malformed = {}
  Names <- MCNames
  Times = {"t1"}
  EmptyString = EmptyString
  BadTime = BadTime
  None = None
  ImageOf <- MCImageOf
  SortedTags <- MCSortedTags
  Contents <- MCContents
  DisturbancePoints <- MCDisturbancePoints
  MaxDisturbances = 2
  Manifests <- MCManifests
  FileContents <- MCFileContents
  InitialCorpora <- MCInitialCorpora
  Generators = {"g", "h"}
  InputLimits = {2, 4}
  MaxLength = 4
  MaxWrites = 1
  References <- MCReferences
  Relateds <- MCRelateds
  MaxReplacements = 1
SPECIFICATION CommandSpec
INVARIANT
  RouteControlsDecide
CHECK_DEADLOCK FALSE
