\* Every command of several steps: odd results, replaced files, moved images.
CONSTANTS
  Commands = {"analyze", "matrix-available", "verify-corpus", "analyze-pair"}
  Kinds = {"atomic", "catalyst", "chameleon", "pure", "related",
           "atomic_tls", "catalyst_tls", "chameleon_tls", "related_tls",
           "catalyst_bouncy_castle", "related_openssl", "cross_signed"}
  Surprises <- MCSurprises
  Sha256 <- MCSha256
  Malformed = {}
  Names <- MCNames
  Times = {"t1"}
  EmptyString = EmptyString
  BadTime = BadTime
  None = None
  ImageOf <- MCImageOf
  SortedTags <- MCSortedTags
  Contents <- MCContents
  DisturbancePoints <- MCDisturbancePoints
  MaxDisturbances = 2
  Manifests <- MCManifests
  FileContents <- MCFileContents
  InitialCorpora <- MCInitialCorpora
  Generators = {"g", "h"}
  InputLimits = {2, 4}
  MaxLength = 4
  MaxWrites = 1
  References <- MCReferences
  Relateds <- MCRelateds
  MaxReplacements = 1
SPECIFICATION CommandSpec
INVARIANTS
  AnalysisTypeOK
  DocumentedVerdicts
  HybridIsEarned
  ClassicalIsEarned
  OnePathOrRefusal
  InconclusiveNeverRejects
  MatrixIsComplete
  ProvenanceIsExact
  VerifiedIsExact
  ConformanceIsExact
CHECK_DEADLOCK FALSE
