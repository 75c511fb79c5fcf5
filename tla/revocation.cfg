\* Both checkers on every document, at all times.
CONSTANTS
  MaxU64 = 7
  Timestamps <- MCTimestamps
  Targets <- MCTargets
  Responses <- MCResponses
  Crls <- MCCrls
  Policies <- MCPolicies
  Nonces = {None, "n1", BadNonce}
  Cases <- MCCases
  BadNonce = BadNonce
  None = None
SPECIFICATION Spec
INVARIANTS
  TypeOK
  OcspSound
  SoftFailNeedsRevocation
  CheckersAgree
PROPERTIES
  RevokedStaysRevoked
