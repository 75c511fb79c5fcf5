\* A responder that answers with an error status.
CONSTANTS
  MaxU64 = 7
  Timestamps <- MCTimestamps
  Targets <- MCTargets
  Responses <- MCResponses
  Crls <- MCCrls
  Policies <- MCPolicies
  Nonces = {None, "n1", BadNonce}
  Cases <- MCCases
  BadNonce = BadNonce
  None = None
SPECIFICATION Spec
INVARIANTS
  ModesAreExplicit
