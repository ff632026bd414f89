SPECIFICATION Spec
CONSTANTS
  Keys <- MCKeys
  Prefixes <- MCPrefixes
  MaxRuns = 3
INVARIANT ManifestIsTrue
INVARIANT SuccessIsComplete
CHECK_DEADLOCK FALSE
