SPECIFICATION Spec
CONSTANTS
  PassConfigs <- TruncatedIdPasses
  MaxPasses = 2
  MaxLuts = 0
  MetaFormats = {"UNKNOWN"}
  GFX_MAX_PARAMETERS = 3
  ID_SIZE = 2
  DESC_SIZE = 64
INVARIANT StoredIdsUnique
