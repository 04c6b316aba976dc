SPECIFICATION Spec
CONSTANTS
  PassConfigs <- DupAtCapacityPasses
  MaxPasses = 2
  MaxLuts = 0
  MetaFormats = {"UNKNOWN"}
  GFX_MAX_PARAMETERS = 2
  ID_SIZE = 64
  DESC_SIZE = 64
INVARIANT DuplicatesAcceptedIffIdentical
