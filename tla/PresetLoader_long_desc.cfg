SPECIFICATION Spec
CONSTANTS
  PassConfigs <- LongDescPasses
  MaxPasses = 2
  MaxLuts = 0
  MetaFormats = {"UNKNOWN"}
  GFX_MAX_PARAMETERS = 3
  ID_SIZE = 64
  DESC_SIZE = 2
INVARIANT DuplicatesAcceptedIffIdentical
