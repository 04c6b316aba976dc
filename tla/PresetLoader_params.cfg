SPECIFICATION Spec
CONSTANTS
  PassConfigs <- LoaderPasses
  MaxPasses = 2
  MaxLuts = 1
  MetaFormats = {"UNKNOWN", "R32_UINT"}
  GFX_MAX_PARAMETERS = 3
  ID_SIZE = 64
  DESC_SIZE = 64
INVARIANT TypeOK
INVARIANT ChainBuiltOnlyForAcceptableParams
INVARIANT StoredIdsUnique
INVARIANT ParamBindingsAgree
INVARIANT ChainShape
