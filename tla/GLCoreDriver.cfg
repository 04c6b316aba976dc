SPECIFICATION Spec
CONSTANTS
  GL_CORE_NUM_TEXTURES = 4
  FrameSizes <- MCFrameSizes
  NULL = NULL
INVARIANT TypeOK
INVARIANT InputTextureFitsFrame
INVARIANT NoResourceLeak
