SPECIFICATION Spec
CONSTANT MaxDim = 17
INVARIANT MipLevelsMatchSpec
