SPECIFICATION Spec
CONSTANT MaxDim = 17
INVARIANT TypeOK
INVARIANT MipLevelsFullChain
INVARIANT MipmapRequestGetsFullChain
INVARIANT LutSampledAsDeclared
