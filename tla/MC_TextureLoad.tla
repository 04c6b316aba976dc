-------------------------- MODULE MC_TextureLoad --------------------------
(* Image sizes up to 17 texels: every power of two up to 16, the sizes     *)
(* either side of each, and the zero size.                                 *)
EXTENDS TextureLoad
=============================================================================
