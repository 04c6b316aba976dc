-------------------------- MODULE MC_GLCoreLegacy --------------------------
(* Model values for GLCoreLegacy: the four-slot ring of gl_core.c and two  *)
(* frame sizes of equal width, so that a height-only change must still     *)
(* reallocate.                                                             *)
EXTENDS GLCoreLegacy

MCFrameSizes == {[w |-> 2, h |-> 1], [w |-> 2, h |-> 2]}
=============================================================================
