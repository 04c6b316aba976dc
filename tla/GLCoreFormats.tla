--------------------------- MODULE GLCoreFormats ---------------------------
(***************************************************************************)
(* The conversion tables of the gl_core namespace in shader_gl_core.cpp,   *)
(* shared by the preset loader (a pass's render-target format and sampler  *)
(* address) and the LUT textures it loads (their sampler address).  Each   *)
(* switch is a function over the cases it names; its default case is the   *)
(* value for anything outside that domain.                                 *)
(***************************************************************************)

(* The GLenum 0: no format of its own, the pass renders with the          *)
(* swapchain's.                                                            *)
NoFormat == "0"

(* convert_glslang_format: each slang format to its GL enum, 0 otherwise. *)
GLFormat == [R8G8B8A8_UNORM      |-> "GL_RGBA8",
             R8G8B8A8_SRGB       |-> "GL_SRGB8",
             R16G16B16A16_SFLOAT |-> "GL_RGBA16F",
             R32_UINT            |-> "GL_R32UI"]

convert_glslang_format(f) ==
  IF f \in DOMAIN GLFormat THEN GLFormat[f] ELSE NoFormat

(* wrap_to_address: the preset's wrap mode as the sampler's address mode; *)
(* RARCH_WRAP_EDGE is also the default case.                               *)
WrapToAddress == [edge            |-> "clamp_to_edge",
                  border          |-> "clamp_to_border",
                  repeat          |-> "repeat",
                  mirrored_repeat |-> "mirrored_repeat"]

(* Mutant: address_to_gl without its CLAMP_TO_BORDER case, which then     *)
(* falls into the default.                                                 *)
AddressToGlNoBorder(a) ==
  IF a = "repeat" THEN "GL_REPEAT"
  ELSE IF a = "mirrored_repeat" THEN "GL_MIRRORED_REPEAT"
  ELSE "GL_CLAMP_TO_EDGE"

(* address_to_gl: the address mode as the GL wrap enum; CLAMP_TO_EDGE is  *)
(* also the default case.                                                  *)
AddressToGl(a) ==
  CASE a = "clamp_to_border" -> "GL_CLAMP_TO_BORDER"
    [] a = "repeat"          -> "GL_REPEAT"
    [] a = "mirrored_repeat" -> "GL_MIRRORED_REPEAT"
    [] OTHER                 -> "GL_CLAMP_TO_EDGE"
=============================================================================
