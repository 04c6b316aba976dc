---------------------------- MODULE TextureLoad ----------------------------
(***************************************************************************)
(* The two ways the repository turns a decoded image into a GL texture,    *)
(* run side by side on the same image size:                                *)
(*                                                                         *)
(* - a preset LUT (gl_core_filter_chain_load_lut, shader_gl_core.cpp):     *)
(*   levels = shader->mipmap ? num_miplevels(w, h) : 1, storage, upload,   *)
(*   glGenerateMipmap when levels > 1, and a StaticTexture that is linear  *)
(*   unless the LUT asks for nearest, mipmapped when levels > 1, and       *)
(*   wrapped with address_to_gl(wrap_to_address(shader->wrap));            *)
(* - a frontend texture (gl_core_load_texture, gl_core.c): with a threaded *)
(*   video driver the load runs through one of two wrappers that fix the   *)
(*   filter, then video_texture_load_gl_core picks the level count, the    *)
(*   storage and the min/mag filters from the filter type; the caller      *)
(*   later gives it back with gl_core_unload_texture.                      *)
(*                                                                         *)
(* Each num_miplevels loop runs one iteration per step:                    *)
(*   shader_gl_core.cpp  size = MAX(w, h); levels = 0;                     *)
(*                       while (size) { levels++; size >>= 1; }            *)
(*   gl_core.c           levels = 1; if (w < h) w = h;                     *)
(*                       while (w > 1) { levels++; w >>= 1; }              *)
(***************************************************************************)
EXTENDS Naturals, GLCoreFormats

CONSTANT MaxDim   \* bound on the image width and height

ASSUME MaxDim \in Nat \ {0}

(* enum texture_filter_type *)
Filters    == {"LINEAR", "NEAREST", "MIPMAP_LINEAR", "MIPMAP_NEAREST"}
MipFilters == {"MIPMAP_LINEAR", "MIPMAP_NEAREST"}

(* The GL_TEXTURE_MIN_FILTER and GL_TEXTURE_MAG_FILTER the switch of       *)
(* video_texture_load_gl_core sets for each filter type.                   *)
MinFilter == [LINEAR         |-> "GL_LINEAR",
              NEAREST        |-> "GL_NEAREST",
              MIPMAP_NEAREST |-> "GL_LINEAR_MIPMAP_NEAREST",
              MIPMAP_LINEAR  |-> "GL_LINEAR_MIPMAP_LINEAR"]
MagFilter == [f \in Filters |-> IF f = "NEAREST" THEN "GL_NEAREST"
                                                 ELSE "GL_LINEAR"]
MipMinFilters == {MinFilter[f] : f \in MipFilters}

(* The GL name glGenTextures gave the frontend's texture: never 0, the    *)
(* id gl_core_unload_texture treats as no texture.                         *)
TexId == 1

VARIABLES
  width, height,          \* the decoded image, the same for both paths
  lutMipmap,              \* shader->mipmap
  lutWrap,                \* shader->wrap
  lutPc,                  \* "levels" -> "miplevels" -> "create" -> "done"
  cppSize, cppLevels,     \* locals of num_miplevels in shader_gl_core.cpp
  lut,                    \* the StaticTexture made, or NoLut
  texFilter, threaded,    \* gl_core_load_texture's filter_type, threaded
  texPc,                  \* "load" -> "miplevels" -> "storage" -> "loaded"
                          \* -> "unloaded"
  loadFilter,             \* the filter_type video_texture_load_gl_core gets
  cWidth, cLevels,        \* locals of num_miplevels in gl_core.c
  tex                     \* the GL texture made, or NoTexture

vars == <<width, height, lutMipmap, lutWrap, lutPc, cppSize, cppLevels,
          lut, texFilter, threaded, texPc, loadFilter, cWidth, cLevels, tex>>

(* A texture not yet created. *)
NoTexture == [levels |-> 0, min |-> "none", mag |-> "none", mipmapped |-> FALSE,
              address |-> "none"]

(* A LUT not yet created.  The filter flag a LUT's StaticTexture is given  *)
(* is left out: the class that samples with it is not in the repository.   *)
NoLut == [levels |-> 0, mipmapped |-> FALSE, address |-> "none"]

MaxOf(a, b) == IF a < b THEN b ELSE a

Init ==
  /\ width \in 0 .. MaxDim
  /\ height \in 0 .. MaxDim
  /\ lutMipmap \in BOOLEAN
  /\ lutWrap \in DOMAIN WrapToAddress
  /\ lutPc = "levels"
  /\ cppSize = 0
  /\ cppLevels = 0
  /\ lut = NoLut
  /\ texFilter \in Filters
  /\ threaded \in BOOLEAN
  /\ texPc = "load"
  /\ loadFilter = "LINEAR"
  /\ cWidth = 0
  /\ cLevels = 1
  /\ tex = NoTexture

lutVars == <<lutMipmap, lutWrap, lutPc, cppSize, cppLevels, lut>>
texVars == <<texFilter, threaded, texPc, loadFilter, cWidth, cLevels, tex>>

-----------------------------------------------------------------------------
(* The LUT path, gl_core_filter_chain_load_lut once image_texture_load has *)
(* succeeded.                                                              *)

(* levels = shader->mipmap ? gl_core::num_miplevels(w, h) : 1 *)
LutLevels ==
  /\ lutPc = "levels"
  /\ IF lutMipmap
       THEN /\ cppSize' = MaxOf(width, height)
            /\ cppLevels' = 0
            /\ lutPc' = "miplevels"
       ELSE /\ cppLevels' = 1
            /\ lutPc' = "create"
            /\ UNCHANGED cppSize
  /\ UNCHANGED <<width, height, lutMipmap, lutWrap, lut, texVars>>

(* Mutant: "while (size > 1)" in shader_gl_core.cpp. *)
CppLoopCondFromOne == cppSize > 1

(* The condition of the loop of shader_gl_core.cpp: while (size). *)
CppLoopCond == cppSize # 0

(* One iteration of the loop of shader_gl_core.cpp. *)
CppLoop ==
  /\ lutPc = "miplevels"
  /\ CppLoopCond
  /\ cppLevels' = cppLevels + 1
  /\ cppSize' = cppSize \div 2
  /\ UNCHANGED <<width, height, lutMipmap, lutWrap, lutPc, lut, texVars>>

(* The loop of shader_gl_core.cpp ends: return levels. *)
CppReturn ==
  /\ lutPc = "miplevels"
  /\ ~CppLoopCond
  /\ lutPc' = "create"
  /\ UNCHANGED <<width, height, lutMipmap, lutWrap, cppSize, cppLevels,
                 lut, texVars>>

(* glTexStorage2D with the levels, the upload, glGenerateMipmap when       *)
(* levels > 1, and new StaticTexture(id, tex, w, h, filter != NEAREST,     *)
(* levels > 1, address_to_gl(wrap_to_address(shader->wrap))), less the     *)
(* filter flag.                                                            *)
LutCreate ==
  /\ lutPc = "create"
  /\ lut' = [levels    |-> cppLevels,
             mipmapped |-> cppLevels > 1,
             address   |-> AddressToGl(WrapToAddress[lutWrap])]
  /\ lutPc' = "done"
  /\ UNCHANGED <<width, height, lutMipmap, lutWrap, cppSize, cppLevels,
                 texVars>>

-----------------------------------------------------------------------------
(* The frontend path, gl_core_load_texture and video_texture_load_gl_core. *)

(* Mutant: the threaded switch without its MIPMAP_NEAREST case. *)
ThreadedFilterNoMipNearest(f) ==
  IF f = "MIPMAP_LINEAR" THEN "MIPMAP_LINEAR" ELSE "LINEAR"

(* The filter the threaded wrapper passes on: video_texture_load_wrap_     *)
(* gl_core_mipmap (MIPMAP_LINEAR) for both mipmap types, video_texture_    *)
(* load_wrap_gl_core (LINEAR) for the others.                              *)
ThreadedFilter(f) == IF f \in MipFilters THEN "MIPMAP_LINEAR" ELSE "LINEAR"

(* gl_core_load_texture picks the path, and video_texture_load_gl_core     *)
(* starts: levels = 1, and num_miplevels for a mipmap filter type.         *)
LoadTexture ==
  /\ texPc = "load"
  /\ LET f == IF threaded THEN ThreadedFilter(texFilter) ELSE texFilter
     IN  /\ loadFilter' = f
         /\ IF f \in MipFilters
              THEN /\ cWidth' = MaxOf(width, height)
                   /\ texPc' = "miplevels"
              ELSE /\ texPc' = "storage"
                   /\ UNCHANGED cWidth
  /\ cLevels' = 1
  /\ UNCHANGED <<width, height, texFilter, threaded, tex, lutVars>>

(* Mutant: the loop of gl_core.c without the shift. *)
CLoopNoShift ==
  /\ texPc = "miplevels"
  /\ cWidth > 1
  /\ cLevels' = cLevels + 1
  /\ UNCHANGED <<width, height, texFilter, threaded, texPc, loadFilter,
                 cWidth, tex, lutVars>>

(* One iteration of the loop of gl_core.c: while (width > 1). *)
CLoop ==
  /\ texPc = "miplevels"
  /\ cWidth > 1
  /\ cLevels' = cLevels + 1
  /\ cWidth' = cWidth \div 2
  /\ UNCHANGED <<width, height, texFilter, threaded, texPc, loadFilter, tex,
                 lutVars>>

(* The loop of gl_core.c ends: return levels. *)
CReturn ==
  /\ texPc = "miplevels"
  /\ cWidth <= 1
  /\ texPc' = "storage"
  /\ UNCHANGED <<width, height, texFilter, threaded, loadFilter, cWidth,
                 cLevels, tex, lutVars>>

(* Mutant: glGenerateMipmap only from three levels on. *)
GeneratesMipsFromThree(levels) == levels > 2

(* if (levels > 1) glGenerateMipmap(GL_TEXTURE_2D) *)
GeneratesMips(levels) == levels > 1

(* glTexStorage2D(levels), clamp-to-edge wrapping, the filters of the     *)
(* switch, the upload, and the mip generation; *idptr is the new texture.  *)
TexStorage ==
  /\ texPc = "storage"
  /\ tex' = [levels    |-> cLevels,
             min       |-> MinFilter[loadFilter],
             mag       |-> MagFilter[loadFilter],
             mipmapped |-> GeneratesMips(cLevels),
             address   |-> "GL_CLAMP_TO_EDGE"]
  /\ texPc' = "loaded"
  /\ UNCHANGED <<width, height, texFilter, threaded, loadFilter, cWidth,
                 cLevels, lutVars>>

(* gl_core_unload_texture(id): returns at once for id 0, otherwise         *)
(* glDeleteTextures.                                                       *)
UnloadTexture ==
  /\ texPc = "loaded"
  /\ \E id \in {0, TexId} :
       /\ id # 0
       /\ texPc' = "unloaded"
       /\ tex' = NoTexture
  /\ UNCHANGED <<width, height, texFilter, threaded, loadFilter, cWidth,
                 cLevels, lutVars>>

(* Both paths have finished. *)
Returned ==
  /\ lutPc = "done"
  /\ texPc \in {"loaded", "unloaded"}
  /\ UNCHANGED vars

Next ==
  \/ LutLevels \/ CppLoop \/ CppReturn \/ LutCreate
  \/ LoadTexture \/ CLoop \/ CReturn \/ TexStorage \/ UnloadTexture
  \/ Returned

Spec == Init /\ [][Next]_vars

-----------------------------------------------------------------------------
(* A complete mip chain of an image whose larger side is m >= 1 halves     *)
(* (rounding down) until it is one texel: it has the L levels with         *)
(* 2^(L-1) <= m < 2^L.                                                     *)
FullChainLevels(m) == CHOOSE l \in 1 .. m + 1 : 2^(l - 1) <= m /\ m < 2^l

(* The level count the spec gives: ceil(log2(max(w, h))) + 1. *)
SpecLevels(m) == CHOOSE l \in 1 .. m + 1 : 2^(l - 1) >= m /\ (l = 1 \/ 2^(l - 2) < m)

Addresses == {"none", "GL_CLAMP_TO_EDGE", "GL_CLAMP_TO_BORDER", "GL_REPEAT",
              "GL_MIRRORED_REPEAT"}

Luts == [levels : 0 .. MaxDim + 1, mipmapped : BOOLEAN, address : Addresses]

Textures == [levels : 0 .. MaxDim + 1,
             min : {"none", "GL_LINEAR", "GL_NEAREST"} \cup MipMinFilters,
             mag : {"none", "GL_LINEAR", "GL_NEAREST"},
             mipmapped : BOOLEAN,
             address : Addresses]

TypeOK ==
  /\ width \in 0 .. MaxDim /\ height \in 0 .. MaxDim
  /\ cppSize \in 0 .. MaxDim /\ cWidth \in 0 .. MaxDim
  /\ cppLevels \in 0 .. MaxDim + 1 /\ cLevels \in 1 .. MaxDim + 1
  /\ lutPc \in {"levels", "miplevels", "create", "done"}
  /\ texPc \in {"load", "miplevels", "storage", "loaded", "unloaded"}
  /\ loadFilter \in Filters
  /\ lut \in Luts /\ tex \in Textures

(* When each num_miplevels loop has returned on a non-empty image, its     *)
(* level count is that of a complete mip chain: a texture allocated with   *)
(* it can hold every level glGenerateMipmap writes, and no level beyond    *)
(* the 1x1 one.                                                            *)
MipLevelsFullChain ==
  LET m == MaxOf(width, height) IN
  m >= 1 =>
    /\ (lutMipmap /\ lutPc \in {"create", "done"}) =>
          cppLevels = FullChainLevels(m)
    /\ (texPc \in {"storage", "loaded"} /\ loadFilter \in MipFilters) =>
          cLevels = FullChainLevels(m)

(* Threaded or not, a frontend texture loaded with a mipmap filter type is *)
(* sampled through its mip chain and that chain is complete and generated; *)
(* one loaded with another type has a single level.  This ties the        *)
(* request to the wrapper the threaded path chooses, the level loop, the   *)
(* storage and the glGenerateMipmap guard.                                 *)
MipmapRequestGetsFullChain ==
  LET m == MaxOf(width, height) IN
  (m >= 1 /\ texPc = "loaded") =>
    IF texFilter \in MipFilters
      THEN /\ tex.min \in MipMinFilters
           /\ tex.levels = FullChainLevels(m)
           /\ tex.mipmapped = (tex.levels > 1)
      ELSE /\ tex.min \notin MipMinFilters
           /\ tex.levels = 1

(* The GL wrap mode of each wrap a preset may declare for a LUT: the       *)
(* spec's ClampEdge, ClampBorder, Repeat and MirroredRepeat.               *)
PresetWrapGL == [edge            |-> "GL_CLAMP_TO_EDGE",
                 border          |-> "GL_CLAMP_TO_BORDER",
                 repeat          |-> "GL_REPEAT",
                 mirrored_repeat |-> "GL_MIRRORED_REPEAT"]

(* A LUT texture gl_core_filter_chain_load_lut hands to the chain samples  *)
(* as its preset entry declares: with the wrap mode asked for, through the *)
(* two switches wrap_to_address and address_to_gl and their defaults, and  *)
(* mipmapped with its full chain exactly when it asks for mipmaps and is   *)
(* larger than one texel (num_miplevels, storage, the levels > 1 guard).   *)
LutSampledAsDeclared ==
  LET m == MaxOf(width, height) IN
  lutPc = "done" =>
    /\ lut.address = PresetWrapGL[lutWrap]
    /\ lut.mipmapped = (lutMipmap /\ m > 1)
    /\ lut.mipmapped => lut.levels = FullChainLevels(m)

(* The level count of shader_gl_core.cpp's loop is the spec's              *)
(* ceil(log2(max(w, h))) + 1 (Framebuffer, section 4.1 of the spec).       *)
MipLevelsMatchSpec ==
  LET m == MaxOf(width, height) IN
  (m >= 1 /\ lutMipmap /\ lutPc \in {"create", "done"}) =>
    cppLevels = SpecLevels(m)
=============================================================================
