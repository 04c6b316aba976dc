---------------------------- MODULE GLCoreLegacy ----------------------------
(***************************************************************************)
(* The first revision of the glcore driver, gl_core.c lines 1-917, which  *)
(* the file keeps ahead of the current one.  It has no menu texture and   *)
(* no menu pipelines; every other callback it has (alive, nonblock,       *)
(* set_shader, update_cpu_texture, set_aspect_ratio, apply_state_changes, *)
(* init_filter_chain) is the same code, line for line, as the current     *)
(* revision's, and is taken from GLCoreDriver, whose menu fields this     *)
(* revision's gl_core_t does not have: they stay FALSE.  What differs is  *)
(* written here: the frame without its menu step, and destroy_resources   *)
(* without the menu texture.                                              *)
(***************************************************************************)
EXTENDS Naturals, Sequences, FiniteSets

CONSTANTS GL_CORE_NUM_TEXTURES, FrameSizes, NULL

VARIABLES drv, filterChain, liveChains, liveTextures, textures, texturesIndex,
          quitting, shouldResize, keepAspect, swapInterval, lastRet, lastFrame,
          menuTexture, menuEnable, menuFullScreen, \* always FALSE here
          pipelines, livePrograms,                  \* always {} and 0 here
          vao, liveVaos

menuVars == <<menuTexture, menuEnable, menuFullScreen>>

vars == <<drv, filterChain, liveChains, liveTextures, textures, texturesIndex,
          quitting, shouldResize, keepAspect, swapInterval, lastRet,
          lastFrame, menuVars, pipelines, livePrograms, vao,
          liveVaos>>

Current == INSTANCE GLCoreDriver

Init == Current!Init

(* gl_core_init: the same steps as the current revision's, less the menu  *)
(* pipelines and the OSD font; it fails before the filter chain (no       *)
(* context, the video mode, the "null" context) or on the chain's result. *)
GlCoreInitFails == Current!GlCoreInitFailsWith(<<>>)
GlCoreInit == Current!GlCoreInitWith(<<>>)

(* gl_core_destroy_resources: frees the filter chain and deletes the      *)
(* vertex array and the streamed textures; there is no menu texture and   *)
(* there are no menu pipelines.                                           *)
DestroyResources ==
  /\ filterChain' = NULL
  /\ liveChains' = liveChains - Current!Created(filterChain)
  /\ liveTextures' = liveTextures
                      - Cardinality({s \in Current!Slots : textures[s].tex})
  /\ textures' = [s \in Current!Slots |-> Current!NoTexture]
  /\ texturesIndex' = 0
  /\ quitting' = FALSE
  /\ shouldResize' = FALSE
  /\ keepAspect' = FALSE
  /\ vao' = FALSE
  /\ liveVaos' = liveVaos - (IF vao THEN 1 ELSE 0)
  /\ UNCHANGED <<menuVars, pipelines, livePrograms>>

GlCoreFree ==
  /\ drv = "live"
  /\ drv' = "none"
  /\ DestroyResources
  /\ lastRet' = "void"
  /\ UNCHANGED <<swapInterval, lastFrame>>

SetShader == Current!SetShader
Alive == Current!Alive
SetNonblockState == Current!SetNonblockState
SetAspectRatio == Current!SetAspectRatio
ApplyStateChanges == Current!ApplyStateChanges

(* gl_core_frame of this revision, for a slot update and a ring advance:  *)
(* upload into the current slot, hand it to the filter chain, draw, swap  *)
(* buffers, advance the ring, return true.                                *)
FrameStep(Update(_, _), Advance(_)) ==
  /\ drv = "live"
  /\ \E size \in FrameSizes :
       LET up == Update(textures[texturesIndex], size)
       IN  /\ textures' = [textures EXCEPT ![texturesIndex] = up.slot]
           /\ liveTextures' = liveTextures + up.delta
           /\ lastFrame' = [chain |-> filterChain, frame |-> size,
                            input |-> [w |-> up.slot.width, h |-> up.slot.height],
                            menu  |-> FALSE]
  /\ texturesIndex' = Advance(texturesIndex)
  /\ lastRet' = Current!Bool(TRUE)
  /\ UNCHANGED <<drv, filterChain, liveChains, quitting, shouldResize,
                 keepAspect, swapInterval, menuVars, pipelines,
                 livePrograms, vao, liveVaos>>

(* Mutants of gl_core_frame: a ring index that never wraps, a            *)
(* reallocation that does not delete the old texture.                     *)
FrameNoWrap == FrameStep(Current!UpdateCpuTexture, Current!NextTexturesIndexNoWrap)
FrameNoDelete ==
  FrameStep(Current!UpdateCpuTextureNoDelete, Current!NextTexturesIndex)

Frame == FrameStep(Current!UpdateCpuTexture, Current!NextTexturesIndex)

Next ==
  \/ GlCoreInitFails \/ GlCoreInit \/ GlCoreFree \/ SetShader
  \/ Frame \/ Alive \/ SetNonblockState
  \/ SetAspectRatio \/ ApplyStateChanges

Spec == Init /\ [][Next]_vars

-----------------------------------------------------------------------------
(* Properties: those of the current revision, for this one.               *)

TypeOK == Current!TypeOK

(* No filter chain, GL texture or vertex array leaks across init,        *)
(* set_shader, frame and free.                                             *)
NoResourceLeak == Current!NoResourceLeak
=============================================================================
