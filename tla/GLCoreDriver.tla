---------------------------- MODULE GLCoreDriver ----------------------------
(***************************************************************************)
(* The glcore video driver of gl_core.c (the second, current revision of   *)
(* the file): the callbacks the frontend calls on the video thread and     *)
(* what they do to the driver's state, the filter chain it owns, the GL    *)
(* textures it allocates and the ring of streamed input textures.          *)
(*                                                                         *)
(* The filter chain is abstracted to which chain is installed ("stock",    *)
(* "preset" or NULL); creating one is an external step that may fail.      *)
(* The GPU is left out: GL orders a texture upload after the draws queued  *)
(* before it, so rewriting a ring slot a queued frame reads is not a       *)
(* hazard the driver has to guard against.                                 *)
(***************************************************************************)
EXTENDS Naturals, Sequences, FiniteSets, Functions, Bitwise

CONSTANTS
  GL_CORE_NUM_TEXTURES,  \* the streamed texture ring's size
  FrameSizes,            \* the sizes [w, h] of emulated frames
  NULL                   \* a NULL gl->filter_chain

ASSUME GL_CORE_NUM_TEXTURES \in {1, 2, 4, 8}
ASSUME NULL \notin {"stock", "preset"}

VARIABLES
  drv,           \* "none" before gl_core_init / after gl_core_free, else "live"
  filterChain,   \* gl->filter_chain: "stock", "preset" or NULL
  liveChains,    \* filter chains created and not yet freed
  liveTextures,  \* GL textures generated and not yet deleted
  textures,      \* gl->textures[]: [tex, width, height] per ring slot
  texturesIndex, \* gl->textures_index
  menuTexture,   \* gl->menu_texture != 0
  menuEnable,    \* gl->menu_texture_enable
  menuFullScreen,\* gl->menu_texture_full_screen
  quitting,      \* gl->quitting
  shouldResize,  \* gl->should_resize
  keepAspect,    \* gl->keep_aspect
  swapInterval,  \* the interval last passed to the context driver
  lastRet,       \* what the last callback returned to the frontend
  lastFrame,     \* what the last gl_core_frame did: the filter chain it
                 \* drew with, the frame's size, the size of the input
                 \* texture it handed to the chain, whether it drew the
                 \* menu texture
  pipelines,     \* the gl->pipelines programs that are nonzero
  livePrograms,  \* GL programs compiled and not yet deleted
  vao,           \* gl->vao != 0
  liveVaos       \* vertex arrays generated and not yet deleted

vars == <<drv, filterChain, liveChains, liveTextures, textures, texturesIndex,
          menuTexture, menuEnable, menuFullScreen, quitting,
          shouldResize, keepAspect, swapInterval, lastRet,
          lastFrame, pipelines, livePrograms, vao, liveVaos>>

glObjVars == <<pipelines, livePrograms, vao, liveVaos>>

Slots == 0 .. GL_CORE_NUM_TEXTURES - 1
(* A ring slot: whether its texture exists, and its size. *)
NoTexture == [tex |-> FALSE, width |-> 0, height |-> 0]
NoSize == [w |-> 0, h |-> 0]

Init ==
  /\ drv = "none"
  /\ filterChain = NULL
  /\ liveChains = 0
  /\ liveTextures = 0
  /\ textures = [s \in Slots |-> NoTexture]
  /\ texturesIndex = 0
  /\ menuTexture = FALSE
  /\ menuEnable = FALSE
  /\ menuFullScreen = FALSE
  /\ quitting = FALSE
  /\ shouldResize = FALSE
  /\ keepAspect = FALSE
  /\ swapInterval = "zero"
  /\ lastRet = "void"
  /\ lastFrame = [chain |-> "stock", frame |-> NoSize, input |-> NoSize,
                  menu |-> FALSE]
  /\ pipelines = {}
  /\ livePrograms = 0
  /\ vao = FALSE
  /\ liveVaos = 0

-----------------------------------------------------------------------------
(* Filter-chain creation.                                                  *)

(* gl_core_init_default_filter_chain: the stock chain, or NULL when        *)
(* gl_core_filter_chain_create_default fails.                              *)
StockOutcomes == {"stock", NULL}

(* gl_core_init_filter_chain: the chain installed and the function's       *)
(* result, for the shader type of the configured preset.  A NONE or        *)
(* non-slang type loads the stock chain and returns its result; a failed   *)
(* slang preset falls back to the stock chain, whose result is ignored.    *)
InitFilterChain(type) ==
  IF type = "slang"
  THEN {[chain |-> "preset", ok |-> TRUE]}
         \cup {[chain |-> c, ok |-> TRUE] : c \in StockOutcomes}
  ELSE {[chain |-> c, ok |-> c # NULL] : c \in StockOutcomes}

(* gl_core_set_shader's chain and result: no path loads the stock chain    *)
(* and returns true whatever happened; a preset that fails to load falls   *)
(* back to the stock chain and returns false.                              *)
SetShaderOutcomes(path) ==
  IF path
  THEN {[chain |-> "preset", ok |-> TRUE]}
         \cup {[chain |-> c, ok |-> FALSE] : c \in StockOutcomes}
  ELSE {[chain |-> c, ok |-> TRUE] : c \in StockOutcomes}

Created(c) == IF c = NULL THEN 0 ELSE 1

(* A C bool as returned to the frontend. *)
Bool(b) == IF b THEN "true" ELSE "false"

-----------------------------------------------------------------------------
(* The callbacks.  Each one but gl_core_init is called on a live driver.   *)

(* The programs gl_core_init_pipelines cross-compiles, in this order; it   *)
(* returns false at the first one that fails.                              *)
MenuPipelines == <<"alpha_blend", "font", "ribbon_simple", "ribbon", "bokeh",
                   "snow_simple", "snow">>

(* The first k programs of a pipeline list. *)
CompiledPipelines(pipes, k) == {pipes[n] : n \in 1 .. k}

(* Mutant: destroy_resources without the bokeh program. *)
DestroyedPipelinesNoBokeh ==
  {"alpha_blend", "font", "ribbon", "ribbon_simple", "snow_simple", "snow"}

(* The gl->pipelines programs gl_core_destroy_resources deletes, each when *)
(* it is nonzero.                                                          *)
DestroyedPipelines ==
  {"alpha_blend", "font", "ribbon", "ribbon_simple", "snow_simple", "snow",
   "bokeh"}

(* GL programs left behind when destroy_resources runs on a gl whose       *)
(* nonzero pipeline fields are ps.                                         *)
ProgramsLeft(ps) == Cardinality(ps \ DestroyedPipelines)

(* gl_core_init fails before it creates the filter chain: no context       *)
(* driver, the video mode, the "null" context, or the menu pipelines,      *)
(* after compiling the programs before the one that failed.  goto error    *)
(* runs gl_core_destroy_resources on the calloc'd gl_core_t; NULL is       *)
(* returned.  pipes is the revision's list of menu pipelines.              *)
GlCoreInitFailsWith(pipes) ==
  /\ drv = "none"
  /\ \E made \in {0} \cup (0 .. Len(pipes) - 1) :
       livePrograms' = livePrograms
                        + ProgramsLeft(CompiledPipelines(pipes, made))
  /\ lastRet' = "NULL"
  /\ UNCHANGED <<drv, filterChain, liveChains, liveTextures, textures,
                 texturesIndex, menuTexture, menuEnable,
                 menuFullScreen, quitting, shouldResize, keepAspect,
                 swapInterval, lastFrame, pipelines, vao, liveVaos>>

GlCoreInitFails == GlCoreInitFailsWith(MenuPipelines)

(* gl_core_init with every menu pipeline compiled, reaching                *)
(* gl_core_init_filter_chain on a calloc'd gl_core_t (zeroed ring, index   *)
(* 0, no menu texture).  When the chain reports failure, goto error runs   *)
(* gl_core_destroy_resources, which frees any chain that was made and the  *)
(* programs; otherwise the vertex array is generated and gl returned.      *)
GlCoreInitWith(pipes) ==
  /\ drv = "none"
  /\ \E type \in {"none", "glsl", "slang"}, forceAspect, vsync \in BOOLEAN :
     \E r \in InitFilterChain(type) :
       LET compiled == CompiledPipelines(pipes, Len(pipes))
       IN
       /\ drv' = IF r.ok THEN "live" ELSE "none"
       /\ filterChain' = IF r.ok THEN r.chain ELSE NULL
       /\ liveChains' = liveChains + (IF r.ok THEN Created(r.chain) ELSE 0)
       /\ pipelines' = IF r.ok THEN compiled ELSE {}
       /\ livePrograms' = livePrograms + (IF r.ok THEN Cardinality(compiled)
                                          ELSE ProgramsLeft(compiled))
       /\ vao' = r.ok
       /\ liveVaos' = liveVaos + (IF r.ok THEN 1 ELSE 0)
       /\ keepAspect' = (r.ok /\ forceAspect)
       /\ swapInterval' = IF vsync THEN "swap_interval" ELSE "zero"
       /\ lastRet' = IF r.ok THEN "gl" ELSE "NULL"
  /\ UNCHANGED <<liveTextures, textures, texturesIndex, menuTexture, menuEnable, menuFullScreen, quitting,
                 shouldResize, lastFrame>>

GlCoreInit == GlCoreInitWith(MenuPipelines)

(* gl_core_destroy_resources: frees the filter chain, deletes the streamed *)
(* textures, the menu texture, the vertex array and the menu pipelines,   *)
(* and frees gl, whose fields are gone with it.                            *)
DestroyResources ==
  /\ filterChain' = NULL
  /\ liveChains' = liveChains - Created(filterChain)
  /\ liveTextures' = liveTextures
                      - Cardinality({s \in Slots : textures[s].tex})
                      - (IF menuTexture THEN 1 ELSE 0)
  /\ textures' = [s \in Slots |-> NoTexture]
  /\ texturesIndex' = 0
  /\ menuTexture' = FALSE
  /\ menuEnable' = FALSE
  /\ menuFullScreen' = FALSE
  /\ quitting' = FALSE
  /\ shouldResize' = FALSE
  /\ keepAspect' = FALSE
  /\ vao' = FALSE
  /\ liveVaos' = liveVaos - (IF vao THEN 1 ELSE 0)
  /\ pipelines' = {}
  /\ livePrograms' = livePrograms - Cardinality(pipelines \cap DestroyedPipelines)

(* gl_core_free: frees the OSD font, destroys the context, then           *)
(* gl_core_destroy_resources.                                              *)
GlCoreFree ==
  /\ drv = "live"
  /\ drv' = "none"
  /\ DestroyResources
  /\ lastRet' = "void"
  /\ UNCHANGED <<swapInterval, lastFrame>>

(* gl_core_set_shader: a path of another type than slang is dropped, and   *)
(* the old chain is freed before the new one is made.                      *)
SetShader ==
  /\ drv = "live"
  /\ \E type \in {"glsl", "slang"}, hasPath \in BOOLEAN :
       \E r \in SetShaderOutcomes(hasPath /\ type = "slang") :
          /\ filterChain' = r.chain
          /\ liveChains' = liveChains - Created(filterChain) + Created(r.chain)
          /\ lastRet' = Bool(r.ok)
  /\ UNCHANGED <<glObjVars,
                 drv, liveTextures, textures, texturesIndex, menuTexture, menuEnable, menuFullScreen, quitting,
                 shouldResize, keepAspect, swapInterval, lastFrame>>

(* A reallocation test that compares the width only.                      *)
NeedsReallocWidthOnly(slot, size) == size.w # slot.width

(* gl_core_update_cpu_texture reallocates the slot's texture when the      *)
(* frame's size differs from the slot's.                                   *)
NeedsRealloc(slot, size) ==
  size.w # slot.width \/ size.h # slot.height

(* A reallocation that generates a texture without deleting the old one.   *)
UpdateCpuTextureNoDelete(slot, size) ==
  IF NeedsRealloc(slot, size)
  THEN [slot |-> [slot EXCEPT !.tex = TRUE, !.width = size.w, !.height = size.h],
        delta |-> 1]
  ELSE [slot |-> slot, delta |-> 0]

(* The slot after the upload, and the change in generated GL textures:     *)
(* the old texture, if any, is deleted before a new one is generated.      *)
UpdateCpuTexture(slot, size) ==
  IF NeedsRealloc(slot, size)
  THEN [slot |-> [slot EXCEPT !.tex = TRUE, !.width = size.w, !.height = size.h],
        delta |-> IF slot.tex THEN 0 ELSE 1]
  ELSE [slot |-> slot, delta |-> 0]

(* A ring advance that does not wrap. *)
NextTexturesIndexNoWrap(i) == i + 1

(* gl->textures_index advances through the ring by masking.                *)
NextTexturesIndex(i) == (i + 1) & (GL_CORE_NUM_TEXTURES - 1)

(* gl_core_frame's menu step: with the menu texture enabled, the menu      *)
(* driver renders (menu_driver_frame), which may upload a new menu frame   *)
(* through gl_core_set_texture_frame and change the enable flag through    *)
(* gl_core_set_texture_enable; the texture is drawn only if, after that,   *)
(* it is still enabled and exists.                                         *)
DrawMenuTexture(enable, tex) == enable /\ tex

(* gl_core_frame: upload into the current ring slot, hand that slot to the *)
(* filter chain (without looking at whether the chain is NULL), draw, the  *)
(* menu step, swap buffers, advance the ring, return true.                 *)
Frame ==
  /\ drv = "live"
  /\ \E size \in FrameSizes, upload \in BOOLEAN, enable \in BOOLEAN :
       LET up      == UpdateCpuTexture(textures[texturesIndex], size)
           menuTex == menuTexture \/ (menuEnable /\ upload)
           menuOn  == IF menuEnable THEN enable ELSE FALSE
       IN  /\ textures' = [textures EXCEPT ![texturesIndex] =
                              up.slot]
           /\ menuTexture' = menuTex
           /\ menuEnable' = menuOn
           /\ liveTextures' = liveTextures + up.delta
                               + (IF menuTex /\ ~menuTexture THEN 1 ELSE 0)
           /\ lastFrame' = [chain |-> filterChain,
                            frame |-> size,
                            input |-> [w |-> up.slot.width, h |-> up.slot.height],
                            menu  |-> DrawMenuTexture(menuOn, menuTex)]
  /\ texturesIndex' = NextTexturesIndex(texturesIndex)
  /\ lastRet' = Bool(TRUE)
  /\ UNCHANGED <<glObjVars,
                 drv, filterChain, liveChains, menuFullScreen, quitting,
                 shouldResize, keepAspect, swapInterval>>

(* gl_core_alive: a quit request sets quitting, else a resize request sets *)
(* should_resize; returns !quitting.                                       *)
Alive ==
  /\ drv = "live"
  /\ \E quit \in BOOLEAN, resize \in BOOLEAN :
       /\ quitting' = (quitting \/ quit)
       /\ shouldResize' = (shouldResize \/ (~quit /\ resize))
       /\ lastRet' = Bool(~quitting')
  /\ UNCHANGED <<glObjVars,
                 drv, filterChain, liveChains, liveTextures, textures,
                 texturesIndex, menuTexture, menuEnable,
                 menuFullScreen, keepAspect, swapInterval, lastFrame>>

(* gl_core_set_nonblock_state: vsync off sets swap interval 0, on sets the *)
(* configured interval.                                                    *)
SetNonblockState ==
  /\ drv = "live"
  /\ \E state \in BOOLEAN :
       swapInterval' = IF state THEN "zero" ELSE "swap_interval"
  /\ lastRet' = "void"
  /\ UNCHANGED <<glObjVars,
                 drv, filterChain, liveChains, liveTextures, textures,
                 texturesIndex, menuTexture, menuEnable,
                 menuFullScreen, quitting, shouldResize, keepAspect,
                 lastFrame>>

(* gl_core_set_aspect_ratio sets keep_aspect and should_resize;            *)
(* gl_core_apply_state_changes sets should_resize.                         *)
SetAspectRatio ==
  /\ drv = "live"
  /\ keepAspect' = TRUE
  /\ shouldResize' = TRUE
  /\ lastRet' = "void"
  /\ UNCHANGED <<glObjVars,
                 drv, filterChain, liveChains, liveTextures, textures,
                 texturesIndex, menuTexture, menuEnable,
                 menuFullScreen, quitting, swapInterval, lastFrame>>

ApplyStateChanges ==
  /\ drv = "live"
  /\ shouldResize' = TRUE
  /\ lastRet' = "void"
  /\ UNCHANGED <<glObjVars,
                 drv, filterChain, liveChains, liveTextures, textures,
                 texturesIndex, menuTexture, menuEnable,
                 menuFullScreen, quitting, keepAspect, swapInterval,
                 lastFrame>>

(* gl_core_set_texture_frame: deletes the old menu texture, if any, and    *)
(* generates and fills a new one.                                          *)
SetTextureFrame ==
  /\ drv = "live"
  /\ menuTexture' = TRUE
  /\ liveTextures' = liveTextures + (IF menuTexture THEN 0 ELSE 1)
  /\ lastRet' = "void"
  /\ UNCHANGED <<glObjVars,
                 drv, filterChain, liveChains, textures, texturesIndex,
                 menuEnable, menuFullScreen, quitting,
                 shouldResize, keepAspect, swapInterval, lastFrame>>

(* gl_core_set_texture_enable stores both flags.                           *)
SetTextureEnable ==
  /\ drv = "live"
  /\ \E state \in BOOLEAN, fullScreen \in BOOLEAN :
       /\ menuEnable' = state
       /\ menuFullScreen' = fullScreen
  /\ lastRet' = "void"
  /\ UNCHANGED <<glObjVars,
                 drv, filterChain, liveChains, liveTextures, textures,
                 texturesIndex, menuTexture, quitting,
                 shouldResize, keepAspect, swapInterval, lastFrame>>

Next ==
  \/ GlCoreInitFails \/ GlCoreInit \/ GlCoreFree \/ SetShader
  \/ Frame \/ Alive \/ SetNonblockState
  \/ SetAspectRatio \/ ApplyStateChanges
  \/ SetTextureFrame \/ SetTextureEnable

Spec == Init /\ [][Next]_vars

-----------------------------------------------------------------------------
(* Properties.                                                             *)

TypeOK ==
  /\ drv \in {"none", "live"}
  /\ filterChain \in {"stock", "preset", NULL}
  /\ liveChains \in Nat
  /\ liveTextures \in Nat
  /\ textures \in [Slots -> [tex : BOOLEAN, width : Nat, height : Nat]]
  /\ texturesIndex \in Slots
  /\ {menuTexture, menuEnable, menuFullScreen, quitting, shouldResize,
      keepAspect} \subseteq BOOLEAN
  /\ swapInterval \in {"zero", "swap_interval"}
  /\ lastRet \in {"gl", "NULL", "void", "true", "false"}
  /\ lastFrame.chain \in {"stock", "preset", NULL}
  /\ lastFrame.menu \in BOOLEAN
  /\ pipelines \subseteq Range(MenuPipelines)
  /\ livePrograms \in Nat /\ liveVaos \in Nat /\ vao \in BOOLEAN

(* gl_core_update_cpu_texture reallocates a ring slot whenever the frame's *)
(* size changed, so the input texture gl_core_frame hands to the filter    *)
(* chain always has the size of the frame just uploaded.                   *)
InputTextureFitsFrame == lastFrame.input = lastFrame.frame

(* No filter chain, GL texture, GL program or vertex array leaks across   *)
(* set_shader, frame, the menu texture, free/init cycles and every early   *)
(* failure of init (a menu pipeline that does not compile after others     *)
(* did, a filter chain that fails after all of them): what is allocated is *)
(* exactly what the driver still refers to.                                *)
NoResourceLeak ==
  /\ liveChains = Created(filterChain)
  /\ liveTextures = Cardinality({s \in Slots : textures[s].tex})
                      + (IF menuTexture THEN 1 ELSE 0)
  /\ livePrograms = Cardinality(pipelines)
  /\ liveVaos = IF vao THEN 1 ELSE 0

(* gl_core_frame passes gl->filter_chain to the filter-chain calls, which  *)
(* dereference it: every frame must draw with an existing chain.           *)
FrameHasChain == lastFrame.chain # NULL
=============================================================================
