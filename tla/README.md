# TLA+ models of RetroArch's glcore video driver and slang filter-chain loader

This directory holds TLA+ models of the OpenGL core-profile ("glcore") video driver in this
repository. Each model is checked with TLC. The code modelled is:

| file | what it is |
|---|---|
| `src/gfx/drivers_shader/shader_gl_core.cpp` | The slang filter-chain library. It holds the class declarations (StaticTexture, Framebuffer, Pass, CommonResources, `gl_core_filter_chain`), the format/address tables and `num_miplevels`, `gl_core_filter_chain_create_from_preset` with the LUT loading it calls, and C wrappers that forward to the chain's methods. The method bodies themselves are not in the repository. |
| `src/gfx/drivers/gl_core.c` | The driver. The file holds two revisions one after the other: an older one (lines 1–917) and the current one (918–2202), which adds the menu texture and menu pipelines. Both are modelled: `GLCoreDriver` and `Viewport` model the current one, and `GLCoreLegacy` the older one. |
| `src/gfx/drivers/gl_modern.c` | A skeleton driver. Its `set_shader` always fails and its frame only clears and swaps. It also contains a GLSL shader. |
| `src/qb/config.params.sh`, `gl_shaders/*.h` | Build options and shader source. |

## How the parts interact

The frontend drives the driver through callbacks on the video thread, in this order:

1. **Init.** `gl_core_init` creates the context. It then asks `gl_core_init_filter_chain` for a filter chain. A slang preset gives `gl_core_filter_chain_create_from_preset`; everything else gives the stock chain.
2. **Per frame.** The frontend calls `gl_core_alive` and then `gl_core_frame`. The frame:
   - uploads the emulated frame into one slot of a four-slot ring of streamed textures;
   - fits the viewport (`gl_core_set_viewport`);
   - hands the slot to the chain (`set_input_texture`, `build_offscreen_passes`, `build_viewport_pass`, `end_frame`);
   - draws the menu texture, swaps buffers and advances the ring.
3. **Between frames.** The frontend may call:
   - `gl_core_set_shader`, which replaces the chain;
   - `set_aspect_ratio`, `set_rotation`, `set_nonblock_state`;
   - `set_texture_frame` / `set_texture_enable` for the menu texture;
   - `viewport_info`.
4. **Teardown.** `gl_core_free` releases everything.

The GPU runs the submitted frames asynchronously. GL orders each texture upload after the draws queued before it, so the driver can reuse a ring slot without a fence.

## Inventory

| component | state | operations | hard behaviour |
|---|---|---|---|
| Preset loader (`create_from_preset`, `load_luts`, `load_lut`) | The preset read, the LUT textures, the `#pragma parameter` table (`shader->parameters`, `num_parameters`), the per-pass `pass_info`, and the chain under construction | Read, load LUT, compile pass, add parameter, set pass info, append blit pass, resolve parameters, init | Ten early returns; capacity check before duplicate search; `strlcpy` truncation compared against untruncated ids and descriptions; the last-pass and next-pass lookahead |
| GL texture creation (`load_lut`'s texture, `gl_core_load_texture`, `video_texture_load_gl_core`, the threaded wrappers, `gl_core_unload_texture`), with the two `num_miplevels` copies | The image size, the level-loop locals, the filter type passed on, the texture made | LUT levels/storage/StaticTexture; load (threaded or not), level loop, storage, filters, mip generation; unload | Zero size, powers of two; the threaded wrappers narrowing four filter types to two; the `levels > 1` guard on mip generation |
| Format and address conversions (`convert_glslang_format`, `wrap_to_address`, `address_to_gl`) | None: pure tables | — | Default cases that map an unknown format to 0 and an unknown wrap to clamp-to-edge |
| Driver lifetime and chain ownership | `gl->filter_chain`, `gl->textures[]`, `textures_index`, menu texture, `gl->pipelines`, `gl->vao`, flags | init, free, set_shader, frame, alive, nonblock, aspect, apply_state_changes, set_texture_frame, set_texture_enable | Error paths in init, including a menu pipeline failing after others compiled; the stock fallback's result ignored; the old chain freed before the new one exists; a ring slot reallocated when the frame size changes |
| Viewport and projection | `gl->vp`, `vp_out`, `filter_chain_vp`, `rotation`, matrices | set_viewport (frame and wrapper), set_projection, set_rotation, viewport_info | Float rounding of margins; the `RARCH_MOBILE` y doubling; viewport_info's unsigned subtraction stored into a signed y |
| Older revision of gl_core.c (1–917) | As the current driver, without the menu texture | init, free, set_shader, frame, alive, nonblock, aspect, apply_state_changes, viewport callbacks | The same chain and texture ownership, and the same NULL-chain fallback at 323, 635 and 642 |
| Filter-chain runtime (Pass, Framebuffer, history/feedback) | Declared in the header part of the .cpp | Bodies not in the repository | History ring and feedback swap, framebuffer resize |
| gl_modern stub, debug callback, context selection, GL uploads, build script | None that matters | I/O only | None |

## Modules

Each model is a module `X.tla` with its specification (`Init`, one action per step or callback, `Next`,
`Spec`) and its properties. It has an `MC_X.tla` that gives the constants their values, and `.cfg` files for the runs.
`PROJECT.json` maps every definition that models code to the source lines it translates.

### `GLCoreFormats` — the conversion switches (shader_gl_core.cpp 110–191)

This module has no state. It holds `convert_glslang_format`, `wrap_to_address` and `address_to_gl`, each a function over the cases its switch names, with the `default:` value for everything else. `PresetLoader` and `TextureLoad` both EXTEND it.

### `PresetLoader` — `gl_core_filter_chain_create_from_preset` (shader_gl_core.cpp 509–826)

The function is a step machine, and `pc` names the step about to run. Each action is one step of
the function, in the code's order. Every `return nullptr` is a step to `pc = "failed"`, and `failedAt` records which step failed. The steps are:

- `ReadPreset`: config parse, `read_conf`, `last_pass_is_fbo`;
- `LoadLut`: one iteration of `load_luts`;
- `CompilePass`: glslang compile and its reflection;
- `ParamStep`: one iteration of the parameter loop, with four outcomes (table full, mismatched duplicate, identical duplicate bound to `itr`, new parameter stored with `strlcpy`);
- `FinishPass`: the `pass_info` of the pass (scale types, render-target format, source filter, mip filter, max levels, address mode);
- `AppendBlitPass`: the opaque blit pass when the last pass renders to an FBO;
- `ResolveParameters`, `InitChain`.

The inputs are chosen nondeterministically in `Init` or in the step that reads them:

- the preset (a sequence of pass configurations and a LUT count);
- the parameters each shader declares;
- the format its reflection reports;
- the outcome of every external call.

Ids and descriptions are short sequences of characters, so truncation is real.

### `TextureLoad` — turning a decoded image into a GL texture

Two paths run side by side on the same image size `(width, height)`:

- **The LUT path** (`gl_core_filter_chain_load_lut`, shader_gl_core.cpp 513–540, after `image_texture_load` has succeeded). `LutLevels` picks `num_miplevels(w, h)` or 1 from `shader->mipmap`. `CppLoop`/`CppReturn` run the loop of shader_gl_core.cpp 58–67 one iteration per step. `LutCreate` is the storage, upload, `glGenerateMipmap` and the `StaticTexture` with its `mipmapped = levels > 1` and its wrap `address_to_gl(wrap_to_address(shader->wrap))`.
- **The frontend path** (gl_core.c 1929–2058). `LoadTexture` is `gl_core_load_texture`: with a threaded video driver the filter type is replaced by the fixed one of `video_texture_load_wrap_gl_core_mipmap` or `video_texture_load_wrap_gl_core` (`ThreadedFilter`). `video_texture_load_gl_core` then starts with one level. `CLoop`/`CReturn` are the loop of gl_core.c 1929–1940. `TexStorage` is the storage, the min/mag filters of the switch (`MinFilter`, `MagFilter`), the upload and the `levels > 1` guard on `glGenerateMipmap`. `UnloadTexture` is `gl_core_unload_texture`, which returns at once for id 0.

`lutPc` and `texPc` record where each path is. The texture each produces is a record of its level count, whether mips were generated and its wrap mode, and for the frontend texture its min/mag filters. The LUT's filter flag is left out: it is handed to the `StaticTexture` class, whose body is not in the repository.

### `GLCoreDriver` — the driver callbacks (gl_core.c 967–2133)

State:

- `drv` is none or live.
- `filterChain` is `"stock"`, `"preset"` or `NULL`.
- `liveChains` and `liveTextures` count what was created and not yet freed.
- `textures` is the ring (`tex`, `width`, `height` per slot), and `texturesIndex` is the ring index.
- The flags of `gl_core_t`.
- `pipelines` is the set of `gl->pipelines` programs that are nonzero, and `vao` says whether `gl->vao` is. `livePrograms` and `liveVaos` count the programs and vertex arrays created and not yet deleted.

Actions:

- one per callback: `GlCoreInit`, `GlCoreInitFails`, `GlCoreFree` (through `DestroyResources`), `SetShader`, `Frame`, `Alive`, `SetNonblockState`, `SetAspectRatio`, `ApplyStateChanges`, `SetTextureFrame`, `SetTextureEnable`.

The GPU is not modelled. GL orders an upload into a texture after the draws already queued that read it, so the code needs no fence for the ring, and no property depends on when the GPU finishes a frame.

`GlCoreInitFails` is every early return of `gl_core_init` before the filter chain. That includes `gl_core_init_pipelines` stopping at one of its seven programs (`MenuPipelines`, in compile order) after compiling those before it. `goto error` then runs `gl_core_destroy_resources`, which deletes each nonzero program of `DestroyedPipelines`. `GlCoreInit` compiles all seven. If the filter chain then fails, the same error path runs; otherwise the vertex array is generated. Both actions take the pipeline list as a parameter (`GlCoreInitWith`, `GlCoreInitFailsWith`), because the older revision has no menu pipelines.

`Frame` includes the menu step. When the menu texture is enabled, `menu_driver_frame` runs. It may
call back into `gl_core_set_texture_frame` and `gl_core_set_texture_enable`, which is why the
code re-checks the flag before `gl_core_draw_menu_texture`.

Chain creation is abstracted to its possible outcomes:

- `InitFilterChain` covers stock, preset, or NULL, with the function's return value.
- `SetShaderOutcomes` covers the same for `gl_core_set_shader`.

### `GLCoreLegacy` — the older revision (gl_core.c 1–917)

This revision's `gl_core_t` has no menu texture. Its `init`, `free`, `set_shader`, `alive`,
`set_nonblock_state`, `update_cpu_texture`, `set_aspect_ratio`, `apply_state_changes` and
`init_filter_chain` are the same code, line for line, as the current revision's. The module
takes them from `GLCoreDriver` through `Current == INSTANCE GLCoreDriver`; its menu variables
always stay FALSE. Its `init` is the current one's without `gl_core_init_pipelines`
(`Current!GlCoreInitWith(<<>>)`). Two callbacks are written out because they differ:

- `DestroyResources` (89–111), which has no menu texture to delete;
- `Frame` (743–780), which has no menu step.

Its viewport code (143–268, 649–688) is the current code, less the unused `mvp_no_rot_yflip` matrix. `Viewport` models both.

### `Viewport` — viewport and projection (gl_core.c 1039–1171, 1652–1691)

`SetViewport` is `gl_core_set_viewport` for the window's size. Both callers are covered: `force_full` and `allow_rotate` are free, and the frame calls it with false and true. It computes:

- the custom viewport;
- the pillarbox or letterbox for a table aspect ratio;
- the `RARCH_MOBILE` portrait tweak.

The float expressions of the code reduce to exact rationals. For example, `x = vw*(0.5-delta)` with `delta = desired/(2*device)` is `(vw - desired*vh)/2`. `roundf` becomes round-half-away-from-zero on those rationals. The other actions are:

- `SetRotation` and `SetProjection`, with the matrices abstracted to the rotation they carry;
- `SetAspectRatio`;
- `ViewportInfo`, whose unsigned `top_dist` is taken modulo `2^UINT_WIDTH` and then stored into the `int y` of `struct video_viewport` (two's complement, `Signed`);
- `Alive`, the window size that `gl_core_alive` stores (`video_driver_set_size`), which can change between a frame's `set_viewport` and a later `viewport_info`.

`mvpYflipRot` is the rotation `gl->mvp_yflip` was last built for. It is `NoMatrix` until `gl_core_set_projection` first runs with `allow_rotate`. No property reads it: `gl_core_frame` refreshes it (1807) before the chain uses it (1820), and the menu draws with `mvp_no_rot_yflip`.

## Runs

| run | cfg | expect | what it shows |
|---|---|---|---|
| loader_params | `PresetLoader_params.cfg` | pass | Setup: ids and descriptions fit their buffers; a three-entry table; up to 2 passes. Each pass declares 0–2 of the parameters P, P′ (P with another step) and Q, or R and S, or has any combination of fbo/scale type/srgb/mipmap/filter. Two more capacity cases fill the table with P, Q, R and then repeat P, identically or with another step. Result: a chain is built only when equal ids have identical declarations and the distinct ids fit the table (`ChainBuiltOnlyForAcceptableParams`). The converse does not hold: an identical repeat after a full table is rejected, which is the `loader_dup_at_capacity` finding. Stored ids are unique, and an id is bound to exactly the slot that stores it. The chain has one pass per preset pass, plus the opaque blit pass exactly when the last pass is FBO-backed. Its last pass targets the viewport in the swapchain format, and every earlier pass has a render-target format. 800 K states. |
| loader_truncated_id | `PresetLoader_truncated_id.cfg` | violation | Ids `p` and `pq` with `ID_SIZE` 2: the same truncated id is stored twice. |
| loader_long_desc | `PresetLoader_long_desc.cfg` | violation | A description longer than `DESC_SIZE`: the identical duplicate is rejected. |
| loader_dup_at_capacity | `PresetLoader_dup_at_capacity.cfg` | violation | An identical duplicate declared once the table is full is rejected. |
| textures | `TextureLoad.cfg` | pass | Every image size up to 17×17, every filter type, threaded or not, and LUTs with or without mipmaps, with each of the four wrap modes. Result: both loops give `floor(log2(max))+1`, a full mip chain. A mipmap request, threaded or not, yields a mip min filter and the full, generated chain; any other request yields one level. A LUT is mipmapped exactly when it asks for mipmaps and is larger than 1×1, and it samples with the GL wrap mode of the wrap its preset entry declares (`LutSampledAsDeclared`; all four wraps are enumerated). |
| mip_levels_spec | `TextureLoad_spec.cfg` | violation | The spec's `ceil(log2(max))+1` is not what the code computes (e.g. 3 → 2 levels, not 3). |
| driver | `GLCoreDriver.cfg` | pass | Covers init/free cycles with every init failure, shader swaps, menu textures and frames of two sizes with equal width, on the code's 4-slot ring. Result: the chain's input texture has the frame's size (`InputTextureFitsFrame`). The chains, GL textures, programs and vertex arrays allocated are exactly those the driver refers to, after every init failure too (`NoResourceLeak`). 396 K states. |
| legacy | `GLCoreLegacy.cfg` | pass | The older revision, whose frame and `destroy_resources` are its own, on the same calls: no chain, texture or vertex array leaks. 33 K states. |
| driver_null_chain | `GLCoreDriver_null_chain.cfg` | violation | A slang preset fails and then the stock chain fails. `gl_core_init` still returns the driver, and the next frame hands a NULL chain to the filter-chain calls. |
| viewport | `Viewport.cfg` | pass | Setup: a desktop build, windows 4×3, 3×4, 5×5, 2×5, ratios 1:1, 4:3, 16:9, and custom viewports inside, above and below the window. Result: the fitted viewport stays inside the window; viewport_info's y is the true top distance, and for a custom viewport the custom y, even when the viewport leaves the window: the unsigned `top_dist` wraps, and the store into the signed `y` undoes the wrap. 627 K states. |
| viewport_mobile | `Viewport_mobile.cfg` | violation | `RARCH_MOBILE`, a 3×4 window and a 1:1 ratio (every float exact): y = 1 is doubled to 2, and the viewport ends one pixel above the window. |

Every property of a passing run has a mutant in `PROJECT.json`: a plausible bug in one mapped
definition, for which TLC finds the property violated. Examples:

- the ring index not wrapped;
- reallocation on a width change only;
- the old texture not deleted;
- `destroy_resources` without the bokeh program;
- the letterbox/pillarbox test swapped;
- the custom y without the height;
- `>` for `>=` in the capacity check;
- `find_if` one short;
- the step field left out of the duplicate check;
- a duplicate bound to the newest slot;
- the threaded wrapper switch without its `MIPMAP_NEAREST` case;
- the mip loop's `while (size)` written `while (size > 1)`;
- `address_to_gl` without its `CLAMP_TO_BORDER` case.

### Findings

- **Identical duplicates rejected at capacity** (shader_gl_core.cpp:619). The capacity check runs before `find_if`. An identical duplicate declared when the table is full fails the whole preset, although the comment at 633 allows identical duplicates.
- **Truncated ids** (:650, :628). `strlcpy` stores a truncated id, but `find_if` compares the full declared id with it. Two long ids sharing a prefix are stored twice under one name, and a long id never matches its own stored copy.
- **Truncated descriptions** (:635, :651). For the same reason, an identical duplicate of a parameter with a long description is rejected.
- **Mip levels** (:62). The spec's formula `ceil(log2)+1` disagrees with the code's `floor(log2)+1`. The code's value is the size of a full mip chain.
- **NULL filter chain** (gl_core.c:1313, 1638, 1645). The stock fallback's failure is ignored. `gl_core_frame` (1814–1821) then dereferences the NULL chain. The older revision has the same code at 323, 635 and 642.
- **Mobile portrait viewport** (gl_core.c:1150). Doubling a rounded-up margin moves the viewport past the window top (3×4 window, 1:1: y = 1 doubled to 2, and 2 + 3 > 4), so its top row is cut off. `viewport_info` then reports a top-down y of −1.

## Bounds and why they suffice

- **Loader.** Two passes is the least for the next-pass mipmap lookahead, for duplicates across passes and for "last pass" to differ from "first pass". Two parameter names plus a variant of one cover new, identical-duplicate and mismatched-duplicate. A three-entry table filled across two passes, followed by a fourth id, an identical repeat or a mismatched repeat, puts the capacity check before each outcome of the duplicate search. Id and description lengths of 1–2 with buffer sizes 2 or 64 make truncation happen or not.
- **TextureLoad.** Sizes up to 17 include 0, 1, the powers of two 2–16 and their neighbours. All four filter types and both threading modes are enumerated, so every wrapper and every switch case is taken.
- **Driver.**
  - Every run takes the code's 4-slot ring. The ring index's mask and wrap are exercised once four frames have been drawn, which the runs reach.
  - The two frame sizes differ in height only, so a width-only reallocation test is caught.
  - Every callback is enabled in every live state, and init/free can repeat, so chains and textures cycle.
- **Viewport.**
  - Windows cover landscape, portrait and square, with odd and even sides, so that half-pixel margins occur.
  - The three ratios make the window wider, equal or narrower than desired.
  - Unsigned arithmetic is taken at 8 bits, with the signed store at the same width. The model's values are far from 2^7, so the wrap and its undoing do not depend on the width.

## Fairness

No property needs fairness, and none is assumed. The loader's properties are invariants of its steps and of the state in which `create_from_preset` has returned. The driver and viewport properties are invariants too, since the frontend need not call any callback.

Deadlock checking is on in every run:

- The loader's returned state stutters (`Returned`): the function has returned.
- The driver can always be re-initialised or freed.
- The viewport callbacks are always enabled.

## What is not modelled, and why

- **The filter-chain runtime.** This covers `gl_core_filter_chain::init`, `build_offscreen_passes`, `build_viewport_pass`, `end_frame`, the history and feedback rings, and framebuffer resizing. Only the class declarations are in `src/`; the bodies are not. A module written from the spec's description of them would check the spec against itself, not this code, so the runtime is left out. The driver's calls into it are modelled as which chain is installed.
- **Parts of the current driver:**
  - the menu pipelines' shader contents and uniform locations (only which programs exist is modelled), the debug callback, font/OSD and menu widgets;
  - the texture upload itself (`glTexSubImage2D`, pixel formats), which the properties do not tell apart;
  - allocation failure in `gl_core_init`: `get_context(gl)` at 1435 writes through `gl` before the `calloc` result is checked. The consequence lies in the context driver, outside the repository;
  - `read_viewport`, which is unimplemented;
  - the `scale_integer` viewport path, whose `video_viewport_get_scaled_integer` is outside the repository.
- **Viewport rounding.** Float rounding error is not modelled. The model's viewport sizes are those of the exact values, so a case where the float result lands just off a half pixel is decided as the exact value would be.
- **`gl_modern.c`.** A skeleton driver. Its `set_shader` always fails, and its frame only clears and swaps. It uploads no frame and holds no chain, and it never sets `keep_aspect`, so none of the properties above has anything to say about it. Its viewport code (310–447) is a copy of gl_core's without the aspect branch ever taken: the viewport is always the whole window. Its init (119–120) has the same `get_context`-before-NULL-check order. A module for it would repeat `Viewport` with `keep_aspect` fixed to false. Every property would then either hold trivially or restate the gl_core finding.
- **The filter-chain C wrappers** (shader_gl_core.cpp 828–911). Each is a one-line forward to a chain method whose body is not in the repository. They take the chain without a NULL check, which is what `FrameHasChain` is about.
- **The GLSL shader and the build script.** The ribbon fragment shader is data compiled into the menu pipelines, and `config.params.sh` lists build options. Neither has behaviour a state machine could check.
- **Zero-pass presets.** `last_pass_is_fbo` reads `shader->pass[shader->passes - 1]` (shader_gl_core.cpp:581). For a preset with no passes, that read is out of bounds. Whether `video_shader_read_conf_cgp` can return such a preset is decided by code outside the repository, so the model's presets have at least one pass.

## Further work

1. **Abstract loader.** Write a specification of `create_from_preset`: a preset maps to either a chain or `nullptr`. Show `PresetLoader` implements it with a refinement mapping.

The threaded wrappers turn `NEAREST` into `LINEAR` and `MIPMAP_NEAREST` into `MIPMAP_LINEAR`. Nothing in the repository says whether this is intended, so no property claims either way.
