---------------------------- MODULE PresetLoader ----------------------------
(***************************************************************************)
(* gl_core_filter_chain_create_from_preset (shader_gl_core.cpp) and the    *)
(* LUT loading it calls, as a step machine: one action per step of the     *)
(* function, in the order the code takes them, each early "return nullptr" *)
(* a step to pc = "failed".  The preset, the shaders' #pragma parameter    *)
(* declarations and the outcome of every external collaborator (config     *)
(* parser, image loader, shader compiler, parameter resolver, chain init)  *)
(* are inputs chosen nondeterministically.                                 *)
(*                                                                         *)
(* Indices are 1-based: pass k of the model is shader->pass[k-1], and      *)
(* parameter k is shader->parameters[k-1].                                 *)
(***************************************************************************)
EXTENDS Naturals, Sequences, FiniteSets, GLCoreFormats

CONSTANTS
  PassConfigs,        \* the video_shader_pass values a preset may hold
  MaxPasses,          \* bound on shader->passes
  MaxLuts,            \* bound on shader->luts
  MetaFormats,        \* rt_format values the compiler's reflection may report
  GFX_MAX_PARAMETERS, \* capacity of shader->parameters
  ID_SIZE,            \* sizeof(video_shader_parameter.id)
  DESC_SIZE           \* sizeof(video_shader_parameter.desc)

ASSUME MaxPasses \in Nat \ {0}
ASSUME GFX_MAX_PARAMETERS \in Nat \ {0}
ASSUME ID_SIZE \in Nat \ {0} /\ DESC_SIZE \in Nat \ {0}

VARIABLES
  pc,          \* the step of create_from_preset about to run
  preset,      \* the parsed preset: [passes |-> Seq(pass), luts |-> Nat]
  filter,      \* the filter argument (video_info.smooth)
  lastIsFbo,   \* last_pass_is_fbo
  lutsLoaded,  \* LUTs added to the chain so far
  i,           \* loop index over passes (1-based)
  meta,        \* glslang_output of pass i: [params, rt_format]
  j,           \* index into meta.params
  params,      \* shader->parameters[0 .. num_parameters)
  bindings,    \* the chain->add_parameter(pass, index, id) calls made
  chain,       \* chain->set_pass_info / set_shader per pass, as a sequence
  failedAt     \* the step whose early return ended the call, or "none"

vars == <<pc, preset, filter, lastIsFbo, lutsLoaded, i, meta, j, params,
          bindings, chain, failedAt>>

-----------------------------------------------------------------------------
(* Data of the code, abstracted to what the properties tell apart.         *)

Min2(a, b) == IF a < b THEN a ELSE b

(* strlcpy(dst, src, size): copies at most size-1 characters. *)
Strlcpy(s, size) == SubSeq(s, 1, Min2(Len(s), size - 1))

Presets ==
  [passes : UNION {[1 .. n -> PassConfigs] : n \in 1 .. MaxPasses},
   luts   : 0 .. MaxLuts]

NumPasses == Len(preset.passes)

(* Mutant: the flag read from the first pass instead of the last. *)
FirstPassIsFbo == preset.passes[1].fbo_valid

(* last_pass_is_fbo = shader->pass[shader->passes - 1].fbo.valid *)
LastPassIsFbo == preset.passes[NumPasses].fbo_valid

-----------------------------------------------------------------------------
Init ==
  /\ pc = "read"
  /\ preset \in Presets
  /\ filter \in {"linear", "nearest"}
  /\ lastIsFbo = FALSE
  /\ lutsLoaded = 0
  /\ i = 1
  /\ meta = [params |-> <<>>, rt_format |-> "UNKNOWN"]
  /\ j = 1
  /\ params = <<>>
  /\ bindings = {}
  /\ chain = <<>>
  /\ failedAt = "none"

Fail(step) ==
  /\ pc' = "failed"
  /\ failedAt' = step

(* config_file_new, video_shader_read_conf_cgp, resolve_relative, reading  *)
(* last_pass_is_fbo and constructing the chain.                            *)
ReadPreset ==
  /\ pc = "read"
  /\ \/ /\ Fail("read")
        /\ UNCHANGED lastIsFbo
     \/ /\ lastIsFbo' = LastPassIsFbo
        /\ pc' = IF preset.luts > 0 THEN "luts" ELSE "compile"
        /\ UNCHANGED failedAt
  /\ UNCHANGED <<preset, filter, lutsLoaded, i, meta, j, params, bindings, chain>>

(* One iteration of gl_core_filter_chain_load_luts: load_lut either fails  *)
(* (image_texture_load) or the texture is added to the chain.              *)
LoadLut ==
  /\ pc = "luts"
  /\ \/ /\ Fail("luts")
        /\ UNCHANGED lutsLoaded
     \/ /\ lutsLoaded' = lutsLoaded + 1
        /\ pc' = IF lutsLoaded + 1 = preset.luts THEN "compile" ELSE "luts"
        /\ UNCHANGED failedAt
  /\ UNCHANGED <<preset, filter, lastIsFbo, i, meta, j, params, bindings, chain>>

(* glslang_compile_shader of pass i; its reflection yields the declared    *)
(* parameters and the render-target format.                                *)
CompilePass ==
  /\ pc = "compile"
  /\ \/ /\ Fail("compile")
        /\ UNCHANGED <<meta, j>>
     \/ /\ \E fmt \in MetaFormats :
             meta' = [params |-> preset.passes[i].params, rt_format |-> fmt]
        /\ j' = 1
        /\ pc' = "param"
        /\ UNCHANGED failedAt
  /\ UNCHANGED <<preset, filter, lastIsFbo, lutsLoaded, i, params, bindings, chain>>

(* One iteration of the loop over output.meta.parameters: the capacity    *)
(* check, the find_if over the parameters stored so far (comparing the     *)
(* declared id with the stored, strlcpy'd one), then either the equality   *)
(* check of a duplicate or the store of a new parameter.                   *)
StoredParam(mp) ==
  [id      |-> Strlcpy(mp.id, ID_SIZE),
   desc    |-> Strlcpy(mp.desc, DESC_SIZE),
   current |-> mp.initial,
   initial |-> mp.initial,
   minimum |-> mp.minimum,
   maximum |-> mp.maximum,
   step    |-> mp.step]

(* Mutant: the step field left out of the comparison. *)
ParamMismatchNoStep(mp, p) ==
  \/ mp.desc # p.desc
  \/ mp.initial # p.initial
  \/ mp.minimum # p.minimum
  \/ mp.maximum # p.maximum

(* The five-field comparison of a duplicate with the stored parameter. *)
ParamMismatch(mp, p) ==
  \/ mp.desc # p.desc
  \/ mp.initial # p.initial
  \/ mp.minimum # p.minimum
  \/ mp.maximum # p.maximum
  \/ mp.step # p.step

(* Mutant: find_if stops one short of num_parameters. *)
FirstMatchShort(mp) ==
  LET found == {k \in 1 .. Len(params) - 1 : params[k].id = mp.id}
  IN IF found = {} THEN 0 ELSE CHOOSE k \in found : \A o \in found : k <= o

(* find_if: the first stored parameter whose id equals the declared id. *)
FirstMatch(mp) ==
  LET found == {k \in 1 .. Len(params) : params[k].id = mp.id}
  IN IF found = {} THEN 0 ELSE CHOOSE k \in found : \A o \in found : k <= o

(* Mutant: the capacity check written with > instead of >=. *)
ParamTableFullLate == Len(params) > GFX_MAX_PARAMETERS

(* shader->num_parameters >= GFX_MAX_PARAMETERS *)
ParamTableFull == Len(params) >= GFX_MAX_PARAMETERS

(* Mutant: a duplicate bound to the newest parameter, not the one found. *)
BindDuplicateNewest(mp, itr) ==
  /\ bindings' = bindings \cup {[pass |-> i, index |-> Len(params), id |-> mp.id]}
  /\ j' = j + 1
  /\ UNCHANGED <<pc, failedAt, params>>

(* An identical duplicate: bound to the parameter find_if returned. *)
BindDuplicate(mp, itr) ==
  /\ bindings' = bindings \cup {[pass |-> i, index |-> itr, id |-> mp.id]}
  /\ j' = j + 1
  /\ UNCHANGED <<pc, failedAt, params>>

(* Mutant: add_parameter called after num_parameters++. *)
AddNewParameterLate(mp) ==
  /\ params' = Append(params, StoredParam(mp))
  /\ bindings' = bindings \cup
       {[pass |-> i, index |-> Len(params) + 2, id |-> mp.id]}
  /\ j' = j + 1
  /\ UNCHANGED <<pc, failedAt>>

(* A new id: stored (strlcpy'd) at num_parameters, bound, and counted. *)
AddNewParameter(mp) ==
  /\ params' = Append(params, StoredParam(mp))
  /\ bindings' = bindings \cup
       {[pass |-> i, index |-> Len(params) + 1, id |-> mp.id]}
  /\ j' = j + 1
  /\ UNCHANGED <<pc, failedAt>>

AddParameter(mp) ==
  LET itr == FirstMatch(mp) IN
  \/ /\ ParamTableFull
     /\ Fail("param")
     /\ UNCHANGED <<j, params, bindings>>
  \/ /\ ~ParamTableFull
     /\ itr # 0
     /\ ParamMismatch(mp, params[itr])
     /\ Fail("param")
     /\ UNCHANGED <<j, params, bindings>>
  \/ /\ ~ParamTableFull
     /\ itr # 0
     /\ ~ParamMismatch(mp, params[itr])
     /\ BindDuplicate(mp, itr)
  \/ /\ ~ParamTableFull
     /\ itr = 0
     /\ AddNewParameter(mp)

ParamStep ==
  /\ pc = "param"
  /\ j <= Len(meta.params)
  /\ AddParameter(meta.params[j])
  /\ UNCHANGED <<preset, filter, lastIsFbo, lutsLoaded, i, meta, chain>>

(* The rest of the loop body: set_shader, frame_count_mod and names, then  *)
(* the pass_info built from the preset's overrides and the reflection.     *)
FboScaleType == [input |-> "source", absolute |-> "absolute",
                 viewport |-> "viewport"]

PassScaleType(pass, fboType, last) ==
  IF pass.fbo_valid THEN FboScaleType[fboType]
  ELSE IF last THEN "viewport" ELSE "source"

PassRtFormat(pass, fmt, last) ==
  LET shaderFmt == IF fmt = "UNKNOWN" THEN "R8G8B8A8_UNORM" ELSE fmt
      fboFmt    == IF pass.srgb_fbo THEN "R8G8B8A8_SRGB"
                   ELSE IF pass.fp_fbo THEN "R16G16B16A16_SFLOAT"
                   ELSE shaderFmt
  IN IF pass.fbo_valid THEN convert_glslang_format(fboFmt)
     ELSE IF last THEN NoFormat ELSE convert_glslang_format(shaderFmt)

(* max_levels is ~0u when the next pass asks for a mipmapped input; only   *)
(* whether it exceeds 1 matters here, so ~0u is any number above 1.        *)
AllLevels == 1000

PassMaxLevels(k) ==
  IF k < NumPasses /\ preset.passes[k + 1].mipmap THEN AllLevels ELSE 1

PassInfo(k, fmt) ==
  LET pass == preset.passes[k]
      last == k = NumPasses
  IN [scale_type_x  |-> PassScaleType(pass, pass.type_x, last),
      scale_type_y  |-> PassScaleType(pass, pass.type_y, last),
      rt_format     |-> PassRtFormat(pass, fmt, last),
      source_filter |-> IF pass.filter = "unspec" THEN filter ELSE pass.filter,
      mip_filter    |-> IF pass.filter # "nearest" /\ PassMaxLevels(k) > 1
                        THEN "linear" ELSE "nearest",
      max_levels    |-> PassMaxLevels(k),
      address       |-> WrapToAddress[pass.wrap],
      shader        |-> "compiled"]

FinishPass ==
  /\ pc = "param"
  /\ j > Len(meta.params)
  /\ chain' = Append(chain, PassInfo(i, meta.rt_format))
  /\ i' = i + 1
  /\ pc' = IF i = NumPasses THEN "blit" ELSE "compile"
  /\ UNCHANGED <<preset, filter, lastIsFbo, lutsLoaded, meta, j, params,
                 bindings, failedAt>>

(* The extra pass that blits a framebuffer-backed last pass to the         *)
(* viewport with the built-in opaque shader.                               *)
BlitPassInfo ==
  [scale_type_x |-> "viewport", scale_type_y |-> "viewport", rt_format |-> NoFormat,
   source_filter |-> filter, mip_filter |-> "nearest", max_levels |-> 0,
   address |-> "clamp_to_edge", shader |-> "opaque"]

AppendBlitPass ==
  /\ pc = "blit"
  /\ \/ lastIsFbo /\ chain' = Append(chain, BlitPassInfo)
     \/ ~lastIsFbo /\ UNCHANGED chain
  /\ pc' = "resolve"
  /\ UNCHANGED <<preset, filter, lastIsFbo, lutsLoaded, i, meta, j, params,
                 bindings, failedAt>>

(* video_shader_resolve_current_parameters and set_shader_preset. *)
ResolveParameters ==
  /\ pc = "resolve"
  /\ \/ Fail("resolve")
     \/ pc' = "init" /\ UNCHANGED failedAt
  /\ UNCHANGED <<preset, filter, lastIsFbo, lutsLoaded, i, meta, j, params,
                 bindings, chain>>

(* chain->init(); on success the chain is released to the caller. *)
InitChain ==
  /\ pc = "init"
  /\ \/ Fail("init")
     \/ pc' = "done" /\ UNCHANGED failedAt
  /\ UNCHANGED <<preset, filter, lastIsFbo, lutsLoaded, i, meta, j, params,
                 bindings, chain>>

(* The function has returned: the chain, or nullptr. *)
Returned ==
  /\ pc \in {"done", "failed"}
  /\ UNCHANGED vars

Next ==
  \/ ReadPreset
  \/ LoadLut
  \/ CompilePass
  \/ ParamStep
  \/ FinishPass
  \/ AppendBlitPass
  \/ ResolveParameters
  \/ InitChain
  \/ Returned

Spec == Init /\ [][Next]_vars

-----------------------------------------------------------------------------
(* Properties.                                                             *)

TypeOK ==
  /\ pc \in {"read", "luts", "compile", "param", "blit", "resolve", "init",
             "done", "failed"}
  /\ preset \in Presets
  /\ lutsLoaded \in 0 .. MaxLuts
  /\ i \in 1 .. MaxPasses + 1
  /\ Len(params) <= GFX_MAX_PARAMETERS
  /\ \A b \in bindings : b.pass \in 1 .. NumPasses /\ b.index \in 1 .. Len(params)
  /\ Len(chain) <= NumPasses + 1
  /\ failedAt \in {"none", "read", "luts", "compile", "param", "resolve", "init"}

(* Every #pragma parameter declaration the preset's shaders make. *)
Declarations ==
  UNION {{preset.passes[k].params[d] : d \in 1 .. Len(preset.passes[k].params)}
          : k \in 1 .. NumPasses}

(* The preset the spec says must be accepted: equal ids only on fully      *)
(* equal declarations, and room for every distinct id.                     *)
ParamsAcceptable ==
  /\ \A d1, d2 \in Declarations : d1.id = d2.id => d1 = d2
  /\ Cardinality({d.id : d \in Declarations}) <= GFX_MAX_PARAMETERS

(* A duplicate #pragma parameter is accepted exactly when it repeats the   *)
(* first declaration byte for byte (the find_if / field comparison of      *)
(* create_from_preset): a built chain implies an acceptable preset, and a  *)
(* rejection in the parameter loop implies an unacceptable one.            *)
DuplicatesAcceptedIffIdentical ==
  /\ pc = "done" => ParamsAcceptable
  /\ failedAt = "param" => ~ParamsAcceptable

(* What create_from_preset does guarantee: it builds a chain only for a    *)
(* preset whose equal ids carry equal declarations (the find_if and the    *)
(* five-field comparison) and whose distinct ids fit the table (the check  *)
(* at the top of the loop), whichever of the two it meets first, whatever  *)
(* passes the declarations are spread over.                                *)
ChainBuiltOnlyForAcceptableParams == pc = "done" => ParamsAcceptable

(* The parameter ids stored in shader->parameters are pairwise distinct    *)
(* (spec, data model: parameter ids are unique across the whole preset).   *)
StoredIdsUnique ==
  \A a, b \in 1 .. Len(params) : a # b => params[a].id # params[b].id

(* The add_parameter calls of all passes agree: two declarations are bound *)
(* to the same parameter index exactly when they declare the same id, so   *)
(* a shader's uniform named id always reads the value of that id.          *)
ParamBindingsAgree ==
  \A b1, b2 \in bindings : (b1.id = b2.id) <=> (b1.index = b2.index)

(* A built chain has one pass per preset pass plus the opaque blit pass    *)
(* exactly when the preset's last pass renders to a framebuffer; its last  *)
(* pass renders to the viewport with the swapchain format (rt_format 0),   *)
(* and every earlier pass owns a framebuffer of a real format.             *)
ChainShape ==
  pc = "done" =>
    /\ Len(chain) = NumPasses + (IF preset.passes[NumPasses].fbo_valid
                                 THEN 1 ELSE 0)
    /\ chain[Len(chain)].scale_type_x = "viewport"
    /\ chain[Len(chain)].scale_type_y = "viewport"
    /\ chain[Len(chain)].rt_format = NoFormat
    /\ \A k \in 1 .. Len(chain) - 1 : chain[k].rt_format # NoFormat
=============================================================================
