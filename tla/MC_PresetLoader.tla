-------------------------- MODULE MC_PresetLoader --------------------------
(***************************************************************************)
(* Instances of PresetLoader for TLC.  Strings are short sequences of      *)
(* one-letter strings so that strlcpy truncation is visible; the numeric   *)
(* fields of a #pragma parameter are small naturals.                       *)
(***************************************************************************)
EXTENDS PresetLoader

(* A declaration of parameter "p", one that differs from it only in step,  *)
(* and a declaration of a second parameter "q".                            *)
DeclP  == [id |-> <<"p">>, desc |-> <<"x">>, initial |-> 0, minimum |-> 0,
           maximum |-> 1, step |-> 1]
DeclP2 == [DeclP EXCEPT !.step = 2]
DeclQ  == [DeclP EXCEPT !.id = <<"q">>]

(* Ids and descriptions longer than the stored buffers. *)
DeclPQ   == [DeclP EXCEPT !.id = <<"p", "q">>]
DeclLong == [DeclP EXCEPT !.desc = <<"x", "y">>]

(* Pass settings that do not matter to the parameter loop. *)
PlainPass(ps) ==
  [params |-> ps, fbo_valid |-> FALSE, type_x |-> "input", type_y |-> "input",
   srgb_fbo |-> FALSE, fp_fbo |-> FALSE, mipmap |-> FALSE, filter |-> "unspec",
   wrap |-> "edge"]

ParamPasses ==
  {PlainPass(ps) : ps \in {<<>>, <<DeclP>>, <<DeclP2>>, <<DeclQ>>,
                           <<DeclP, DeclQ>>, <<DeclQ, DeclP>>, <<DeclP, DeclP2>>}}

(* The parameter loop's capacity return: passes declaring "p", "q" and    *)
(* then "r", "s" fill a table of three with a new id still to come; "p",  *)
(* "q" and then "r", "p" or "r", "p" with another step fill it with a      *)
(* repeat, identical or not, still to come.                                *)
DeclR == [DeclP EXCEPT !.id = <<"r">>]
DeclS == [DeclP EXCEPT !.id = <<"s">>]
CapacityPasses ==
  {PlainPass(ps) : ps \in {<<DeclP, DeclQ>>, <<DeclR, DeclS>>, <<DeclR, DeclP>>,
                           <<DeclR, DeclP2>>}}

(* A long id declared next to its truncated form, and twice. *)
TruncatedIdPasses ==
  {PlainPass(ps) : ps \in {<<DeclPQ>>, <<DeclP>>, <<DeclPQ, DeclQ>>}}

(* A repeated, identical declaration with a long description. *)
LongDescPasses == {PlainPass(ps) : ps \in {<<DeclLong>>, <<DeclQ>>}}

(* Every framebuffer and scaling setting, with no parameters. *)
ShapePasses ==
  [params : {<<>>}, fbo_valid : BOOLEAN, type_x : {"input", "absolute"},
   type_y : {"viewport"}, srgb_fbo : BOOLEAN, fp_fbo : {FALSE},
   mipmap : BOOLEAN, filter : {"unspec", "nearest"}, wrap : {"edge", "repeat"}]

(* The parameter, capacity and framebuffer cases in one preset space. *)
LoaderPasses == ParamPasses \cup CapacityPasses \cup ShapePasses

(* A duplicate at capacity: "p" and "q" fill the table, then "p" again. *)
DupAtCapacityPasses == {PlainPass(ps) : ps \in {<<DeclP, DeclQ>>, <<DeclP>>}}
=============================================================================
