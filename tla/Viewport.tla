------------------------------ MODULE Viewport ------------------------------
(***************************************************************************)
(* The viewport arithmetic of the glcore driver (gl_core.c, current        *)
(* revision): gl_core_set_viewport, which fits the picture into the window *)
(* for the configured aspect ratio, gl_core_set_projection and             *)
(* gl_core_set_rotation, and gl_core_viewport_info, which reports the      *)
(* viewport top-down to the frontend.                                      *)
(*                                                                         *)
(* Aspect ratios are exact rationals [n, d]; the float computations of     *)
(* the code are modelled by their exact values, and roundf by rounding     *)
(* half away from zero.  The float test |a - b| < 0.0001 becomes equality. *)
(* Unsigned arithmetic wraps modulo 2^UINT_WIDTH; an unsigned stored into *)
(* an int of the same width takes the two's complement value.             *)
(***************************************************************************)
EXTENDS Integers

CONSTANTS
  WindowSizes,      \* window sizes [w, h] the context may have
  DesiredAspects,   \* aspect ratios [n, d] of the aspect ratio table
  CustomViewports,  \* custom viewports [x, y, w, h] of the settings
  RARCH_MOBILE,     \* whether the build defines RARCH_MOBILE
  UINT_WIDTH        \* the width of unsigned in bits

ASSUME \A s \in WindowSizes : s.w > 0 /\ s.h > 0
ASSUME \A a \in DesiredAspects : a.n > 0 /\ a.d > 0
ASSUME RARCH_MOBILE \in BOOLEAN

VARIABLES
  window,          \* the window size (video_info->width / height)
  keepAspect,      \* gl->keep_aspect
  aspectRatioIdx,  \* "custom" or "table"
  desiredAspect,   \* video_driver_get_aspect_ratio()
  rotation,        \* gl->rotation, in degrees
  mvpYflipRot,     \* the rotation baked into gl->mvp_yflip, NoMatrix while
                   \* it is still the zeroed matrix of calloc
  vp,              \* gl->vp: [x, y, width, height]
  vpOut,           \* gl->vp_out_width / vp_out_height
  chainVp,         \* gl->filter_chain_vp
  lastCall,        \* the window size of the last call, whether it used the
                   \* custom viewport and, if so, the custom y the user set
  info             \* the last gl_core_viewport_info: its top-down y, the
                   \* full height it reported, and the viewport and call
                   \* it was computed from

vars == <<window, keepAspect, aspectRatioIdx, desiredAspect, rotation,
          mvpYflipRot, vp, vpOut, chainVp, lastCall, info>>

UINT_LIMIT == 2^UINT_WIDTH

(* A value converted to unsigned. *)
Unsigned(n) == n % UINT_LIMIT

(* An unsigned value stored into a signed int of the same width. *)
Signed(u) == IF u >= UINT_LIMIT \div 2 THEN u - UINT_LIMIT ELSE u

(* roundf of the rational p / q, q > 0: half-way cases away from zero. *)
RoundF(p, q) ==
  IF p >= 0 THEN (2 * p + q) \div (2 * q)
  ELSE -((2 * (-p) + q) \div (2 * q))

(* gl->mvp_yflip before any gl_core_set_projection with allow_rotate: *)
(* a value no rotation in degrees takes.                               *)
NoMatrix == -1

(* Before the first gl_core_set_viewport: a zero viewport, no custom one. *)
NoCall == [w |-> 0, h |-> 0, custom |-> FALSE, cvy |-> 0]

Init ==
  /\ window \in WindowSizes
  /\ keepAspect \in BOOLEAN
  /\ aspectRatioIdx = "table"
  /\ desiredAspect \in DesiredAspects
  /\ rotation = 0
  /\ mvpYflipRot = NoMatrix
  /\ vp = [x |-> 0, y |-> 0, width |-> 0, height |-> 0]
  /\ vpOut = [w |-> 0, h |-> 0]
  /\ chainVp = vp
  /\ lastCall = NoCall
  /\ info = [asked |-> FALSE, top |-> 0, h |-> 0, vp |-> vp, call |-> NoCall]

-----------------------------------------------------------------------------
(* gl_core_set_viewport's aspect fitting.                                  *)

(* device_aspect > desired_aspect, for device_aspect = vw / vh. *)
WiderThanDesiredSwapped(vw, vh, a) == vw * a.d < a.n * vh
WiderThanDesired(vw, vh, a) == vw * a.d > a.n * vh

(* The kept-aspect viewport of a table aspect ratio: pillarboxed when the  *)
(* window is wider than desired, letterboxed when narrower; with          *)
(* delta = (desired / device - 1) / 2 + 0.5 the code's x = vw * (0.5 -     *)
(* delta) is (vw - desired * vh) / 2 and its width 2 * vw * delta is       *)
(* desired * vh; the letterbox case is the same in y.                      *)
AspectViewport(vw, vh, a) ==
  IF vw * a.d = a.n * vh
  THEN [x |-> 0, y |-> 0, width |-> vw, height |-> vh]
  ELSE IF WiderThanDesired(vw, vh, a)
  THEN [x |-> RoundF(vw * a.d - a.n * vh, 2 * a.d), y |-> 0,
        width |-> RoundF(a.n * vh, a.d), height |-> vh]
  ELSE [x |-> 0, y |-> RoundF(vh * a.n - vw * a.d, 2 * a.n),
        width |-> vw, height |-> RoundF(vw * a.d, a.n)]

(* The custom viewport's y: GL's origin is bottom-left. *)
CustomViewportYNoHeight(height, cv) == height - cv.y
CustomViewportY(height, cv) == height - cv.y - cv.h

(* The viewport gl_core_set_viewport computes before the mobile tweak. *)
FittedViewport(vw, vh, height, force, cv) ==
  IF keepAspect /\ ~force /\ aspectRatioIdx = "custom"
  THEN [x |-> cv.x, y |-> CustomViewportY(height, cv),
        width |-> cv.w, height |-> cv.h]
  ELSE IF keepAspect /\ ~force
  THEN AspectViewport(vw, vh, desiredAspect)
  ELSE [x |-> 0, y |-> 0, width |-> vw, height |-> vh]

(* In portrait mode RARCH_MOBILE builds move the viewport up by doubling y. *)
MobileViewport(v, vw, vh) ==
  IF RARCH_MOBILE /\ vw < vh THEN [v EXCEPT !.y = 2 * v.y] ELSE v

(* gl_core_set_projection: with allow_rotate the rotation is applied and   *)
(* the y-flipped matrices refreshed; without it, it returns before that.   *)
SetProjection(rot, allowRotate) ==
  mvpYflipRot' = IF allowRotate THEN rot ELSE mvpYflipRot

(* gl_core_set_viewport for the window's size: called by gl_core_frame     *)
(* (force_full false, allow_rotate true) and by the frontend through       *)
(* gl_core_set_viewport_wrapper.                                           *)
SetViewport ==
  \E force \in BOOLEAN, allowRotate \in BOOLEAN, cv \in CustomViewports :
    LET vw == window.w
        vh == window.h
        v  == MobileViewport(FittedViewport(vw, vh, window.h, force, cv), vw, vh)
    IN  /\ vp' = v
        /\ vpOut' = IF force THEN vpOut
                    ELSE [w |-> v.width, h |-> v.height]
        /\ chainVp' = v
        /\ SetProjection(rotation, allowRotate)
        /\ LET custom == keepAspect /\ ~force /\ aspectRatioIdx = "custom"
           IN  lastCall' = [w |-> vw, h |-> vh, custom |-> custom,
                            cvy |-> IF custom THEN cv.y ELSE 0]
        /\ UNCHANGED <<window, keepAspect, aspectRatioIdx, desiredAspect,
                       rotation, info>>

(* gl_core_set_rotation's rotation index in degrees. *)
RotationDegreesRaw(r) == r
RotationDegrees(r) == 90 * r

(* gl_core_set_rotation stores the rotation and recomputes the projection. *)
SetRotation ==
  \E r \in 0 .. 3 :
    /\ rotation' = RotationDegrees(r)
    /\ SetProjection(RotationDegrees(r), TRUE)
    /\ UNCHANGED <<window, keepAspect, aspectRatioIdx, desiredAspect, vp,
                   vpOut, chainVp, lastCall, info>>

(* gl_core_set_aspect_ratio: selects a table or the custom aspect ratio   *)
(* and turns keep_aspect on.                                               *)
SetAspectRatio ==
  /\ \/ /\ aspectRatioIdx' = "custom"
        /\ UNCHANGED desiredAspect
     \/ /\ aspectRatioIdx' = "table"
        /\ desiredAspect' \in DesiredAspects
  /\ keepAspect' = TRUE
  /\ UNCHANGED <<window, rotation, mvpYflipRot, vp, vpOut, chainVp,
                 lastCall, info>>

(* gl_core_viewport_info: the viewport, with y turned top-down: top_dist  *)
(* is the unsigned height - (vp.y + vp.height), stored into the int y of   *)
(* struct video_viewport.                                                  *)
ViewportInfo ==
  /\ info' = [asked |-> TRUE,
               top  |-> Signed(Unsigned(window.h - Unsigned(vp.y + vp.height))),
               h    |-> window.h,
               vp   |-> vp,
               call |-> lastCall]
  /\ UNCHANGED <<window, keepAspect, aspectRatioIdx, desiredAspect,
                 rotation, mvpYflipRot, vp, vpOut, chainVp, lastCall>>

(* gl_core_alive: the context's check_window reports the window's size,   *)
(* which video_driver_set_size stores when it is not zero; gl->vp keeps   *)
(* the viewport of the last gl_core_set_viewport until the next frame.    *)
Alive ==
  /\ window' \in WindowSizes
  /\ UNCHANGED <<keepAspect, aspectRatioIdx, desiredAspect, rotation,
                 mvpYflipRot, vp, vpOut, chainVp, lastCall, info>>

Next == SetViewport \/ SetRotation \/ SetAspectRatio \/ ViewportInfo \/ Alive

Spec == Init /\ [][Next]_vars

-----------------------------------------------------------------------------
(* Properties.                                                             *)

TypeOK ==
  /\ window \in WindowSizes
  /\ keepAspect \in BOOLEAN
  /\ aspectRatioIdx \in {"custom", "table"}
  /\ desiredAspect \in DesiredAspects
  /\ rotation \in {0, 90, 180, 270}
  /\ mvpYflipRot \in {0, 90, 180, 270, NoMatrix}
  /\ vp.width \in Nat /\ vp.height \in Nat

(* Whatever the aspect ratio, the viewport gl_core_set_viewport computes   *)
(* from the table's ratios lies inside the window: the rounded margins and *)
(* the rounded size never add up to more than the window.                  *)
ViewportInsideWindow ==
  ~lastCall.custom =>
    /\ 0 <= vp.x /\ vp.x + vp.width <= lastCall.w
    /\ 0 <= vp.y /\ vp.y + vp.height <= lastCall.h

(* While the window keeps the size of the last gl_core_set_viewport,      *)
(* gl_core_viewport_info's top-down y is the distance from the window's   *)
(* top to the viewport's, the unsigned arithmetic undone by the store     *)
(* into the signed y: for a custom viewport this is the custom y the user  *)
(* set, also when it lies above the window's top.                          *)
ViewportInfoTopDistance ==
  info.asked /\ info.h = info.call.h =>
    /\ info.top = info.h - (info.vp.y + info.vp.height)
    /\ info.call.custom => info.top = info.call.cvy
=============================================================================
