---------------------------- MODULE MC_Viewport ----------------------------
(* Model values for Viewport: landscape, portrait and square windows with  *)
(* odd and even sides, so that every rounding case of the fitting occurs;  *)
(* the 1:1, 4:3 and 16:9 entries of the aspect ratio table; custom         *)
(* viewports inside the window, above its top and below its bottom edge.   *)
EXTENDS Viewport

MCWindowSizes ==
  {[w |-> 4, h |-> 3], [w |-> 3, h |-> 4], [w |-> 5, h |-> 5], [w |-> 2, h |-> 5]}

MCDesiredAspects ==
  {[n |-> 1, d |-> 1], [n |-> 4, d |-> 3], [n |-> 16, d |-> 9]}

MCCustomViewports ==
  {[x |-> 0, y |-> 1, w |-> 2, h |-> 2], [x |-> 1, y |-> 0, w |-> 3, h |-> 6],
   [x |-> 0, y |-> 4, w |-> 1, h |-> 3]}
(* A portrait window and the square aspect ratio, for which every float   *)
(* the code computes is exact: device_aspect 0.75, delta 0.375.            *)
MCPortraitWindow == {[w |-> 3, h |-> 4]}
MCSquareAspect == {[n |-> 1, d |-> 1]}
=============================================================================
