---------------------------- MODULE MCLifecycle ----------------------------
(* Two CRTCs side by side, one smaller than the other, and a pointer on the *)
(* edges of each and across both.                                           *)
EXTENDS ScreenLifecycle

Area(x, y, w, h) == [x |-> x, y |-> y, w |-> w, h |-> h]

MCCrtcs == <<Area(0, 0, 3, 2), Area(3, 0, 2, 2)>>

MCPointers == {[x |-> -1, y |-> 1], [x |-> 2, y |-> 0], [x |-> 4, y |-> -1]}
=============================================================================
