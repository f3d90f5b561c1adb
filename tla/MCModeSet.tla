----------------------------- MODULE MCModeSet ------------------------------
(* ModeSet on small instances, for TLC. *)
EXTENDS ModeSet, TLC

\* The first CRTC moves, the second stays.
Positions == 0 :> {0, 4} @@ 1 :> {0}

SmallSizes == {<<33, 2>>, <<70, 2>>}
=============================================================================
