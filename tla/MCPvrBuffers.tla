---------------------------- MODULE MCPvrBuffers ----------------------------
(* PvrBuffers on small instances, for TLC. *)
EXTENDS PvrBuffers, TLC

\* The pixmaps other than the screen's are interchangeable.
Symmetry == Permutations(Pix \ {Root})
=============================================================================
