----------------------------- MODULE MCDri2Swap -----------------------------
(* Dri2Swap on small instances, for TLC. *)
EXTENDS Dri2Swap, TLC

\* XIDs and flipdata addresses are interchangeable: the specification compares
\* them for equality only.
Symmetry == Permutations(Window) \cup Permutations(Flip)
=============================================================================
