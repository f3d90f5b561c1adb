---------------------------- MODULE MCVideo ------------------------------
(* A small instance: requests inside the surface, over its edges and past it, *)
(* and images that are resized and change their format.                      *)
EXTENDS XvVideo

At(x, y) == [x |-> x, y |-> y]

MCSolids == {Box(0, 0, 1, Height), Box(Width - 1, 0, 1, 1)}

MCCopies == {[from |-> At(1, 0), to |-> At(-1, 0), size |-> At(2, 2)],
             [from |-> At(0, 0), to |-> At(1, -1), size |-> At(3, 2)]}

MCComposites == {[from |-> At(-1, 1), mask |-> At(1, 1), to |-> At(0, 1), size |-> At(Width, 1)]}

Picture(o, s, t, m, r) ==
  [op |-> o, src |-> s, dst |-> "argb", transform |-> t, maskTransform |-> m,
   repeat |-> r, maskRepeat |-> r]

MCPictures == {Picture("over", "argb", "none", "none", FALSE),
               Picture("src", "argb", "rotate", "positive", FALSE),
               Picture("over", "a8", "positive", "none", TRUE),
               Picture("other", "a8", "none", "none", TRUE)}

MCCode == {<<"argb", "argb", TRUE, "over">>, <<"argb", "argb", FALSE, "over">>,
           <<"argb", "argb", FALSE, "src">>, <<"a8", "argb", TRUE, "over">>}

\* The services refuse to draw, or to be waited for, or nothing.
OneRefusal == {{"draw"}, {"wait"}}

NoRefusal == {{}}

Size(w, h) == [w |-> w, h |-> h]

EvenSizes == {Size(8, 2), Size(40, 2)}

OddSizes == {Size(64, 2), Size(65, 2)}
=============================================================================
