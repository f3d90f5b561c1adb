------------------------------ MODULE XvVideo ------------------------------
(***************************************************************************)
(* Textured video, src/src/omap_xv.c: a port copies the image a client     *)
(* gives it into pixmaps, one for each plane, and has the GPU convert them *)
(* into the destination (PvrRender).  The 32 ports share one port private. *)
(*                                                                         *)
(* The GPU is told the stride of the first plane only, and takes half of   *)
(* it for the two others.  An image that is clipped to several boxes is    *)
(* put once here.                                                          *)
(***************************************************************************)
EXTENDS PvrRender, Geometry

CONSTANTS
  Formats,     \* the formats of GetFormats that are put
  Sizes        \* the sizes that are put: src_w and src_h

Planar == {"YV12", "I420"}

\* An image of YUYV has the id of YUY2.
Packed == {"UYVY", "YUY2"}

ASSUME VideoAssumption ==
  /\ Formats \subseteq Planar \cup Packed
  /\ Sizes \subseteq [w : Nat \ {0, 1}, h : Nat \ {0, 1}]
  /\ None \notin [w : Nat, h : Nat, pitch : Nat]

VARIABLE port  \* the OMAPPortPrivRec: format, nplanes and the pixmaps of the planes

videoVars == <<vars, port>>

NoPlanes == [i \in 0 .. 2 |-> None]

Depth(fmt) == IF fmt \in Planar THEN 8 ELSE 16

Nplanes(fmt) == IF fmt \in Planar THEN 3 ELSE 1

-----------------------------------------------------------------------------
(* Where an image's planes are: offsets and pitches. *)

\* OMAPVideoQueryImageAttributes: the layout the client is told, and the size
\* its image is made.
Even(n) == AlignUp(n, 2)

QueryLayout(fmt, w, h) ==
  IF fmt \in Planar
  THEN LET luma == AlignUp(Even(w), 4)
           chroma == AlignUp(Even(w) \div 2, 4)
       IN  [w |-> Even(w), h |-> Even(h), pitches |-> <<luma, chroma, chroma>>,
            offsets |-> <<0, luma * Even(h), luma * Even(h) + chroma * (Even(h) \div 2)>>]
  ELSE [w |-> Even(w), h |-> h, pitches |-> <<Even(w) * 2>>, offsets |-> <<0>>]

\* OMAPVideoPutImage: the layout it reads an image of that size with.
PutLayout(fmt, width, height) ==
  LET bufpitch1 == IF fmt \in Planar THEN AlignUp(width, 4) ELSE width * 2
      bufpitch2 == AlignUp(width \div 2, 4)
      height2 == height \div 2
  IN  [w |-> width, h |-> height,
       pitches |-> IF fmt \in Planar THEN <<bufpitch1, bufpitch2, bufpitch2>> ELSE <<bufpitch1>>,
       offsets |-> IF fmt \in Planar
                   THEN <<0, bufpitch1 * height, bufpitch1 * height + bufpitch2 * height2>>
                   ELSE <<0>>]

-----------------------------------------------------------------------------

\* setupplane: a plane of another size is made anew.  srcpitch is zero, or what
\* OMAPModifyPixmapHeader makes the pitch of a new plane.
Setupplane(plane, w, h, depth, srcpitch) ==
  IF plane # None /\ plane.w = w /\ plane.h = h THEN plane
  ELSE [w |-> w, h |-> h, pitch |-> IF srcpitch # 0 THEN srcpitch ELSE Stride(w, depth)]

\* Mutant: the planes of the last image are kept when its format was another.
FreedNever(fmt) == port.planes

\* The planes that are kept for an image of this format: freebufs.
Freed(fmt) == IF port.format # fmt THEN NoPlanes ELSE port.planes

\* The planes of an image: the chroma planes get half the pitch of the first.
Planes(fmt, size) ==
  LET old == Freed(fmt)
      luma == Setupplane(old[0], size.w, size.h, Depth(fmt), 0)
  IN  [i \in 0 .. 2 |->
         CASE i = 0 -> luma
           [] i > 0 /\ i < Nplanes(fmt) ->
                Setupplane(old[i], size.w \div 2, size.h \div 2, Depth(fmt), luma.pitch \div 2)
           [] OTHER -> old[i]]

\* OMAPVideoPutTextureImage and PutTextureImage: the destination is mapped and
\* drawn to, unless the GPU refuses it or nothing of it is visible; it is not
\* looked at whether the destination could be mapped.
PutTextureImage(dst) ==
  \/ UNCHANGED vars
  \/ \E mapped \in BOOLEAN, answer \in Answers :
       LET g == MapBo(gpu, bo[dst], mapped)
       IN  \/ /\ gpu' = g
              /\ UNCHANGED <<device, bo, cpu, op, owed, lost>>
           \/ /\ g.priv[bo[dst]] = None
              /\ Crash
           \/ /\ g.priv[bo[dst]] # None
              /\ gpu' = FlushScanout(OnGpu(Queued(g, bo[dst]), dst), dst, answer)
              /\ UNCHANGED <<device, bo, cpu, op, owed, lost>>

\* OMAPVideoPutImage; the server is gone when a plane cannot be made.
PutImage(dst, fmt, size) ==
  /\ Idle
  /\ \/ /\ port' = [format |-> fmt, nplanes |-> Nplanes(fmt), planes |-> Planes(fmt, size)]
        /\ PutTextureImage(dst)
     \/ /\ Planes(fmt, size) # port.planes
        /\ Crash
        /\ UNCHANGED port

\* OMAPVideoStopVideo(exit); the format is kept.
StopVideo ==
  /\ Idle
  /\ port' = [port EXCEPT !.planes = NoPlanes]
  /\ UNCHANGED vars

VideoInit == Init /\ port = [format |-> None, nplanes |-> 0, planes |-> NoPlanes]

VideoNext ==
  \/ Next /\ UNCHANGED port
  \/ \E dst \in Pixmaps, fmt \in Formats, size \in Sizes : PutImage(dst, fmt, size)
  \/ StopVideo

VideoSpec == VideoInit /\ [][VideoNext]_videoVars

-----------------------------------------------------------------------------

\* The port has the planes of its format or none at all, the first as wide as
\* its pitch says, and the others are half of it in size and in pitch, as the
\* GPU takes them to be.
PlanesInStep ==
  \/ port.planes = NoPlanes
  \/ /\ port.nplanes = Nplanes(port.format)
     /\ \A i \in 0 .. 2 : port.planes[i] # None <=> i < port.nplanes
     /\ port.planes[0].pitch = Stride(port.planes[0].w, Depth(port.format))
     /\ \A i \in 1 .. port.nplanes - 1 :
          port.planes[i] = [w |-> port.planes[0].w \div 2, h |-> port.planes[0].h \div 2,
                            pitch |-> port.planes[0].pitch \div 2]
=============================================================================
