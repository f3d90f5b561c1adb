---------------------------- MODULE CursorPlane ----------------------------
(***************************************************************************)
(* The hardware cursor of src/src/drmmode_display.c: one overlay plane for *)
(* all CRTCs, shown on the CRTC of the last call, whose position and       *)
(* visibility the driver keeps once for all of them.  The server calls the *)
(* functions of each CRTC in turn and remembers, for each, whether it      *)
(* showed the cursor there.                                                *)
(***************************************************************************)
EXTENDS Integers, Sequences, FiniteSetsExt

CONSTANTS
  Crtcs,      \* sequence of the areas of the screen the CRTCs show
  CursorW,    \* CURSORW
  CursorH,    \* CURSORH
  Pointers,   \* positions of the pointer, [x, y]
  None        \* NULL, or a plane that is off

ASSUME CursorAssumption ==
  /\ Crtcs \in Seq([x : Int, y : Int, w : Nat \ {0}, h : Nat \ {0}]) /\ Crtcs # <<>>
  /\ CursorW \in Nat \ {0} /\ CursorH \in Nat \ {0}
  /\ Pointers \subseteq [x : Int, y : Int]

\* What the plane may show: one span of the image on each axis, on one CRTC.
SpanType == [at : Int, src : Int, len : Int]

PictureType == [crtc : DOMAIN Crtcs, h : SpanType, v : SpanType]

ASSUME PlaneOffAssumption == None \notin PictureType

VARIABLE cursor
\* A record: the driver's visible, x and y; crtc, the CRTC last asked to show
\* the plane; picture, what the plane shows; and the server's shown and
\* inRange, for each CRTC.

NoCursor ==
  [visible |-> FALSE, x |-> 0, y |-> 0, crtc |-> 1, picture |-> None,
   shown |-> [c \in DOMAIN Crtcs |-> FALSE], inRange |-> [c \in DOMAIN Crtcs |-> FALSE]]

-----------------------------------------------------------------------------
(* The driver. *)

Hide(s, c) == [s EXCEPT !.visible = FALSE, !.picture = None]

\* Mutant: the image is not moved along when it begins left of the CRTC.
ClipPlaneOnly(p, size, limit) ==
  [at |-> Max({p, 0}), src |-> 0, len |-> Min({size, limit - Max({p, 0})})]

\* One axis of the plane: where it begins on the CRTC, from where in the image
\* and how much of it.
ClipPlane(p, size, limit) ==
  LET skipped == IF p < 0 THEN -p ELSE 0
      at      == p + skipped
      left    == size - skipped
  IN  [at |-> at, src |-> skipped, len |-> IF at + left > limit THEN limit - at ELSE left]

PictureAt(s, c) ==
  [crtc |-> c,
   h |-> ClipPlane(s.x, CursorW, Crtcs[c].w),
   v |-> ClipPlane(s.y, CursorH, Crtcs[c].h)]

\* What drmModeSetPlane takes: some of the image, inside the mode.
Accepted(p) ==
  /\ p.h.len > 0 /\ p.h.at + p.h.len <= Crtcs[p.crtc].w
  /\ p.v.len > 0 /\ p.v.at + p.v.len <= Crtcs[p.crtc].h

Show(s, c) ==
  LET p == PictureAt(s, c)
  IN  [s EXCEPT !.visible = TRUE, !.crtc = c, !.picture = IF Accepted(p) THEN p ELSE @]

\* Mutant: the plane is moved only when it is shown again.
SetPositionLater(s, c, x, y) == [s EXCEPT !.x = x, !.y = y]

SetPosition(s, c, x, y) ==
  LET t == [s EXCEPT !.x = x, !.y = y] IN IF s.visible THEN Show(t, c) ELSE t

\* The image is copied while the plane is off.
Load(s, c) == IF s.visible THEN Show(Hide(s, c), c) ELSE s

-----------------------------------------------------------------------------
(* The server, which calls the driver for every CRTC, in order. *)

EachCrtc(op(_, _), s) ==
  LET after[c \in 0 .. Len(Crtcs)] == IF c = 0 THEN s ELSE op(after[c - 1], c)
  IN  after[Len(Crtcs)]

HideOn(s, c) == IF s.shown[c] THEN Hide([s EXCEPT !.shown[c] = FALSE], c) ELSE s

ShowOn(s, c) ==
  IF s.inRange[c] /\ ~s.shown[c] THEN Show([s EXCEPT !.shown[c] = TRUE], c) ELSE s

MoveOn(p, s, c) ==
  LET x  == p.x - Crtcs[c].x
      y  == p.y - Crtcs[c].y
      in == x > -CursorW /\ x < Crtcs[c].w /\ y > -CursorH /\ y < Crtcs[c].h
      t  == [s EXCEPT !.inRange[c] = in]
  IN  IF in THEN ShowOn(SetPosition(t, c, x, y), c) ELSE HideOn(t, c)

HideAll(s) == EachCrtc(HideOn, s)

MoveAll(s, p) == EachCrtc(LAMBDA t, c : MoveOn(p, t, c), s)

LoadAll(s) == EachCrtc(Load, s)

ShowAll(s) == EachCrtc(ShowOn, s)

\* A new image is loaded hidden; a mode that was set reloads the image in place.
NewImage(s, p) == ShowAll(MoveAll(LoadAll(HideAll(s)), p))

Reload(s, p) == ShowAll(MoveAll(LoadAll(s), p))

UseCursor ==
  \E p \in Pointers : cursor' \in {MoveAll(cursor, p), NewImage(cursor, p),
                                   Reload(cursor, p), HideAll(cursor)}

-----------------------------------------------------------------------------
CursorState ==
  [visible : BOOLEAN, x : Int, y : Int, crtc : DOMAIN Crtcs, picture : {None} \cup PictureType,
   shown : [DOMAIN Crtcs -> BOOLEAN], inRange : [DOMAIN Crtcs -> BOOLEAN]]

CursorType == cursor \in CursorState

\* The part of [p, p + size) that lies in [0, limit).
Covers(span, p, size, limit) ==
  {span.at + i : i \in 0 .. span.len - 1} = {i \in p .. p + size - 1 : i \in 0 .. limit - 1}

Pictured(s) ==
  /\ ~s.visible => s.picture = None
  /\ LET m  == Crtcs[s.crtc]
         p  == s.picture
     IN  s.visible /\ s.x \in 1 - CursorW .. m.w - 1 /\ s.y \in 1 - CursorH .. m.h - 1 =>
           /\ p # None /\ p.crtc = s.crtc
           /\ Covers(p.h, s.x, CursorW, m.w) /\ p.h.at - p.h.src = s.x
           /\ Covers(p.v, s.y, CursorH, m.h) /\ p.v.at - p.v.src = s.y

\* The plane the user sees is the cursor the driver believes in
\* (drmmode_show_cursor, drmmode_hide_cursor): off when it is hidden; when it
\* is shown, and touches the CRTC that was asked for it, that CRTC shows the
\* part of the cursor that lies on it, at the last position set, each point of
\* the image at its place.
CursorShown == Pictured(cursor)
=============================================================================
