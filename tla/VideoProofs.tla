---------------------------- MODULE VideoProofs ----------------------------
(***************************************************************************)
(* Theorems about PvrRender and XvVideo, for pixmaps of any size, any      *)
(* requests and any limit of the batches.  What a theorem assumes of the   *)
(* services is said with it.                                               *)
(***************************************************************************)
EXTENDS XvVideo, SequenceTheorems, TLAPS

-----------------------------------------------------------------------------
(* Rectangles *)

\* c is what is left of one axis of a request.
AxisClipped(c, from, to, size, length) ==
  /\ c.from \in Int /\ c.to \in Int /\ c.size \in Int
  /\ 0 <= c.to /\ c.to + c.size <= length
  /\ \A i \in 0 .. length - 1 :
       /\ (c.to <= i /\ i < c.to + c.size) <=> (to <= i /\ i < to + size)
       /\ c.from + (i - c.to) = from + (i - to)

\* Along one axis, what sgxCopy leaves of a request is exactly the part of it
\* that lies in the destination, and it is read from where it was asked for.
LEMMA AxisExact ==
  ASSUME NEW from \in Int, NEW to \in Int, NEW size \in Int, NEW length \in Nat \ {0}
  PROVE  AxisClipped(ClipAxis(from, to, size, length), from, to, size, length)
BY DEF AxisClipped, ClipAxis, Smaller

\* What sgxCopy batches for a request are rectangles, and they do what is asked.
LEMMA ClipExact ==
  ASSUME NEW r \in [from : Point, to : Point, size : Point]
  PROVE  Clip(r) \in Rects /\ Copied(r, Clip(r))
<1> DEFINE X == ClipAxis(r.from.x, r.to.x, r.size.x, Width)
           Y == ClipAxis(r.from.y, r.to.y, r.size.y, Height)
<1>1. /\ r.from.x \in Int /\ r.to.x \in Int /\ r.size.x \in Int
      /\ r.from.y \in Int /\ r.to.y \in Int /\ r.size.y \in Int
      /\ Width \in Nat \ {0} /\ Height \in Nat \ {0}
  BY PixmapsAssumption DEF Point
<1>2. AxisClipped(X, r.from.x, r.to.x, r.size.x, Width)
  BY <1>1, AxisExact
<1>3. AxisClipped(Y, r.from.y, r.to.y, r.size.y, Height)
  BY <1>1, AxisExact
<1>4. Clip(r) = [to |-> Box(X.to, Y.to, X.size, Y.size),
                 from |-> Box(X.from, Y.from, X.size, Y.size), mask |-> None]
  BY DEF Clip
<1> HIDE DEF X, Y
<1>5. Clip(r) \in Rects
  BY <1>2, <1>3, <1>4 DEF AxisClipped, Rects, Rect, Box
<1>6. Inside(Clip(r).to)
  BY <1>1, <1>2, <1>3, <1>4 DEF AxisClipped, Inside, Box
<1>7. ASSUME NEW x \in 0 .. Width - 1, NEW y \in 0 .. Height - 1
      PROVE  /\ Holds(Clip(r).to, x, y)
                  <=> Holds(Box(r.to.x, r.to.y, r.size.x, r.size.y), x, y)
             /\ Clip(r).from.x0 + (x - Clip(r).to.x0) = r.from.x + (x - r.to.x)
             /\ Clip(r).from.y0 + (y - Clip(r).to.y0) = r.from.y + (y - r.to.y)
  BY <1>1, <1>2, <1>3, <1>4, <1>7 DEF AxisClipped, Holds, Box
<1> QED
  BY <1>5, <1>6, <1>7 DEF Copied

\* What sgxComposite makes of a rectangle lies in the surface.
LEMMA FitInside ==
  ASSUME NEW at \in Point, NEW size \in Point, NEW repeat
  PROVE  Fit(at, size, repeat) \in Rect /\ Inside(Fit(at, size, repeat))
<1>1. CASE repeat
  BY <1>1, PixmapsAssumption DEF Fit, Rect, Inside, Box
<1>2. CASE ~repeat
  BY <1>2, PixmapsAssumption DEF Fit, Rect, Point, Inside, Box, Clamp
<1> QED
  BY <1>1, <1>2

\* A rectangle that lies in the surface is kept.
LEMMA FitKept ==
  ASSUME NEW at \in Point, NEW size \in Point
  PROVE  Kept(at, size, Fit(at, size, FALSE))
<1>1. /\ at.x \in Int /\ at.y \in Int /\ size.x \in Int /\ size.y \in Int
      /\ Width \in Nat \ {0} /\ Height \in Nat \ {0}
  BY PixmapsAssumption DEF Point
<1>2. CASE Inside(Box(at.x, at.y, size.x, size.y)) /\ ~Empty(Box(at.x, at.y, size.x, size.y))
  <2>1. /\ 0 <= at.x /\ 0 <= at.y /\ at.x + size.x <= Width /\ at.y + size.y <= Height
        /\ size.x > 0 /\ size.y > 0
    BY <1>1, <1>2 DEF Inside, Empty, Box
  <2>2. /\ Clamp(at.x, 0, Width - 1) = at.x /\ Clamp(at.y, 0, Height - 1) = at.y
        /\ Clamp(size.x, 0, Width - at.x) = size.x /\ Clamp(size.y, 0, Height - at.y) = size.y
    BY <1>1, <2>1 DEF Clamp
  <2> QED
    BY <2>2 DEF Kept, Fit
<1> QED
  BY <1>2 DEF Kept

\* The bounding box grows: it covers a rectangle that is added to it and all it
\* covered.
LEMMA AddRectCovers ==
  ASSUME NEW box \in Rect, NEW r \in Rect, Inside(r)
  PROVE  /\ AddRect(box, r) \in Rect
         /\ ~Empty(r) => Covers(AddRect(box, r), r)
         /\ \A q \in Rect : Inside(q) /\ ~Empty(q) /\ Covers(box, q) => Covers(AddRect(box, r), q)
<1> DEFINE b == IF box = ZeroBox THEN InitBoundingBox ELSE box
<1>1. b \in Rect
  BY PixmapsAssumption DEF Rect, InitBoundingBox
<1>2. \A q \in Rect : ~Empty(q) /\ Covers(box, q) => Covers(b, q)
  BY DEF Rect, Empty, Covers, ZeroBox, Box
<1> DEFINE u == [x0 |-> Smaller(b.x0, r.x0), y0 |-> Smaller(b.y0, r.y0),
                 x1 |-> Larger(b.x1, r.x1), y1 |-> Larger(b.y1, r.y1)]
<1>3. AddRect(box, r) = IF u.x1 <= u.x0 \/ u.y1 <= u.y0 THEN b
                        ELSE [x0 |-> Larger(u.x0, 0), y0 |-> Larger(u.y0, 0),
                              x1 |-> Smaller(u.x1, Width), y1 |-> Smaller(u.y1, Height)]
  BY DEF AddRect
<1> HIDE DEF b
<1>4. u \in Rect /\ Covers(u, r) /\ \A q \in Rect : Covers(b, q) => Covers(u, q)
  BY <1>1 DEF Rect, Covers, Smaller, Larger
<1> HIDE DEF u
<1>5. AddRect(box, r) \in Rect
  BY <1>1, <1>3, <1>4, PixmapsAssumption DEF Rect, Smaller, Larger
<1>6. ASSUME NEW q \in Rect, Inside(q), ~Empty(q), Covers(u, q)
      PROVE  Covers(AddRect(box, r), q)
  BY <1>3, <1>4, <1>6, PixmapsAssumption DEF Rect, Covers, Inside, Empty, Smaller, Larger
<1> QED
  BY <1>2, <1>4, <1>5, <1>6

-----------------------------------------------------------------------------
(* What the GPU does with buffers.  Each operator is shown to preserve Good,   *)
(* for the buffer an operation is drawing to or for none.                      *)

GpuStates == [priv : [Pixmaps -> Records \cup {None}], writing : SUBSET Pixmaps,
              stale : BOOLEAN, wild : BOOLEAN]

\* A buffer the GPU writes to has a record and a mapping, and, if no wait is in
\* vain, is marked unless the operation that draws to it is not done.
Marked(g, busy) ==
  \A b \in g.writing :
    /\ g.priv[b] # None /\ g.priv[b].mapped
    /\ g.priv[b].is_gpu \/ MayFailWait \/ (b = Root /\ ~device.manual) \/ b \in busy

\* Between operations the GPU has nothing to write to the framebuffer of a
\* manually updated panel.
Quiet(g, busy) == ~MayFailWait /\ device.manual /\ Root \in g.writing => Root \in busy

\* Nor does such a panel lag behind it.
Fresh(g, busy) ==
  ~MayFailWait /\ device.manual /\ bo[Root] = Root /\ g.stale => Root \in busy

Good(g, busy) == g \in GpuStates /\ Marked(g, busy) /\ Quiet(g, busy) /\ Fresh(g, busy)

Booleans == device \in Devices /\ bo \in [Pixmaps -> Pixmaps]

\* A mapping: only b's record changes, and what has a mapping keeps it.
LEMMA MapBoFields ==
  ASSUME NEW g \in GpuStates, NEW b \in Pixmaps, NEW ok \in BOOLEAN
  PROVE  /\ MapBo(g, b, ok) \in GpuStates
         /\ MapBo(g, b, ok).writing = g.writing
         /\ MapBo(g, b, ok).stale = g.stale
         /\ \A c \in Pixmaps : c # b => MapBo(g, b, ok).priv[c] = g.priv[c]
         /\ g.priv[b] # None /\ g.priv[b].mapped => MapBo(g, b, ok) = g
         /\ ok => MapBo(g, b, ok).priv[b] # None
         /\ MapBo(g, b, ok).priv[b] # None =>
              /\ MapBo(g, b, ok).priv[b].mapped
              /\ MapBo(g, b, ok).priv[b].is_gpu => g.priv[b] # None /\ g.priv[b].is_gpu
<1>1. CASE g.priv[b] # None /\ g.priv[b].mapped
  <2>1. MapBo(g, b, ok) = g
    BY <1>1 DEF MapBo
  <2> QED
    BY <1>1, <2>1
<1>2. CASE ~(g.priv[b] # None /\ g.priv[b].mapped) /\ ok
  <2> DEFINE marked == g.priv[b] # None /\ g.priv[b].is_gpu
             new == [mapped |-> TRUE, is_gpu |-> marked]
  <2>1. MapBo(g, b, ok) = [g EXCEPT !.priv[b] = new]
    BY <1>2 DEF MapBo
  <2>2. marked \in BOOLEAN
    OBVIOUS
  <2>3. new.is_gpu <=> (g.priv[b] # None /\ g.priv[b].is_gpu)
    BY <2>2
  <2>4. \A v \in BOOLEAN : /\ [mapped |-> TRUE, is_gpu |-> v] \in Records
                            /\ [mapped |-> TRUE, is_gpu |-> v].mapped
    BY DEF Records
  <2>5. new \in Records /\ new.mapped
    BY <2>2, <2>4
  <2> HIDE DEF new
  <2>6. new # None
    BY <2>5, NoneAssumption
  <2>7. /\ MapBo(g, b, ok) \in GpuStates
        /\ MapBo(g, b, ok).writing = g.writing
        /\ MapBo(g, b, ok).stale = g.stale
        /\ MapBo(g, b, ok).priv[b] = new
        /\ \A c \in Pixmaps : c # b => MapBo(g, b, ok).priv[c] = g.priv[c]
    BY <2>1, <2>5 DEF GpuStates
  <2>8. /\ MapBo(g, b, ok).priv[b] # None /\ MapBo(g, b, ok).priv[b].mapped
        /\ MapBo(g, b, ok).priv[b].is_gpu => g.priv[b] # None /\ g.priv[b].is_gpu
    BY <2>3, <2>5, <2>6, <2>7
  <2> QED
    BY <1>2, <2>7, <2>8
<1>3. CASE ~(g.priv[b] # None /\ g.priv[b].mapped) /\ ~ok
  <2>1. MapBo(g, b, ok) = [g EXCEPT !.priv[b] = None]
    BY <1>3 DEF MapBo
  <2> QED
    BY <1>3, <2>1 DEF GpuStates
<1> QED
  BY <1>1, <1>2, <1>3

\* A mapping that is not refused makes a record, and takes none away.
LEMMA MapBoMakes ==
  ASSUME NEW g \in GpuStates, NEW b \in Pixmaps
  PROVE  /\ MapBo(g, b, TRUE) \in GpuStates /\ MapBo(g, b, TRUE).priv[b] # None
         /\ \A c \in Pixmaps : g.priv[c] # None => MapBo(g, b, TRUE).priv[c] # None
<1>1. TRUE \in BOOLEAN
  OBVIOUS
<1>2. /\ MapBo(g, b, TRUE) \in GpuStates /\ MapBo(g, b, TRUE).priv[b] # None
      /\ \A c \in Pixmaps : c # b => MapBo(g, b, TRUE).priv[c] = g.priv[c]
  BY <1>1, MapBoFields
<1> QED
  BY <1>2

\* What has no mapping is not drawn to, so its record may be made or lost.
LEMMA MapBoGood ==
  ASSUME NEW g, NEW busy, Good(g, busy), NEW b \in Pixmaps, NEW ok \in BOOLEAN
  PROVE  Good(MapBo(g, b, ok), busy)
<1> DEFINE m == MapBo(g, b, ok)
<1>1. /\ m \in GpuStates /\ m.writing = g.writing /\ m.stale = g.stale
      /\ \A c \in Pixmaps : c # b => m.priv[c] = g.priv[c]
      /\ g.priv[b] # None /\ g.priv[b].mapped => m = g
  BY MapBoFields DEF Good
<1> HIDE DEF m
<1>2. \A c \in g.writing : m.priv[c] = g.priv[c] /\ c \in Pixmaps
  BY <1>1 DEF Good, Marked, GpuStates
<1>3. Marked(m, busy)
  BY <1>1, <1>2 DEF Good, Marked
<1>4. Quiet(m, busy) /\ Fresh(m, busy)
  BY <1>1 DEF Good, Quiet, Fresh
<1>5. Good(m, busy)
  BY <1>1, <1>3, <1>4 DEF Good
<1> QED
  BY <1>5 DEF m

\* The end of what is queued for b.
LEMMA WrittenFields ==
  ASSUME NEW g \in GpuStates, NEW b \in Pixmaps
  PROVE  /\ Written(g, b) \in GpuStates
         /\ Written(g, b).priv = g.priv
         /\ Written(g, b).writing = g.writing \ {b}
         /\ Written(g, b).stale = (g.stale \/ (device.manual /\ b = bo[Root] /\ b \in g.writing))
<1>1. (g.stale \/ (device.manual /\ b = bo[Root] /\ b \in g.writing)) \in BOOLEAN
  OBVIOUS
<1> QED
  BY <1>1 DEF Written, GpuStates

\* What the GPU finishes leaves the rest as it was.
LEMMA WrittenGood ==
  ASSUME NEW g, NEW busy, Good(g, busy), NEW b \in Pixmaps
  PROVE  Good(Written(g, b), busy)
<1> DEFINE w == Written(g, b)
<1>1. /\ w \in GpuStates /\ w.priv = g.priv
      /\ w.writing = g.writing \ {b}
      /\ w.stale = (g.stale \/ (device.manual /\ b = bo[Root] /\ b \in g.writing))
  BY WrittenFields DEF Good
<1> HIDE DEF w
<1>2. Marked(w, busy) /\ Quiet(w, busy)
  BY <1>1 DEF Good, Marked, Quiet
<1>3. Fresh(w, busy)
  BY <1>1 DEF Good, Quiet, Fresh
<1>4. Good(w, busy)
  BY <1>1, <1>2, <1>3 DEF Good
<1> QED
  BY <1>4 DEF w

\* What sgxWaitPixmap leaves: b has no record, or b's mark is gone.
Waited(g, b) ==
  \/ g.priv[b] = None
  \/ ~g.priv[b].is_gpu

\* A record that is no longer marked.
LEMMA UnmarkFields ==
  ASSUME NEW g \in GpuStates, NEW b \in Pixmaps, NEW v \in BOOLEAN, g.priv[b] # None
  PROVE  /\ [g EXCEPT !.priv[b].is_gpu = v] \in GpuStates
         /\ [g EXCEPT !.priv[b].is_gpu = v].writing = g.writing
         /\ [g EXCEPT !.priv[b].is_gpu = v].stale = g.stale
         /\ \A c \in Pixmaps : c # b => [g EXCEPT !.priv[b].is_gpu = v].priv[c] = g.priv[c]
         /\ [g EXCEPT !.priv[b].is_gpu = v].priv[b] # None
         /\ [g EXCEPT !.priv[b].is_gpu = v].priv[b].is_gpu = v
         /\ [g EXCEPT !.priv[b].is_gpu = v].priv[b].mapped = g.priv[b].mapped
<1> DEFINE new == [g.priv[b] EXCEPT !.is_gpu = v]
<1>1. g.priv[b] \in Records
  BY DEF GpuStates
<1>2. new \in Records /\ new.is_gpu = v /\ new.mapped = g.priv[b].mapped
  BY <1>1 DEF Records
<1>3. new # None
  BY <1>2, NoneAssumption
<1>4. [g EXCEPT !.priv[b].is_gpu = v] = [g EXCEPT !.priv[b] = new]
  BY DEF GpuStates
<1> HIDE DEF new
<1> DEFINE u == [g EXCEPT !.priv[b] = new]
<1>5. /\ u \in GpuStates /\ u.writing = g.writing /\ u.stale = g.stale
      /\ u.priv[b] = new /\ \A c \in Pixmaps : c # b => u.priv[c] = g.priv[c]
  BY <1>2 DEF GpuStates
<1> HIDE DEF u
<1>6. [g EXCEPT !.priv[b].is_gpu = v] = u
  BY <1>4 DEF u
<1> QED
  BY <1>2, <1>3, <1>5, <1>6

\* The mark may go when nothing queued for b depends on it.
LEMMA UnmarkGood ==
  ASSUME NEW g, NEW busy, Good(g, busy), NEW b \in Pixmaps, g.priv[b] # None,
         b \in g.writing /\ g.priv[b].is_gpu => MayFailWait \/ (b = Root /\ ~device.manual)
  PROVE  /\ Good(Unmark(g, b), busy)
         /\ Unmark(g, b).writing = g.writing
         /\ Waited(Unmark(g, b), b)
         /\ \A c \in Pixmaps : Waited(g, c) => Waited(Unmark(g, b), c)
<1> DEFINE u == [g EXCEPT !.priv[b].is_gpu = FALSE]
<1>1. /\ u \in GpuStates /\ u.writing = g.writing /\ u.stale = g.stale
      /\ \A c \in Pixmaps : c # b => u.priv[c] = g.priv[c]
      /\ u.priv[b] # None /\ u.priv[b].is_gpu = FALSE /\ u.priv[b].mapped = g.priv[b].mapped
  BY UnmarkFields DEF Good
<1> HIDE DEF u
<1>2. Marked(u, busy)
  <2> SUFFICES ASSUME NEW c \in u.writing
               PROVE  /\ u.priv[c] # None /\ u.priv[c].mapped
                      /\ \/ u.priv[c].is_gpu \/ MayFailWait
                         \/ (c = Root /\ ~device.manual) \/ c \in busy
    BY DEF Marked
  <2>1. /\ c \in Pixmaps /\ c \in g.writing
        /\ g.priv[c] # None /\ g.priv[c].mapped
        /\ g.priv[c].is_gpu \/ MayFailWait \/ (c = Root /\ ~device.manual) \/ c \in busy
    BY <1>1 DEF Good, Marked, GpuStates
  <2>2. CASE c = b
    BY <1>1, <2>1, <2>2
  <2>3. CASE c # b
    BY <1>1, <2>1, <2>3
  <2> QED
    BY <2>2, <2>3
<1>3. Quiet(u, busy) /\ Fresh(u, busy)
  BY <1>1 DEF Good, Quiet, Fresh
<1>4. Good(u, busy)
  BY <1>1, <1>2, <1>3 DEF Good
<1>5. Waited(u, b) /\ \A c \in Pixmaps : Waited(g, c) => Waited(u, c)
  BY <1>1 DEF Waited
<1> QED
  BY <1>1, <1>4, <1>5 DEF u, Unmark

\* A record that was written to after it was freed.
LEMMA WildGood ==
  ASSUME NEW g, NEW busy, Good(g, busy)
  PROVE  /\ Good([g EXCEPT !.wild = TRUE], busy)
         /\ [g EXCEPT !.wild = TRUE].priv = g.priv
         /\ [g EXCEPT !.wild = TRUE].writing = g.writing
<1> DEFINE w == [g EXCEPT !.wild = TRUE]
<1>1. w \in GpuStates /\ w.priv = g.priv /\ w.writing = g.writing /\ w.stale = g.stale
  BY DEF Good, GpuStates
<1> HIDE DEF w
<1>2. Marked(w, busy) /\ Quiet(w, busy) /\ Fresh(w, busy)
  BY <1>1 DEF Good, Marked, Quiet, Fresh
<1> QED
  BY <1>1, <1>2 DEF Good, w

\* The wait for a buffer that is marked: it is mapped again, or its record is
\* gone; then the GPU is done, unless the wait may be in vain.
LEMMA AwaitedGood ==
  ASSUME NEW g, NEW busy, Good(g, busy), NEW b \in Pixmaps, g.priv[b] # None,
         Awaited(g, b), NEW answer \in Answers
  PROVE  /\ Good(WaitFor(g, b, answer), busy) /\ Waited(WaitFor(g, b, answer), b)
         /\ \A c \in Pixmaps : Waited(g, c) => Waited(WaitFor(g, b, answer), c)
         /\ ~MayFailWait => b \notin WaitFor(g, b, answer).writing
<1> DEFINE ok == answer # "unmapped"
           m == MapBo(g, b, ok)
           r == WaitFor(g, b, answer)
<1>1. ok \in BOOLEAN /\ (~MayFailWait => answer = "done")
  BY DEF Answers
<1>9. ok <=> answer # "unmapped"
  OBVIOUS
<1>2. Good(m, busy)
  BY <1>1, MapBoGood
<1>3. /\ \A c \in Pixmaps : c # b => m.priv[c] = g.priv[c]
      /\ answer # "unmapped" => m.priv[b] # None
      /\ m.priv[b] # None => (m.priv[b].is_gpu => g.priv[b].is_gpu)
  <2> HIDE DEF ok
  <2>1. g \in GpuStates
    BY DEF Good
  <2> QED
    BY <1>1, <1>9, <2>1, MapBoFields DEF m
<1>4. /\ m.priv[b] = None => r = [m EXCEPT !.wild = TRUE]
      /\ m.priv[b] # None /\ answer = "unanswered" => r = Unmark(m, b)
      /\ m.priv[b] # None /\ answer # "unanswered" => r = Unmark(Written(m, b), b)
  <2> HIDE DEF m
  <2>1. r = CASE ~Awaited(g, b) -> Unmark(g, b)
              [] Awaited(g, b) /\ m.priv[b] = None -> [m EXCEPT !.wild = TRUE]
              [] Awaited(g, b) /\ m.priv[b] # None /\ answer = "unanswered" -> Unmark(m, b)
              [] OTHER -> Unmark(Written(m, b), b)
    BY DEF WaitFor, m
  <2> QED
    BY <2>1
<1> HIDE DEF m, r, ok
<1>5. \A c \in Pixmaps : Waited(g, c) => Waited(m, c)
  BY <1>3 DEF Waited
<1>6. CASE m.priv[b] = None
  BY <1>1, <1>2, <1>3, <1>4, <1>5, <1>6, WildGood DEF Waited, r
<1>7. CASE m.priv[b] # None /\ answer = "unanswered"
  <2>1. MayFailWait
    BY <1>1, <1>7
  <2>2. /\ Good(Unmark(m, b), busy) /\ Waited(Unmark(m, b), b)
        /\ \A c \in Pixmaps : Waited(m, c) => Waited(Unmark(m, b), c)
    BY <1>2, <1>7, <2>1, UnmarkGood
  <2> QED
    BY <1>4, <1>5, <1>7, <2>1, <2>2 DEF r
<1>8. CASE m.priv[b] # None /\ answer # "unanswered"
  <2> DEFINE w == Written(m, b)
  <2>1. Good(w, busy) /\ w.priv = m.priv /\ b \notin w.writing
    BY <1>2, WrittenGood, WrittenFields DEF Good
  <2> HIDE DEF w
  <2>2. /\ Good(Unmark(w, b), busy) /\ Unmark(w, b).writing = w.writing
        /\ Waited(Unmark(w, b), b)
        /\ \A c \in Pixmaps : Waited(w, c) => Waited(Unmark(w, b), c)
    BY <1>8, <2>1, UnmarkGood
  <2>3. \A c \in Pixmaps : Waited(m, c) => Waited(w, c)
    BY <2>1 DEF Waited
  <2>4. r = Unmark(w, b)
    BY <1>4, <1>8 DEF w
  <2> QED
    BY <1>5, <2>1, <2>2, <2>3, <2>4 DEF r
<1> QED
  BY <1>6, <1>7, <1>8

\* sgxWaitPixmap: p is waited for, nothing is marked that was not, and, unless
\* the wait may be in vain, the GPU is done with a framebuffer that had to be
\* waited for.
LEMMA WaitPixmapGood ==
  ASSUME Booleans, NEW g, NEW busy, Good(g, busy), NEW p \in Pixmaps \cup {None},
         NEW answer \in Answers
  PROVE  /\ Good(WaitPixmap(g, p, answer), busy)
         /\ p # None => Waited(WaitPixmap(g, p, answer), bo[p])
         /\ \A c \in Pixmaps : Waited(g, c) => Waited(WaitPixmap(g, p, answer), c)
         /\ ~MayFailWait /\ p # None /\ device.manual /\ ~Waited(g, bo[p]) =>
              bo[p] \notin WaitPixmap(g, p, answer).writing
<1>1. CASE p = None \/ g.priv[bo[p]] = None
  <2>1. WaitPixmap(g, p, answer) = g
    BY <1>1 DEF WaitPixmap
  <2> QED
    BY <1>1, <2>1 DEF Waited
<1>2. CASE ~(p = None \/ g.priv[bo[p]] = None)
  <2> DEFINE b == bo[p]
             r == WaitFor(g, b, answer)
  <2>1. WaitPixmap(g, p, answer) = r
    BY <1>2 DEF WaitPixmap
  <2>2. b \in Pixmaps /\ g.priv[b] # None
    BY <1>2 DEF Booleans
  <2>3. b = bo[p]
    OBVIOUS
  <2> HIDE DEF b
  <2>4. CASE Awaited(g, b)
    <3>1. /\ Good(r, busy) /\ Waited(r, b) /\ \A c \in Pixmaps : Waited(g, c) => Waited(r, c)
          /\ ~MayFailWait => b \notin r.writing
      BY <2>2, <2>4, AwaitedGood
    <3> HIDE DEF r
    <3> QED
      BY <2>1, <2>3, <3>1
  <2>5. CASE ~Awaited(g, b)
    <3>1. r = Unmark(g, b)
      BY <2>5 DEF WaitFor
    <3>2. b \in g.writing /\ g.priv[b].is_gpu => b = Root /\ ~device.manual
      BY <2>5 DEF Awaited
    <3>3. /\ Good(Unmark(g, b), busy) /\ Waited(Unmark(g, b), b)
          /\ \A c \in Pixmaps : Waited(g, c) => Waited(Unmark(g, b), c)
      BY <2>2, <3>2, UnmarkGood
    <3>4. ~(device.manual /\ ~Waited(g, b))
      BY <2>5 DEF Awaited, Waited
    <3> QED
      BY <2>1, <2>3, <3>1, <3>3, <3>4
  <2> QED
    BY <2>4, <2>5
<1> QED
  BY <1>1, <1>2

\* An operation that ends leaves the destination marked, or, if that is the
\* framebuffer of a manually updated panel, drawn and sent to it.
LEMMA FlushGood ==
  ASSUME Booleans, NEW p \in Pixmaps, NEW g, Good(g, {bo[p]}), g.priv[bo[p]] # None,
         NEW answer \in Answers
  PROVE  Good(FlushScanout(OnGpu(g, p), p, answer), {})
<1> DEFINE b == bo[p]
           u == [g EXCEPT !.priv[b].is_gpu = TRUE]
<1>1. b \in Pixmaps /\ g \in GpuStates /\ g.priv[b] # None
  BY DEF Booleans, Good
<1>9. Good(g, {b})
  OBVIOUS
<1> HIDE DEF b
<1>2. /\ u \in GpuStates /\ u.writing = g.writing /\ u.stale = g.stale
      /\ \A c \in Pixmaps : c # b => u.priv[c] = g.priv[c]
      /\ u.priv[b] # None /\ u.priv[b].is_gpu = TRUE /\ u.priv[b].mapped = g.priv[b].mapped
  BY <1>1, UnmarkFields
<1>3. OnGpu(g, p) = u
  BY DEF OnGpu, b
<1> HIDE DEF u
<1>4. \A c \in u.writing :
        /\ c \in Pixmaps /\ u.priv[c] # None /\ u.priv[c].mapped
        /\ u.priv[c].is_gpu \/ MayFailWait \/ (c = Root /\ ~device.manual)
  <2> SUFFICES ASSUME NEW c \in u.writing
               PROVE  /\ c \in Pixmaps /\ u.priv[c] # None /\ u.priv[c].mapped
                      /\ u.priv[c].is_gpu \/ MayFailWait \/ (c = Root /\ ~device.manual)
    OBVIOUS
  <2>1. /\ c \in Pixmaps /\ g.priv[c] # None /\ g.priv[c].mapped
        /\ g.priv[c].is_gpu \/ MayFailWait \/ (c = Root /\ ~device.manual) \/ c = b
    BY <1>2, <1>9 DEF Good, Marked, GpuStates
  <2>2. CASE c = b
    BY <1>2, <2>1, <2>2
  <2>3. CASE c # b
    BY <1>2, <2>1, <2>3
  <2> QED
    BY <2>2, <2>3
<1>5. Marked(u, {}) /\ Marked(u, {b})
  BY <1>4 DEF Marked
<1>6. Quiet(u, {b}) /\ Fresh(u, {b})
  BY <1>2, <1>9 DEF Good, Quiet, Fresh
<1>7. CASE device.manual /\ b = Root
  <2> DEFINE w == WaitPixmap(u, p, answer)
  <2>1. Good(u, {b})
    BY <1>2, <1>5, <1>6 DEF Good
  <2>2. ~Waited(u, b) /\ p # None
    BY <1>2, PixmapsAssumption DEF Waited
  <2>3. Good(w, {b}) /\ Waited(w, b) /\ (~MayFailWait => b \notin w.writing)
    BY <1>7, <2>1, <2>2, WaitPixmapGood DEF b
  <2> HIDE DEF w
  <2>4. FlushScanout(u, p, answer) = [w EXCEPT !.stale = FALSE]
    BY <1>7 DEF FlushScanout, Dirty, w, b
  <2> DEFINE d == [w EXCEPT !.stale = FALSE]
  <2>5. d \in GpuStates /\ d.priv = w.priv /\ d.writing = w.writing /\ d.stale = FALSE
    BY <2>3 DEF Good, GpuStates
  <2> HIDE DEF d
  <2>6. Marked(d, {})
    BY <2>3, <2>5 DEF Good, Marked, Waited
  <2>7. Quiet(d, {}) /\ Fresh(d, {})
    BY <1>7, <2>3, <2>5 DEF Quiet, Fresh
  <2>8. Good(d, {})
    BY <2>5, <2>6, <2>7 DEF Good
  <2> QED
    BY <1>3, <2>4, <2>8 DEF d
<1>8. CASE ~(device.manual /\ b = Root)
  <2>1. FlushScanout(u, p, answer) = u
    BY <1>8 DEF FlushScanout, b
  <2>2. Quiet(u, {}) /\ Fresh(u, {})
    BY <1>6, <1>8 DEF Quiet, Fresh
  <2> QED
    BY <1>2, <1>3, <1>5, <2>1, <2>2 DEF Good
<1> QED
  BY <1>7, <1>8

\* Drawing to b, which is mapped, while b's operation is not done.
LEMMA QueuedGood ==
  ASSUME NEW b \in Pixmaps, NEW g, Good(g, {b}), g.priv[b] # None, g.priv[b].mapped
  PROVE  Good(Queued(g, b), {b}) /\ Queued(g, b).priv = g.priv
<1> DEFINE q == Queued(g, b)
<1>1. /\ q \in GpuStates /\ q.priv = g.priv /\ q.writing = g.writing \cup {b}
      /\ q.stale = g.stale
  BY DEF Queued, Good, GpuStates
<1> HIDE DEF q
<1>2. Marked(q, {b}) /\ Quiet(q, {b}) /\ Fresh(q, {b})
  BY <1>1 DEF Good, Marked, Quiet, Fresh
<1> QED
  BY <1>1, <1>2 DEF Good, q

\* A buffer that has a record has a mapping.
Backed(g, b) == g.priv[b] # None => g.priv[b].mapped

\* A record never comes without a mapping from sgxMapPixmapBo.
LEMMA MapBoBacked ==
  ASSUME NEW g \in GpuStates, NEW b \in Pixmaps, NEW ok \in BOOLEAN
  PROVE  /\ Backed(MapBo(g, b, ok), b)
         /\ \A c \in Pixmaps : Backed(g, c) => Backed(MapBo(g, b, ok), c)
<1>1. /\ \A c \in Pixmaps : c # b => MapBo(g, b, ok).priv[c] = g.priv[c]
      /\ MapBo(g, b, ok).priv[b] # None => MapBo(g, b, ok).priv[b].mapped
  BY MapBoFields
<1> QED
  BY <1>1 DEF Backed

\* A composite maps its pixmaps before it is drawn.
LEMMA MappedGood ==
  ASSUME Booleans, NEW g, NEW busy, Good(g, busy), NEW o,
         o.dst \in Pixmaps, o.src \in Pixmaps, o.mask \in Pixmaps \cup {None},
         NEW ok \in MapAnswers
  PROVE  /\ Good(Mapped(g, o, ok), busy)
         /\ o.kind = "composite" => Backed(Mapped(g, o, ok), bo[o.dst])
         /\ o.kind # "composite" => Mapped(g, o, ok) = g
<1>1. CASE o.kind # "composite"
  BY <1>1 DEF Mapped
<1>2. CASE o.kind = "composite"
  <2> DEFINE m1 == MapBo(g, bo[o.dst], ok.dst)
             m2 == MapBo(m1, bo[o.src], ok.src)
             m3 == MapBo(m2, bo[o.mask], ok.mask)
  <2>1. /\ ok.dst \in BOOLEAN /\ ok.src \in BOOLEAN /\ ok.mask \in BOOLEAN
        /\ bo[o.dst] \in Pixmaps /\ bo[o.src] \in Pixmaps
        /\ o.mask # None => bo[o.mask] \in Pixmaps
    BY DEF MapAnswers, Booleans
  <2>2. Mapped(g, o, ok) = IF o.mask = None THEN m2 ELSE m3
    BY <1>2 DEF Mapped
  <2>3. Good(m1, busy) /\ Backed(m1, bo[o.dst])
    BY <2>1, MapBoGood, MapBoBacked DEF Good
  <2> HIDE DEF m1
  <2>4. Good(m2, busy) /\ Backed(m2, bo[o.dst])
    BY <2>1, <2>3, MapBoGood, MapBoBacked DEF Good
  <2> HIDE DEF m2
  <2>5. o.mask # None => Good(m3, busy) /\ Backed(m3, bo[o.dst])
    BY <2>1, <2>4, MapBoGood, MapBoBacked DEF Good
  <2> HIDE DEF m3
  <2> QED
    BY <1>2, <2>2, <2>4, <2>5
<1> QED
  BY <1>1, <1>2

\* If no mapping is refused, a composite has all it uses.
LEMMA MappedDrawable ==
  ASSUME Booleans, NEW g \in GpuStates, NEW o,
         o.dst \in Pixmaps, o.src \in Pixmaps, o.mask \in Pixmaps \cup {None}
  PROVE  Drawable(Mapped(g, o, Yes), o)
<1>1. CASE o.kind # "composite"
  BY <1>1 DEF Drawable
<1>2. CASE o.kind = "composite"
  <2> DEFINE m1 == MapBo(g, bo[o.dst], TRUE)
             m2 == MapBo(m1, bo[o.src], TRUE)
             m3 == MapBo(m2, bo[o.mask], TRUE)
  <2>1. /\ bo[o.dst] \in Pixmaps /\ bo[o.src] \in Pixmaps
        /\ o.mask # None => bo[o.mask] \in Pixmaps
    BY DEF Booleans
  <2>2. Mapped(g, o, Yes) = IF o.mask = None THEN m2 ELSE m3
    BY <1>2 DEF Mapped, Yes
  <2>3. m1 \in GpuStates /\ m1.priv[bo[o.dst]] # None
    BY <2>1, MapBoMakes
  <2> HIDE DEF m1
  <2>4. m2 \in GpuStates /\ m2.priv[bo[o.dst]] # None /\ m2.priv[bo[o.src]] # None
    BY <2>1, <2>3, MapBoMakes
  <2> HIDE DEF m2
  <2>5. o.mask # None =>
          m3.priv[bo[o.dst]] # None /\ m3.priv[bo[o.src]] # None /\ m3.priv[bo[o.mask]] # None
    BY <2>1, <2>4, MapBoMakes
  <2> HIDE DEF m3
  <2> QED
    BY <2>2, <2>4, <2>5 DEF Drawable
<1> QED
  BY <1>1, <1>2

\* How a flush ends: with the GPU's state after the mappings a composite takes,
\* and what it draws to written to if it draws anything.
LEMMA FlushedIs ==
  ASSUME NEW o, NEW f \in Flushed(o)
  PROVE  \/ f.gpu = gpu /\ f.taken = 0 /\ Batch(o) = 0
         \/ \E ok \in MapAnswers : \E n \in Taken(o) :
              /\ f.gpu = Given(Mapped(gpu, o, ok), o, n) /\ f.taken = n
              /\ Drawable(Mapped(gpu, o, ok), o)
         \/ \E ok \in MapAnswers :
              /\ f.gpu = Mapped(gpu, o, ok) /\ f.taken = 0
              /\ ~Drawable(Mapped(gpu, o, ok), o) \/ NotDrawn(o)
<1>1. Yes \in MapAnswers
  BY DEF Yes, MapAnswers
<1>2. CASE Batch(o) = 0
  <2>1. f = [gpu |-> gpu, taken |-> 0]
    BY <1>2 DEF Flushed
  <2> QED
    BY <1>2, <2>1
<1>3. CASE Batch(o) # 0
  <2> DEFINE after == {Mapped(gpu, o, ok) : ok \in IF MayRefuse THEN MapAnswers ELSE {Yes}}
  <2>1. \/ \E g \in after : \E n \in Taken(o) :
             f = [gpu |-> Given(g, o, n), taken |-> n] /\ Drawable(g, o)
        \/ \E g \in after :
             f = [gpu |-> g, taken |-> 0] /\ (~Drawable(g, o) \/ NotDrawn(o))
    BY <1>3 DEF Flushed
  <2>2. \A g \in after : \E ok \in MapAnswers : g = Mapped(gpu, o, ok)
    BY <1>1
  <2> HIDE DEF after
  <2>3. ASSUME NEW g \in after, NEW n \in Taken(o),
               f = [gpu |-> Given(g, o, n), taken |-> n], Drawable(g, o)
        PROVE  \E ok \in MapAnswers : \E k \in Taken(o) :
                 /\ f.gpu = Given(Mapped(gpu, o, ok), o, k) /\ f.taken = k
                 /\ Drawable(Mapped(gpu, o, ok), o)
    <3>1. PICK ok \in MapAnswers : g = Mapped(gpu, o, ok)
      BY <2>2
    <3>2. f.gpu = Given(Mapped(gpu, o, ok), o, n) /\ f.taken = n
          /\ Drawable(Mapped(gpu, o, ok), o)
      BY <2>3, <3>1
    <3> QED
      BY <3>2
  <2>4. ASSUME NEW g \in after, f = [gpu |-> g, taken |-> 0],
               ~Drawable(g, o) \/ NotDrawn(o)
        PROVE  \E ok \in MapAnswers :
                 /\ f.gpu = Mapped(gpu, o, ok) /\ f.taken = 0
                 /\ ~Drawable(Mapped(gpu, o, ok), o) \/ NotDrawn(o)
    <3>1. PICK ok \in MapAnswers : g = Mapped(gpu, o, ok)
      BY <2>2
    <3> QED
      BY <2>4, <3>1
  <2> QED
    BY <2>1, <2>3, <2>4
<1> QED
  BY <1>2, <1>3

\* The GPU takes a batch: what it draws to is mapped, and the operation that
\* draws is not done.
LEMMA FlushedGood ==
  ASSUME Booleans, NEW o, o.dst \in Pixmaps, o.src \in Pixmaps, o.mask \in Pixmaps \cup {None},
         Good(gpu, {bo[o.dst]}),
         o.kind # "composite" => gpu.priv[bo[o.dst]] # None /\ gpu.priv[bo[o.dst]].mapped,
         NEW f \in Flushed(o)
  PROVE  /\ Good(f.gpu, {bo[o.dst]})
         /\ o.kind # "composite" => f.gpu.priv[bo[o.dst]] # None /\ f.gpu.priv[bo[o.dst]].mapped
<1>1. CASE f.gpu = gpu
  BY <1>1
<1>2. ASSUME NEW ok \in MapAnswers, NEW n,
             \/ f.gpu = Mapped(gpu, o, ok)
             \/ f.gpu = Given(Mapped(gpu, o, ok), o, n) /\ Drawable(Mapped(gpu, o, ok), o)
      PROVE  /\ Good(f.gpu, {bo[o.dst]})
             /\ o.kind # "composite" =>
                  f.gpu.priv[bo[o.dst]] # None /\ f.gpu.priv[bo[o.dst]].mapped
  <2> DEFINE m == Mapped(gpu, o, ok)
             h == f.gpu
  <2>1. h = m \/ (h = Queued(m, bo[o.dst]) /\ Drawable(m, o))
    BY <1>2 DEF Given
  <2>2. /\ Good(m, {bo[o.dst]})
        /\ o.kind = "composite" => Backed(m, bo[o.dst])
        /\ o.kind # "composite" => m = gpu
    BY MappedGood
  <2>3. bo[o.dst] \in Pixmaps
    BY DEF Booleans
  <2> HIDE DEF m, h
  <2>4. CASE h = m
    BY <2>2, <2>4 DEF h
  <2>5. CASE h = Queued(m, bo[o.dst]) /\ Drawable(m, o)
    <3>1. m.priv[bo[o.dst]] # None /\ m.priv[bo[o.dst]].mapped
      BY <2>2, <2>5 DEF Backed, Drawable
    <3>2. Good(h, {bo[o.dst]}) /\ h.priv = m.priv
      BY <2>2, <2>3, <2>5, <3>1, QueuedGood
    <3> QED
      BY <3>1, <3>2 DEF h
  <2> QED
    BY <2>1, <2>4, <2>5
<1> QED
  BY <1>1, <1>2, FlushedIs

\* If the services refuse nothing, the GPU is given all of the batch.
LEMMA FlushedAll ==
  ASSUME Booleans, gpu \in GpuStates, ~MayRefuse, NEW o,
         o.dst \in Pixmaps, o.src \in Pixmaps, o.mask \in Pixmaps \cup {None},
         NEW f \in Flushed(o)
  PROVE  f.taken = Batch(o) \/ NotDrawn(o)
<1>1. CASE Batch(o) = 0
  BY <1>1 DEF Flushed
<1>2. CASE Batch(o) # 0
  <2>1. \/ \E n \in Taken(o) : f.taken = n
        \/ ~Drawable(Mapped(gpu, o, Yes), o) \/ NotDrawn(o)
    BY <1>2 DEF Flushed
  <2> QED
    BY <2>1, MappedDrawable DEF Taken
<1> QED
  BY <1>1, <1>2

-----------------------------------------------------------------------------
(* Batches *)

Kinds == {"solid", "copy", "composite"}

Requests == Solids \cup Copies \cup Composites

\* The batch of o holds the requests s: BatchKept, of an operation.
Holding(o, s) ==
  /\ o.bltRectsIdx = o.numBltRects /\ o.bltRectsIdx < Limit(o.kind)
  /\ Len(s) = o.numBltRects
  /\ \A i \in 0 .. o.numBltRects - 1 :
       /\ o.rects[i] # None /\ Drawn(o, s[i + 1], o.rects[i])
       /\ o.kind # "solid" /\ ~Empty(o.rects[i].to) => Covers(o.destBoundBox, o.rects[i].to)

\* An operation has the array of its kind.
LEMMA OpsByKind ==
  /\ \A k \in Kinds : Limit(k) \in Nat \ {0}
  /\ \A o \in Ops : o.kind \in Kinds /\ o \in OpsOf(Kinds, Limit(o.kind))
  /\ \A o : \A k \in Kinds : o \in OpsOf({k}, Limit(k)) => o \in Ops
BY MaxAssumption DEF Kinds, Limit, Ops, OpsOf

\* What the rectangles of a request depend on stays as it is.
LEMMA DrawnByKind ==
  ASSUME NEW o, NEW a, a.kind = o.kind, a.mask = o.mask, a.picture = o.picture,
         NEW r, NEW rects
  PROVE  Drawn(o, r, rects) = Drawn(a, r, rects)
BY DEF Drawn, Composed

\* A new operation has an empty batch.
LEMMA NewOpKept ==
  ASSUME NEW k \in Kinds, NEW dst \in Pixmaps, NEW src \in Pixmaps,
         NEW mask, mask \in Pixmaps \cup {None}, NEW picture, picture \in Pictures \cup {None},
         NEW o, o = NewOp(k, dst, src, mask, picture)
  PROVE  o \in Ops /\ o.kind = k /\ o.dst = dst /\ Holding(o, <<>>)
<1> DEFINE box == IF k = "solid" THEN ZeroBox ELSE InitBoundingBox
           array == [i \in 0 .. Limit(k) - 1 |-> None]
<1>1. box \in Rect
  BY PixmapsAssumption DEF Rect, ZeroBox, Box, InitBoundingBox
<1>2. array \in [0 .. Limit(k) - 1 -> Rects \cup {None}]
  OBVIOUS
<1>3. o = [kind |-> k, dst |-> dst, src |-> src, mask |-> mask, picture |-> picture,
           numBltRects |-> 0, bltRectsIdx |-> 0, rects |-> array, destBoundBox |-> box]
  BY DEF NewOp
<1> HIDE DEF box, array
<1>4. o \in OpsOf({k}, Limit(k))
  BY <1>1, <1>2, <1>3 DEF OpsOf
<1>5. /\ o.kind = k /\ o.dst = dst /\ o.numBltRects = 0 /\ o.bltRectsIdx = 0
  BY <1>3
<1>6. Holding(o, <<>>)
  BY <1>5, OpsByKind DEF Holding
<1>7. o \in Ops
  BY <1>4, OpsByKind
<1> QED
  BY <1>5, <1>6, <1>7

\* The fields of a batch that a rectangle is added to.
LEMMA AddFields ==
  ASSUME NEW o \in Ops, o.bltRectsIdx \in 0 .. Limit(o.kind) - 1,
         NEW rects \in Rects, o.kind # "solid" => Inside(rects.to)
  PROVE  /\ Add(o, rects) \in Ops
         /\ Add(o, rects).kind = o.kind /\ Add(o, rects).dst = o.dst
         /\ Add(o, rects).src = o.src /\ Add(o, rects).mask = o.mask
         /\ Add(o, rects).picture = o.picture
         /\ Add(o, rects).numBltRects = o.numBltRects + 1
         /\ Add(o, rects).bltRectsIdx = o.bltRectsIdx
         /\ Add(o, rects).rects = [o.rects EXCEPT ![o.bltRectsIdx] = rects]
         /\ o.kind # "solid" => Add(o, rects).destBoundBox = AddRect(o.destBoundBox, rects.to)
<1> DEFINE box == IF o.kind = "solid" THEN ZeroBox ELSE AddRect(o.destBoundBox, rects.to)
           array == [o.rects EXCEPT ![o.bltRectsIdx] = rects]
           a == Add(o, rects)
<1>1. o.kind \in Kinds /\ o \in OpsOf(Kinds, Limit(o.kind))
  BY OpsByKind
<1>2. box \in Rect
  <2>1. ZeroBox \in Rect
    BY DEF Rect, ZeroBox, Box
  <2>2. o.destBoundBox \in Rect /\ rects.to \in Rect
    BY <1>1 DEF OpsOf, Rects
  <2> QED
    BY <2>1, <2>2, AddRectCovers
<1>3. array \in [0 .. Limit(o.kind) - 1 -> Rects \cup {None}]
  BY <1>1 DEF OpsOf
<1>4. a = [o EXCEPT !.rects = array, !.numBltRects = o.numBltRects + 1, !.destBoundBox = box]
  BY DEF Add
<1> HIDE DEF array
<1>5. o.kind # "solid" => box = AddRect(o.destBoundBox, rects.to)
  OBVIOUS
<1> HIDE DEF box
<1>6. /\ a.kind = o.kind /\ a.dst = o.dst /\ a.src = o.src /\ a.mask = o.mask
      /\ a.picture = o.picture /\ a.numBltRects = o.numBltRects + 1 /\ a.bltRectsIdx = o.bltRectsIdx
      /\ a.rects = array /\ a.destBoundBox = box
  BY <1>1, <1>4 DEF OpsOf
<1>7. a \in OpsOf({o.kind}, Limit(o.kind))
  <2>1. a = [kind |-> o.kind, dst |-> o.dst, src |-> o.src, mask |-> o.mask,
             picture |-> o.picture, numBltRects |-> o.numBltRects + 1,
             bltRectsIdx |-> o.bltRectsIdx, rects |-> array, destBoundBox |-> box]
    BY <1>1, <1>4 DEF OpsOf
  <2>2. /\ o.dst \in Pixmaps /\ o.src \in Pixmaps /\ o.mask \in Pixmaps \cup {None}
        /\ o.picture \in Pictures \cup {None} /\ o.numBltRects + 1 \in Nat
        /\ o.bltRectsIdx \in Nat
    BY <1>1 DEF OpsOf
  <2>3. array \in [0 .. Limit(o.kind) - 1 -> Rects \cup {None}]
    BY <1>3 DEF array
  <2> QED
    BY <1>2, <2>1, <2>2, <2>3 DEF OpsOf
<1> HIDE DEF a
<1>8. a \in Ops
  BY <1>1, <1>7, OpsByKind
<1> QED
  BY <1>5, <1>6, <1>8 DEF a, array

\* A batch that is not full takes a rectangle, after all it holds.
LEMMA AddKept ==
  ASSUME NEW o \in Ops, NEW s \in Seq(Requests), Holding(o, s),
         NEW r \in Requests, NEW rects \in Rects, Drawn(o, r, rects),
         o.kind # "solid" => Inside(rects.to), ~Full(Add(o, rects)),
         \A i \in 0 .. o.numBltRects - 1 : o.kind # "solid" => Inside(o.rects[i].to)
  PROVE  /\ [Add(o, rects) EXCEPT !.bltRectsIdx = @ + 1] \in Ops
         /\ [Add(o, rects) EXCEPT !.bltRectsIdx = @ + 1].kind = o.kind
         /\ [Add(o, rects) EXCEPT !.bltRectsIdx = @ + 1].dst = o.dst
         /\ Holding([Add(o, rects) EXCEPT !.bltRectsIdx = @ + 1], Append(s, r))
<1> DEFINE a == Add(o, rects)
           n == o.numBltRects
           e == [a EXCEPT !.bltRectsIdx = @ + 1]
<1>1. /\ o.kind \in Kinds /\ o \in OpsOf(Kinds, Limit(o.kind)) /\ Limit(o.kind) \in Nat \ {0}
      /\ n \in Nat /\ o.bltRectsIdx = n /\ n < Limit(o.kind) /\ Len(s) = n
  <2>1. o.kind \in Kinds /\ o \in OpsOf(Kinds, Limit(o.kind)) /\ Limit(o.kind) \in Nat \ {0}
    BY OpsByKind
  <2> QED
    BY <2>1 DEF OpsOf, Holding
<1>2. /\ a \in Ops /\ a.kind = o.kind /\ a.dst = o.dst /\ a.src = o.src /\ a.mask = o.mask
      /\ a.picture = o.picture /\ a.numBltRects = n + 1 /\ a.bltRectsIdx = n
      /\ a.rects = [o.rects EXCEPT ![n] = rects]
      /\ o.kind # "solid" => a.destBoundBox = AddRect(o.destBoundBox, rects.to)
  BY <1>1, AddFields
<1>3. n + 1 < Limit(o.kind)
  BY <1>1, <1>2 DEF Full
<1> HIDE DEF a
<1>4. a.kind \in Kinds /\ a \in OpsOf(Kinds, Limit(a.kind))
  BY <1>2, OpsByKind
<1>5. /\ e.kind = a.kind /\ e.dst = a.dst /\ e.mask = a.mask /\ e.picture = a.picture
      /\ e.numBltRects = n + 1
      /\ e.bltRectsIdx = n + 1 /\ e.rects = a.rects /\ e.destBoundBox = a.destBoundBox
      /\ e \in OpsOf({a.kind}, Limit(a.kind))
  BY <1>1, <1>2, <1>4 DEF OpsOf
<1> HIDE DEF e
<1>6. e \in Ops
  BY <1>4, <1>5, OpsByKind
<1>7. o.rects \in [0 .. Limit(o.kind) - 1 -> Rects \cup {None}] /\ o.destBoundBox \in Rect
  BY <1>1 DEF OpsOf
<1>8. ASSUME NEW i \in 0 .. n
      PROVE  /\ e.rects[i] # None /\ Drawn(e, Append(s, r)[i + 1], e.rects[i])
             /\ e.kind # "solid" /\ ~Empty(e.rects[i].to) => Covers(e.destBoundBox, e.rects[i].to)
  <2>1. rects # None /\ rects.to \in Rect
    BY NoneAssumption DEF Rects
  <2>2. CASE i = n
    <3>1. e.rects[i] = rects /\ Append(s, r)[i + 1] = r
      BY <1>1, <1>2, <1>3, <1>5, <1>7, <2>2
    <3>2. Drawn(e, r, rects)
      BY <1>2, <1>5, DrawnByKind
    <3>3. o.kind # "solid" /\ ~Empty(rects.to) => Covers(AddRect(o.destBoundBox, rects.to), rects.to)
      BY <1>7, <2>1, AddRectCovers
    <3> QED
      BY <1>2, <1>5, <2>1, <3>1, <3>2, <3>3
  <2>3. CASE i # n
    <3>1. e.rects[i] = o.rects[i] /\ Append(s, r)[i + 1] = s[i + 1] /\ i \in 0 .. n - 1
      BY <1>1, <1>2, <1>3, <1>5, <1>7, <2>3
    <3>2. /\ o.rects[i] # None /\ Drawn(o, s[i + 1], o.rects[i])
          /\ o.kind # "solid" /\ ~Empty(o.rects[i].to) => Covers(o.destBoundBox, o.rects[i].to)
          /\ o.kind # "solid" => Inside(o.rects[i].to)
      BY <3>1 DEF Holding
    <3>3. o.rects[i].to \in Rect
      <4>1. i \in 0 .. Limit(o.kind) - 1
        BY <1>1, <3>1
      <4>2. o.rects[i] \in Rects
        BY <1>7, <3>2, <4>1
      <4> QED
        BY <4>2 DEF Rects
    <3>4. Drawn(e, s[i + 1], o.rects[i])
      BY <1>2, <1>5, <3>2, DrawnByKind
    <3>5. o.kind # "solid" /\ ~Empty(o.rects[i].to) =>
            Covers(AddRect(o.destBoundBox, rects.to), o.rects[i].to)
      BY <1>7, <2>1, <3>2, <3>3, AddRectCovers
    <3> QED
      BY <1>2, <1>5, <3>1, <3>2, <3>4, <3>5
  <2> QED
    BY <2>2, <2>3
<1>9. Len(Append(s, r)) = n + 1
  BY <1>1
<1>10. Holding(e, Append(s, r))
  BY <1>1, <1>2, <1>3, <1>5, <1>8, <1>9 DEF Holding
<1> QED
  BY <1>2, <1>5, <1>6, <1>10 DEF e, a

\* A batch that was flushed is empty, and nothing of it is owed.
LEMMA ResetKept ==
  ASSUME NEW o \in Ops
  PROVE  /\ Reset(o) \in Ops /\ Reset(o).kind = o.kind /\ Reset(o).dst = o.dst
         /\ Holding(Reset(o), <<>>)
<1> DEFINE box == IF o.kind = "solid" THEN ZeroBox ELSE InitBoundingBox
           e == Reset(o)
<1>1. o.kind \in Kinds /\ o \in OpsOf(Kinds, Limit(o.kind)) /\ Limit(o.kind) \in Nat \ {0}
  BY OpsByKind
<1>2. box \in Rect
  BY PixmapsAssumption DEF Rect, ZeroBox, Box, InitBoundingBox
<1>3. e = [o EXCEPT !.numBltRects = 0, !.bltRectsIdx = 0, !.destBoundBox = box]
  BY DEF Reset
<1> HIDE DEF box
<1>4. /\ e.kind = o.kind /\ e.dst = o.dst /\ e.numBltRects = 0 /\ e.bltRectsIdx = 0
      /\ e \in OpsOf({o.kind}, Limit(o.kind))
  <2>1. e = [kind |-> o.kind, dst |-> o.dst, src |-> o.src, mask |-> o.mask,
             picture |-> o.picture, numBltRects |-> 0, bltRectsIdx |-> 0,
             rects |-> o.rects, destBoundBox |-> box]
    BY <1>1, <1>3 DEF OpsOf
  <2>2. /\ o.dst \in Pixmaps /\ o.src \in Pixmaps /\ o.mask \in Pixmaps \cup {None}
        /\ o.picture \in Pictures \cup {None}
        /\ o.rects \in [0 .. Limit(o.kind) - 1 -> Rects \cup {None}]
    BY <1>1 DEF OpsOf
  <2> QED
    BY <1>2, <2>1, <2>2 DEF OpsOf
<1> HIDE DEF e
<1>5. e \in Ops /\ Holding(e, <<>>)
  BY <1>1, <1>4, OpsByKind DEF Holding
<1> QED
  BY <1>4, <1>5 DEF e

-----------------------------------------------------------------------------
(* The inductive invariant *)

\* The buffer that is being drawn to.
Busy == IF op.kind \in Kinds THEN {bo[op.dst]} ELSE {}

\* A solid or a copy keeps the mapping of its destination; a composite maps its
\* pixmaps each time it is flushed.
Operands ==
  op.kind \in {"solid", "copy"} => gpu.priv[bo[op.dst]] # None /\ gpu.priv[bo[op.dst]].mapped

\* There is no operation during CPU access.
Calm == cpu # {} => op = NoOp

\* What the CPU uses has been waited for, and not drawn to since.
AllWaited == \A p \in cpu : Waited(gpu, bo[p])

IInv == TypeOK /\ BatchKept /\ NothingLost /\ Good(gpu, Busy) /\ Operands /\ Calm /\ AllWaited

\* The kinds of operations.
LEMMA OpKinds ==
  ASSUME TypeOK
  PROVE  /\ op.kind \in Kinds <=> op \in Ops
         /\ op.kind \notin Kinds => op \in {NoOp, Crashed} /\ op.kind \in {"none", "crashed"}
         /\ op.kind = "none" => op = NoOp
         /\ op = NoOp => op.kind = "none"
         /\ op.kind \in Kinds =>
              /\ op.dst \in Pixmaps /\ op.src \in Pixmaps /\ op.mask \in Pixmaps \cup {None}
              /\ op.picture \in Pictures \cup {None}
<1>1. op \in Ops \cup {NoOp, Crashed}
  BY DEF TypeOK
<1>2. CASE op \in Ops
  BY <1>2, OpsByKind DEF Kinds, OpsOf, NoOp
<1>3. CASE op = NoOp
  BY <1>3, OpsByKind DEF NoOp, Kinds
<1>4. CASE op = Crashed
  BY <1>4, OpsByKind DEF Crashed, NoOp, Kinds
<1> QED
  BY <1>1, <1>2, <1>3, <1>4

\* BatchKept, from what it says of the operation there is.
LEMMA KeptIsHolding ==
  BatchKept <=> /\ op.kind \in {"none", "crashed"} => owed = <<>>
                /\ op.kind \in Kinds => Holding(op, owed)
BY DEF BatchKept, Holding, Kinds

\* With the same device and buffers, the GPU's part of the invariant may be
\* shown of the new record.
LEMMA GoodAfter ==
  ASSUME UNCHANGED <<device, bo>>, Good(gpu', Busy')
  PROVE  Good(gpu, Busy)'
BY DEF Good, Marked, Quiet, Fresh, MayFailWait

\* The invariant of a step that ends in no operation, with the same buffers.
LEMMA IdleAfter ==
  ASSUME TypeOK, UNCHANGED <<device, bo>>, op' = NoOp, owed' = <<>>, cpu' \subseteq Pixmaps,
         lost' \in {"nothing", "some", "all"}, NothingLost', Good(gpu', {}), \A p \in cpu' : Waited(gpu', bo[p])
  PROVE  IInv'
<1>1. op'.kind = "none" /\ op'.kind \notin Kinds
  BY DEF NoOp, Kinds
<1>2. TypeOK'
  BY DEF TypeOK, Good, GpuStates
<1>3. BatchKept'
  BY <1>1 DEF BatchKept
<1>4. Good(gpu, Busy)'
  <2>1. Busy' = {}
    BY <1>1 DEF Busy
  <2> QED
    BY <2>1, GoodAfter
<1>5. (Operands /\ Calm /\ AllWaited)'
  BY <1>1 DEF Operands, Calm, AllWaited, Waited
<1> QED
  BY <1>2, <1>3, <1>4, <1>5 DEF IInv

\* The invariant of a step that ends in an operation, with the same buffers.
LEMMA BusyAfter ==
  ASSUME TypeOK, UNCHANGED <<device, bo>>, op' \in Ops, owed' \in Seq(Requests), cpu' = {},
         lost' \in {"nothing", "some", "all"}, NothingLost', Holding(op', owed'), Good(gpu', {bo[op'.dst]}),
         op'.kind # "composite" =>
           gpu'.priv[bo[op'.dst]] # None /\ gpu'.priv[bo[op'.dst]].mapped
  PROVE  IInv'
<1>1. op'.kind \in Kinds /\ op'.kind \notin {"none", "crashed"}
  BY OpsByKind DEF Kinds
<1>2. TypeOK'
  BY DEF TypeOK, Good, GpuStates, Requests
<1>3. BatchKept'
  BY <1>1 DEF BatchKept, Holding
<1>4. Good(gpu, Busy)'
  <2>1. Busy' = {bo[op'.dst]}
    BY <1>1 DEF Busy
  <2> QED
    BY <2>1, GoodAfter
<1>5. (Operands /\ Calm /\ AllWaited)'
  BY DEF Operands, Calm, AllWaited
<1> QED
  BY <1>2, <1>3, <1>4, <1>5 DEF IInv

\* The invariant gives what the lemmas above assume.
LEMMA InvGives ==
  ASSUME IInv
  PROVE  /\ TypeOK /\ Booleans /\ gpu \in GpuStates /\ cpu \subseteq Pixmaps
         /\ owed \in Seq(Requests) /\ NothingLost /\ lost \in {"nothing", "some", "all"}
         /\ lost' = lost /\ device' = device => NothingLost'
         /\ op.kind \in Kinds => cpu = {} /\ Holding(op, owed) /\ Good(gpu, {bo[op.dst]})
         /\ op.kind \notin Kinds => owed = <<>> /\ Good(gpu, {})
         /\ op = NoOp => owed = <<>> /\ Good(gpu, {}) /\ op.kind \notin Kinds
<1>1. /\ TypeOK /\ Booleans /\ gpu \in GpuStates /\ cpu \subseteq Pixmaps
      /\ owed \in Seq(Requests) /\ NothingLost /\ lost \in {"nothing", "some", "all"}
      /\ lost' = lost /\ device' = device => NothingLost'
  BY DEF IInv, TypeOK, Booleans, GpuStates, Requests, NothingLost, MayRefuse
<1>2. op.kind \in Kinds => cpu = {} /\ Holding(op, owed) /\ Good(gpu, {bo[op.dst]})
  <2>1. op.kind \in Kinds => op # NoOp
    BY DEF Kinds, NoOp
  <2> QED
    BY <2>1, KeptIsHolding DEF IInv, Calm, Busy
<1>3. op.kind \notin Kinds => owed = <<>> /\ Good(gpu, {})
  BY <1>1, OpKinds, KeptIsHolding DEF IInv, Busy
<1>4. op = NoOp => op.kind \notin Kinds
  BY DEF NoOp, Kinds
<1> QED
  BY <1>1, <1>2, <1>3, <1>4

-----------------------------------------------------------------------------
(* Steps *)

\* The invariant holds at first.
LEMMA InitInv ==
  ASSUME Init
  PROVE  IInv
<1>1. op.kind = "none" /\ op = NoOp
  BY DEF Init, NoOp
<1> DEFINE g == [priv |-> [b \in Pixmaps |-> None], writing |-> {}, stale |-> FALSE, wild |-> FALSE]
<1>2. gpu = g /\ g \in GpuStates
  BY DEF Init, GpuStates, NoRecords
<1>3. gpu.writing = {} /\ gpu.stale = FALSE
  BY <1>2
<1>4. TypeOK
  BY <1>2 DEF Init, TypeOK, GpuStates
<1>5. Good(gpu, Busy)
  BY <1>2, <1>3 DEF Good, Marked, Quiet, Fresh
<1> QED
  BY <1>1, <1>4, <1>5 DEF Init, IInv, BatchKept, NothingLost, MayRefuse, Operands, Calm, AllWaited, Kinds

\* The end of the server leaves nothing.
LEMMA CrashStep ==
  ASSUME IInv, Crash
  PROVE  IInv'
<1>1. op'.kind = "crashed" /\ op'.kind \notin Kinds
  BY DEF Crash, Crashed, Kinds
<1> DEFINE g == [priv |-> [b \in Pixmaps |-> None], writing |-> {}, stale |-> FALSE, wild |-> FALSE]
<1>2. gpu' = g /\ g \in GpuStates
  BY DEF Crash, GpuStates, NoRecords
<1>3. gpu'.writing = {} /\ gpu'.stale = FALSE
  BY <1>2
<1>4. TypeOK'
  BY <1>2 DEF IInv, Crash, TypeOK, GpuStates
<1>5. Good(gpu, Busy)'
  BY <1>2, <1>3 DEF Good, Marked, Quiet, Fresh, MayFailWait
<1> QED
  BY <1>1, <1>4, <1>5 DEF Crash, IInv, BatchKept, NothingLost, MayRefuse, Operands, Calm, AllWaited, Kinds

\* A new operation, on what the GPU can be given.
LEMMA NewOpStep ==
  ASSUME IInv, UNCHANGED <<device, bo, cpu, owed, lost>>, Idle, NEW k \in Kinds,
         NEW dst \in Pixmaps, NEW src \in Pixmaps, NEW mask \in Pixmaps \cup {None},
         NEW picture \in Pictures \cup {None}, op' = NewOp(k, dst, src, mask, picture),
         Good(gpu', {}), k # "composite" => gpu'.priv[bo[dst]] # None /\ Backed(gpu', bo[dst])
  PROVE  IInv'
<1> DEFINE o == NewOp(k, dst, src, mask, picture)
<1>4. o \in Ops /\ o.kind = k /\ o.dst = dst /\ Holding(o, <<>>)
  BY NewOpKept, ZenonT(30)
<1>5. op' = o
  OBVIOUS
<1> HIDE DEF o
<1>1. op' \in Ops /\ op'.kind = k /\ op'.dst = dst /\ Holding(op', <<>>)
  BY <1>4, <1>5
<1>2. /\ cpu = {} /\ owed = <<>> /\ TypeOK /\ owed' \in Seq(Requests)
      /\ lost' \in {"nothing", "some", "all"} /\ NothingLost'
  BY InvGives DEF Idle
<1>3. Good(gpu', {bo[dst]})
  BY DEF Good, Marked, Quiet, Fresh
<1> QED
  BY <1>1, <1>2, <1>3, BusyAfter DEF Backed

\* sgxPrepareSolid
LEMMA PrepareSolidStep ==
  ASSUME IInv, NEW p \in Pixmaps, PrepareSolid(p)
  PROVE  IInv'
<1>1. /\ Idle /\ UNCHANGED <<device, bo, cpu, owed, lost>> /\ TypeOK /\ bo[p] \in Pixmaps
      /\ gpu \in GpuStates /\ Good(gpu, {}) /\ owed = <<>> /\ cpu = {}
      /\ lost' \in {"nothing", "some", "all"} /\ NothingLost'
  BY InvGives DEF PrepareSolid, Idle, Booleans
<1>2. PICK ok \in BOOLEAN :
        /\ gpu' = MapBo(gpu, bo[p], ok)
        /\ op' = IF gpu'.priv[bo[p]] = None THEN NoOp ELSE NewOp("solid", p, p, None, None)
  BY DEF PrepareSolid
<1>3. Good(gpu', {}) /\ Backed(gpu', bo[p])
  BY <1>1, <1>2, MapBoGood, MapBoBacked
<1>4. CASE gpu'.priv[bo[p]] = None
  BY <1>1, <1>2, <1>3, <1>4, IdleAfter
<1>5. CASE gpu'.priv[bo[p]] # None
  BY <1>1, <1>2, <1>3, <1>5, NewOpStep DEF Kinds
<1> QED
  BY <1>4, <1>5

\* sgxPrepareCopy
LEMMA PrepareCopyStep ==
  ASSUME IInv, NEW src \in Pixmaps, NEW dst \in Pixmaps, PrepareCopy(src, dst)
  PROVE  IInv'
<1>1. /\ Idle /\ UNCHANGED <<device, bo, cpu, owed, lost>> /\ TypeOK
      /\ bo[src] \in Pixmaps /\ bo[dst] \in Pixmaps
      /\ gpu \in GpuStates /\ Good(gpu, {}) /\ owed = <<>> /\ cpu = {}
      /\ lost' \in {"nothing", "some", "all"} /\ NothingLost'
  BY InvGives DEF PrepareCopy, Idle, Booleans
<1>2. PICK ok \in MapAnswers :
        /\ gpu' = MapBo(MapBo(gpu, bo[dst], ok.dst), bo[src], ok.src)
        /\ op' = IF gpu'.priv[bo[dst]] = None \/ gpu'.priv[bo[src]] = None THEN NoOp
                 ELSE NewOp("copy", dst, src, None, None)
  BY DEF PrepareCopy
<1>3. ok.dst \in BOOLEAN /\ ok.src \in BOOLEAN
  BY DEF MapAnswers
<1> DEFINE m == MapBo(gpu, bo[dst], ok.dst)
<1>4. Good(m, {}) /\ m \in GpuStates /\ Backed(m, bo[dst])
  BY <1>1, <1>3, MapBoGood, MapBoBacked DEF Good
<1>5. gpu' = MapBo(m, bo[src], ok.src)
  BY <1>2
<1> HIDE DEF m
<1>6. Good(gpu', {}) /\ Backed(gpu', bo[dst])
  BY <1>1, <1>3, <1>4, <1>5, MapBoGood, MapBoBacked
<1>7. CASE op' = NoOp
  BY <1>1, <1>6, <1>7, IdleAfter
<1>8. CASE op' # NoOp
  BY <1>1, <1>2, <1>6, <1>8, NewOpStep DEF Kinds
<1> QED
  BY <1>7, <1>8

\* A rectangle of a request is batched, and the batch flushed when it is full.
LEMMA NextBatchStep ==
  ASSUME IInv, op.kind \in Kinds, UNCHANGED <<device, bo, cpu>>,
         NEW r \in Requests, NEW rects \in Rects, Drawn(op, r, rects),
         op.kind # "solid" => Inside(rects.to), NextBatch(Add(op, rects), r)
  PROVE  IInv'
<1> DEFINE a == Add(op, rects)
<1>1. /\ TypeOK /\ Booleans /\ cpu = {} /\ Holding(op, owed) /\ Good(gpu, {bo[op.dst]})
      /\ owed \in Seq(Requests) /\ op \in Ops /\ gpu \in GpuStates
      /\ lost \in {"nothing", "some", "all"} /\ (lost' = lost /\ device' = device => NothingLost')
      /\ op.dst \in Pixmaps /\ op.src \in Pixmaps /\ op.mask \in Pixmaps \cup {None}
  BY InvGives, OpKinds
<1>2. /\ op.kind # "composite" => gpu.priv[bo[op.dst]] # None /\ gpu.priv[bo[op.dst]].mapped
  BY DEF IInv, Operands, Kinds
<1>3. op.bltRectsIdx \in 0 .. Limit(op.kind) - 1 /\ op.numBltRects \in Nat
      /\ op.bltRectsIdx = op.numBltRects
  <2>1. op \in OpsOf(Kinds, Limit(op.kind)) /\ Limit(op.kind) \in Nat \ {0}
    BY <1>1, OpsByKind
  <2>2. op.numBltRects \in Nat
    BY <2>1 DEF OpsOf
  <2> QED
    BY <1>1, <2>1, <2>2 DEF Holding
<1>4. /\ a \in Ops /\ a.kind = op.kind /\ a.dst = op.dst /\ a.src = op.src /\ a.mask = op.mask
      /\ a.numBltRects = op.numBltRects + 1
  BY <1>1, <1>3, AddFields
<1>5. CASE /\ ~Full(a) /\ op' = [a EXCEPT !.bltRectsIdx = @ + 1]
           /\ owed' = Append(owed, r) /\ UNCHANGED <<gpu, lost>>
  <2>1. \A i \in 0 .. op.numBltRects - 1 : op.kind # "solid" => Inside(op.rects[i].to)
    BY <1>1 DEF Holding, Drawn, Copied, Composed, Kinds
  <2> DEFINE e == [a EXCEPT !.bltRectsIdx = @ + 1]
  <2>2. e \in Ops /\ e.kind = op.kind /\ e.dst = op.dst /\ Holding(e, Append(owed, r))
    BY <1>1, <1>5, <2>1, AddKept
  <2>3. op' = e
    BY <1>5
  <2> HIDE DEF e
  <2>4. owed' \in Seq(Requests)
    BY <1>1, <1>5
  <2> QED
    BY <1>1, <1>2, <1>5, <2>2, <2>3, <2>4, BusyAfter
<1>6. ASSUME op' = Reset(a), NEW f \in Flushed(a), gpu' = f.gpu,
             LeaveOut(a, Len(owed) + 1, f.taken)
      PROVE  IInv'
  <2>1. owed' = <<>> /\ lost' \in {"nothing", "some", "all"} /\ NothingLost'
    <3>1. Batch(a) = Len(owed) + 1
      BY <1>1, <1>3, <1>4 DEF Batch, Holding
    <3> HIDE DEF a
    <3>2. ~MayRefuse => f.taken = Len(owed) + 1 \/ NotDrawn(a)
      BY <1>1, <1>4, <3>1, FlushedAll
    <3> QED
      BY <1>6, <3>2 DEF LeaveOut, NothingLost, MayRefuse
  <2>2. op' \in Ops /\ op'.kind = op.kind /\ op'.dst = op.dst /\ Holding(op', <<>>)
    BY <1>4, <1>6, ResetKept
  <2>3. /\ Good(gpu', {bo[op.dst]})
        /\ op.kind # "composite" => gpu'.priv[bo[op.dst]] # None /\ gpu'.priv[bo[op.dst]].mapped
    <3> HIDE DEF a
    <3> QED
      BY <1>1, <1>2, <1>4, <1>6, FlushedGood
  <2> QED
    BY <1>1, <2>1, <2>2, <2>3, BusyAfter
<1> HIDE DEF a
<1>7. NextBatch(a, r)
  BY DEF a
<1> QED
  BY <1>5, <1>6, <1>7 DEF NextBatch

\* sgxSolid
LEMMA SolidStep ==
  ASSUME IInv, NEW r \in Solids, Solid(r)
  PROVE  IInv'
<1> DEFINE rects == [to |-> r, from |-> r, mask |-> None]
<1>1. rects \in Rects /\ rects.to = r
  BY RequestsAssumption DEF Rects
<1>2. op.kind = "solid" /\ NextBatch(Add(op, rects), r) /\ UNCHANGED <<device, bo, cpu>>
  BY DEF Solid
<1> HIDE DEF rects
<1>3. Drawn(op, r, rects)
  BY <1>1, <1>2 DEF Drawn
<1> QED
  BY <1>1, <1>2, <1>3, NextBatchStep DEF Kinds, Requests

\* sgxCopy
LEMMA CopyStep ==
  ASSUME IInv, NEW r \in Copies, Copy(r)
  PROVE  IInv'
<1>1. r \in [from : Point, to : Point, size : Point]
  BY RequestsAssumption
<1>2. Clip(r) \in Rects /\ Copied(r, Clip(r))
  BY <1>1, ClipExact
<1>3. op.kind = "copy" /\ NextBatch(Add(op, Clip(r)), r) /\ UNCHANGED <<device, bo, cpu>>
  BY DEF Copy
<1>4. Drawn(op, r, Clip(r)) /\ Inside(Clip(r).to)
  BY <1>2, <1>3 DEF Drawn, Copied
<1> QED
  BY <1>2, <1>3, <1>4, NextBatchStep DEF Kinds, Requests

\* sgxComposite
LEMMA CompositeStep ==
  ASSUME IInv, NEW r \in Composites, Composite(r)
  PROVE  IInv'
<1>1. /\ r.from \in Point /\ r.mask \in Point /\ r.to \in Point /\ r.size \in Point
      /\ \A q \in Composites : q.from \in Point
  BY RequestsAssumption
<1>2. PICK from \in Transformed(r.from, op.picture) :
        NextBatch(Add(op, [to |-> Fit(r.to, r.size, FALSE),
                           from |-> Fit(from, r.size, op.picture.repeat),
                           mask |-> IF op.mask = None THEN None
                                    ELSE Fit(r.mask, r.size, op.picture.maskRepeat)]), r)
  BY DEF Composite
<1>3. from \in Point
  BY <1>1 DEF Transformed
<1> DEFINE to == Fit(r.to, r.size, FALSE)
           source == Fit(from, r.size, op.picture.repeat)
           alpha == Fit(r.mask, r.size, op.picture.maskRepeat)
           mask == IF op.mask = None THEN None ELSE alpha
           rects == [to |-> to, from |-> source, mask |-> mask]
<1>4. to \in Rect /\ Inside(to) /\ source \in Rect /\ Inside(source)
      /\ alpha \in Rect /\ Inside(alpha)
  BY <1>1, <1>3, FitInside
<1>5. op.kind = "composite" /\ UNCHANGED <<device, bo, cpu>>
  BY DEF Composite
<1>6. NextBatch(Add(op, rects), r)
  BY <1>2
<1>10. Kept(r.to, r.size, to)
  BY <1>1, FitKept
<1>11. ASSUME ~op.picture.repeat, op.picture.transform = "none"
       PROVE  Kept(r.from, r.size, source)
  <2>1. from = r.from
    BY <1>2, <1>11 DEF Transformed
  <2>2. source = Fit(r.from, r.size, FALSE)
    BY <1>11, <2>1 DEF Fit
  <2> QED
    BY <1>1, <2>2, FitKept
<1>12. op.mask # None /\ ~op.picture.maskRepeat =>
         alpha = Box(r.mask.x, r.mask.y, r.size.x, r.size.y)
  BY DEF Composite, BadMask, Fit
<1> HIDE DEF to, source, alpha
<1>7. rects \in Rects /\ rects.to = to /\ rects.from = source /\ rects.mask = mask
  BY <1>4 DEF Rects
<1>8. op.mask # None => mask # None /\ Inside(mask)
  BY <1>4, NoneAssumption
<1> HIDE DEF mask, rects
<1>9. Drawn(op, r, rects)
  <2>1. Composed(op, r, rects)
    BY <1>4, <1>7, <1>8, <1>10, <1>11, <1>12 DEF Composed, mask
  <2> QED
    BY <1>5, <2>1 DEF Drawn
<1> QED
  BY <1>4, <1>5, <1>6, <1>7, <1>9, NextBatchStep DEF Kinds, Requests

\* sgxCheckComposite and sgxPrepareComposite
LEMMA CheckCompositeStep ==
  ASSUME IInv, NEW dst \in Pixmaps, NEW src \in Pixmaps, NEW mask \in Pixmaps \cup {None},
         NEW q \in Pictures, CheckComposite(dst, src, mask, q)
  PROVE  IInv'
<1>1. /\ Idle /\ UNCHANGED <<device, bo, cpu, owed, lost>> /\ TypeOK /\ Booleans
      /\ Good(gpu, {}) /\ owed = <<>> /\ cpu = {} /\ op = NoOp
      /\ lost' \in {"nothing", "some", "all"} /\ NothingLost'
  BY InvGives DEF CheckComposite, Idle
<1>2. CASE op' = NewOp("composite", dst, src, mask, q) /\ UNCHANGED gpu
  BY <1>1, <1>2, NewOpStep DEF Kinds
<1>3. CASE /\ \E a, b, c \in Answers :
                gpu' = WaitPixmap(WaitPixmap(WaitPixmap(gpu, src, a), dst, b), mask, c)
           /\ UNCHANGED op
  <2>1. PICK a, b, c \in Answers :
          gpu' = WaitPixmap(WaitPixmap(WaitPixmap(gpu, src, a), dst, b), mask, c)
    BY <1>3
  <2> DEFINE g1 == WaitPixmap(gpu, src, a)
             g2 == WaitPixmap(g1, dst, b)
             g3 == WaitPixmap(g2, mask, c)
  <2>3. Good(g1, {})
    BY <1>1, WaitPixmapGood
  <2> HIDE DEF g1
  <2>4. Good(g2, {})
    BY <1>1, <2>3, WaitPixmapGood
  <2> HIDE DEF g2
  <2>5. Good(g3, {})
    BY <1>1, <2>4, WaitPixmapGood
  <2>6. gpu' = g3
    BY <2>1 DEF g1, g2
  <2> HIDE DEF g3
  <2> QED
    BY <1>1, <1>3, <2>5, <2>6, IdleAfter
<1> QED
  BY <1>2, <1>3 DEF CheckComposite

\* sgxDoneSolid, sgxDoneCopy and sgxDoneComposite
LEMMA DoneStep ==
  ASSUME IInv, Done
  PROVE  IInv'
<1>1. /\ op.kind \in Kinds /\ TypeOK /\ Booleans /\ cpu = {}
      /\ Holding(op, owed) /\ Good(gpu, {bo[op.dst]}) /\ gpu \in GpuStates
      /\ op.dst \in Pixmaps /\ op.src \in Pixmaps /\ op.mask \in Pixmaps \cup {None}
  BY InvGives, OpKinds DEF Done, Kinds
<1>2. op.kind # "composite" => gpu.priv[bo[op.dst]] # None /\ gpu.priv[bo[op.dst]].mapped
  BY <1>1 DEF IInv, Operands, Kinds
<1>3. PICK f \in Flushed(op), answer \in Answers :
        IF f.gpu.priv[bo[op.dst]] = None THEN Crash
        ELSE /\ gpu' = FlushScanout(OnGpu(f.gpu, op.dst), op.dst, answer)
             /\ op' = NoOp
             /\ LeaveOut(op, Len(owed), f.taken)
             /\ UNCHANGED <<device, bo, cpu>>
  BY DEF Done
<1>4. CASE f.gpu.priv[bo[op.dst]] = None
  BY <1>3, <1>4, CrashStep
<1>5. CASE f.gpu.priv[bo[op.dst]] # None
  <2>1. Good(f.gpu, {bo[op.dst]})
    BY <1>1, <1>2, FlushedGood
  <2>2. Good(gpu', {})
    BY <1>1, <1>3, <1>5, <2>1, FlushGood
  <2>3. owed' = <<>> /\ lost' \in {"nothing", "some", "all"} /\ NothingLost'
    <3>1. Batch(op) = Len(owed)
      BY <1>1 DEF Batch, Holding
    <3>2. ~MayRefuse => f.taken = Len(owed) \/ NotDrawn(op)
      BY <1>1, <3>1, FlushedAll
    <3> QED
      BY <1>3, <1>5, <3>2 DEF LeaveOut, NothingLost, MayRefuse
  <2> QED
    BY <1>1, <1>3, <1>5, <2>2, <2>3, IdleAfter
<1> QED
  BY <1>4, <1>5

\* sgxPrepareAccess
LEMMA PrepareAccessStep ==
  ASSUME IInv, NEW p \in Pixmaps, PrepareAccess(p)
  PROVE  IInv'
<1>1. /\ op = NoOp /\ UNCHANGED <<device, bo, op, owed, lost>> /\ TypeOK /\ Booleans
      /\ Good(gpu, {}) /\ owed = <<>> /\ cpu \subseteq Pixmaps /\ cpu' = cpu \cup {p}
      /\ lost' \in {"nothing", "some", "all"} /\ NothingLost'
  BY InvGives DEF PrepareAccess
<1>2. PICK answer \in Answers : gpu' = WaitPixmap(gpu, p, answer)
  BY DEF PrepareAccess
<1>3. p # None
  BY PixmapsAssumption
<1> DEFINE w == WaitPixmap(gpu, p, answer)
<1>4. Good(w, {}) /\ Waited(w, bo[p]) /\ \A c \in Pixmaps : Waited(gpu, c) => Waited(w, c)
  BY <1>1, <1>3, WaitPixmapGood
<1>5. gpu' = w
  BY <1>2
<1> HIDE DEF w
<1>6. \A c \in cpu' : Waited(gpu', bo[c])
  BY <1>1, <1>4, <1>5 DEF IInv, AllWaited, Booleans
<1> QED
  BY <1>1, <1>4, <1>5, <1>6, IdleAfter

\* OMAPFinishAccess
LEMMA FinishAccessStep ==
  ASSUME IInv, NEW p \in Pixmaps, NEW wrote \in BOOLEAN, FinishAccess(p, wrote)
  PROVE  IInv'
<1>1. p \in cpu /\ UNCHANGED <<device, bo, op, owed, lost>> /\ cpu' = cpu \ {p}
  BY DEF FinishAccess
<1>2. op = NoOp
  BY <1>1 DEF IInv, Calm
<1>3. /\ TypeOK /\ Booleans /\ Good(gpu, {}) /\ owed = <<>> /\ cpu \subseteq Pixmaps
      /\ lost' \in {"nothing", "some", "all"} /\ NothingLost'
  BY <1>1, <1>2, InvGives
<1> DEFINE late == gpu.stale \/ (wrote /\ device.manual /\ bo[p] = bo[Root])
           g == [gpu EXCEPT !.stale = late]
<1>4. gpu' = IF bo[p] = Root THEN [g EXCEPT !.stale = FALSE] ELSE g
  BY DEF FinishAccess, Dirty
<1>5. late \in BOOLEAN
  OBVIOUS
<1>6. late => gpu.stale \/ bo[p] = bo[Root]
  OBVIOUS
<1> HIDE DEF late
<1>7. /\ gpu' \in GpuStates /\ gpu'.priv = gpu.priv /\ gpu'.writing = gpu.writing
      /\ gpu'.stale = (IF bo[p] = Root THEN FALSE ELSE late)
  BY <1>3, <1>4, <1>5 DEF Good, GpuStates
<1>8. Good(gpu', {})
  <2>1. Marked(gpu', {}) /\ Quiet(gpu', {})
    BY <1>3, <1>7 DEF Good, Marked, Quiet
  <2>2. Fresh(gpu', {})
    BY <1>3, <1>6, <1>7 DEF Good, Fresh
  <2> QED
    BY <1>7, <2>1, <2>2 DEF Good
<1>9. \A c \in cpu' : Waited(gpu', bo[c])
  BY <1>1, <1>7 DEF IInv, AllWaited, Waited
<1> QED
  BY <1>1, <1>2, <1>3, <1>8, <1>9, IdleAfter

\* The invariant of a step of the GPU or of its mappings alone.
LEMMA SameAfter ==
  ASSUME IInv, UNCHANGED <<device, bo, cpu, op, owed, lost>>, Good(gpu', Busy),
         op.kind \in {"solid", "copy"} => gpu'.priv = gpu.priv,
         \A b \in Pixmaps : Waited(gpu, b) => Waited(gpu', b)
  PROVE  IInv'
<1>1. TypeOK'
  BY DEF IInv, TypeOK, Good, GpuStates
<1>2. BatchKept'
  BY DEF IInv, BatchKept
<1>3. Good(gpu, Busy)'
  <2>1. Busy' = Busy
    BY DEF Busy
  <2> QED
    BY <2>1, GoodAfter
<1>4. (Operands /\ Calm)'
  BY DEF IInv, Operands, Calm
<1>5. AllWaited'
  BY DEF IInv, AllWaited, Waited, TypeOK
<1>6. NothingLost'
  BY InvGives
<1> QED
  BY <1>1, <1>2, <1>3, <1>4, <1>5, <1>6 DEF IInv

\* The GPU finishes.
LEMMA CompleteStep ==
  ASSUME IInv, NEW b \in Pixmaps, Complete(b)
  PROVE  IInv'
<1>1. gpu' = Written(gpu, b) /\ UNCHANGED <<device, bo, cpu, op, owed, lost>>
  BY DEF Complete
<1>2. Good(Written(gpu, b), Busy) /\ Written(gpu, b).priv = gpu.priv
  BY WrittenGood, WrittenFields DEF IInv, Good
<1> QED
  BY <1>1, <1>2, SameAfter DEF Waited

\* A mapping is taken.
LEMMA EvictStep ==
  ASSUME IInv, NEW b \in Pixmaps, Evict(b)
  PROVE  IInv'
<1> DEFINE w == Written(gpu, b)
           e == [w EXCEPT !.priv[b].mapped = FALSE]
<1>1. /\ gpu' = e /\ UNCHANGED <<device, bo, cpu, op, owed, lost>>
      /\ op.kind \notin {"solid", "copy"} /\ gpu.priv[b] # None
  BY DEF Evict
<1>2. Good(w, Busy) /\ w.priv = gpu.priv /\ b \notin w.writing
  BY WrittenGood, WrittenFields DEF IInv, Good
<1> HIDE DEF w
<1> DEFINE new == [w.priv[b] EXCEPT !.mapped = FALSE]
<1>3. w \in GpuStates /\ w.priv[b] \in Records
  BY <1>1, <1>2 DEF Good, GpuStates
<1>4. new \in Records /\ new.is_gpu = w.priv[b].is_gpu
  BY <1>3 DEF Records
<1>5. e = [w EXCEPT !.priv[b] = new]
  BY <1>3 DEF GpuStates
<1> HIDE DEF new
<1>6. /\ e \in GpuStates /\ e.writing = w.writing /\ e.stale = w.stale
      /\ e.priv[b] = new /\ \A c \in Pixmaps : c # b => e.priv[c] = w.priv[c]
  BY <1>3, <1>4, <1>5 DEF GpuStates
<1> HIDE DEF e
<1>7. \A c \in e.writing : c \in Pixmaps /\ e.priv[c] = w.priv[c]
  BY <1>2, <1>6 DEF GpuStates
<1>8. Marked(e, Busy) /\ Quiet(e, Busy) /\ Fresh(e, Busy)
  BY <1>2, <1>6, <1>7 DEF Good, Marked, Quiet, Fresh
<1>9. \A c \in Pixmaps : Waited(gpu, c) => Waited(e, c)
  BY <1>1, <1>2, <1>4, <1>6 DEF Waited
<1> QED
  BY <1>1, <1>6, <1>8, <1>9, SameAfter DEF Good

\* A swap shows another buffer.
LEMMA FlipStep ==
  ASSUME IInv, NEW p \in Pixmaps, Flip(p)
  PROVE  IInv'
<1>1. /\ op = NoOp /\ UNCHANGED <<device, cpu, op, owed, lost>> /\ TypeOK /\ Booleans
      /\ Good(gpu, {}) /\ owed = <<>> /\ cpu = {} /\ op.kind \notin Kinds
  BY InvGives DEF Flip, Idle
<1>2. bo' \in [Pixmaps -> Pixmaps]
  BY <1>1, PixmapsAssumption DEF Flip, Booleans
<1>3. /\ gpu' \in GpuStates /\ gpu'.priv = gpu.priv /\ gpu'.writing = gpu.writing
      /\ gpu'.stale = FALSE
  BY <1>1 DEF Flip, Good, GpuStates
<1>4. TypeOK'
  BY <1>1, <1>2, <1>3 DEF TypeOK, GpuStates
<1>5. Good(gpu, Busy)'
  BY <1>1, <1>3 DEF Good, Marked, Quiet, Fresh, Busy, MayFailWait
<1>6. (BatchKept /\ Operands /\ Calm /\ AllWaited)'
  BY <1>1 DEF BatchKept, Operands, Calm, AllWaited, Kinds
<1>7. NothingLost'
  BY <1>1, InvGives
<1> QED
  BY <1>4, <1>5, <1>6, <1>7 DEF IInv

\* OMAPVideoPutTextureImage
LEMMA PutTextureImageStep ==
  ASSUME IInv, Idle, NEW dst \in Pixmaps, PutTextureImage(dst)
  PROVE  IInv'
<1>1. /\ TypeOK /\ Booleans /\ Good(gpu, {}) /\ owed = <<>> /\ cpu = {} /\ op = NoOp
      /\ lost \in {"nothing", "some", "all"} /\ (lost' = lost /\ device' = device => NothingLost')
      /\ gpu \in GpuStates /\ bo[dst] \in Pixmaps
  BY InvGives DEF Idle, Booleans
<1>2. CASE UNCHANGED vars
  <2>1. Busy' = Busy /\ Good(gpu', Busy)
    BY <1>2 DEF IInv, Busy, vars
  <2> QED
    BY <1>2, <2>1, SameAfter DEF vars, Waited
<1>3. ASSUME NEW mapped \in BOOLEAN, UNCHANGED <<device, bo, cpu, op, owed, lost>>,
             gpu' = MapBo(gpu, bo[dst], mapped)
      PROVE  IInv'
  <2>1. Good(gpu', {})
    BY <1>1, <1>3, MapBoGood
  <2> QED
    BY <1>1, <1>3, <2>1, IdleAfter
<1>4. ASSUME NEW mapped \in BOOLEAN, NEW answer \in Answers,
             UNCHANGED <<device, bo, cpu, op, owed, lost>>,
             MapBo(gpu, bo[dst], mapped).priv[bo[dst]] # None,
             gpu' = FlushScanout(OnGpu(Queued(MapBo(gpu, bo[dst], mapped), bo[dst]), dst), dst, answer)
      PROVE  IInv'
  <2> DEFINE m == MapBo(gpu, bo[dst], mapped)
  <2>1. Good(m, {}) /\ Backed(m, bo[dst]) /\ m.priv[bo[dst]] # None
    BY <1>1, <1>4, MapBoGood, MapBoBacked
  <2>2. gpu' = FlushScanout(OnGpu(Queued(m, bo[dst]), dst), dst, answer)
    BY <1>4
  <2> HIDE DEF m
  <2>3. Good(m, {bo[dst]})
    BY <2>1 DEF Good, Marked, Quiet, Fresh
  <2>4. Good(Queued(m, bo[dst]), {bo[dst]}) /\ Queued(m, bo[dst]).priv[bo[dst]] # None
    BY <1>1, <2>1, <2>3, QueuedGood DEF Backed
  <2>5. Good(gpu', {})
    BY <1>1, <2>2, <2>4, FlushGood
  <2> QED
    BY <1>1, <1>4, <2>5, IdleAfter
<1>5. CASE Crash
  BY <1>5, CrashStep
<1> QED
  BY <1>2, <1>3, <1>4, <1>5 DEF PutTextureImage

\* Every step of drawing.
LEMMA NextInv ==
  ASSUME IInv, Next
  PROVE  IInv'
<1>1. ASSUME NEW p \in Pixmaps, PrepareSolid(p) \/ PrepareAccess(p) \/ Flip(p)
      PROVE  IInv'
  BY <1>1, PrepareSolidStep, PrepareAccessStep, FlipStep
<1>2. ASSUME NEW p \in Pixmaps, NEW wrote \in BOOLEAN, FinishAccess(p, wrote)
      PROVE  IInv'
  BY <1>2, FinishAccessStep
<1>3. ASSUME NEW r \in Solids, Solid(r)
      PROVE  IInv'
  BY <1>3, SolidStep
<1>4. ASSUME NEW src \in Pixmaps, NEW dst \in Pixmaps, PrepareCopy(src, dst)
      PROVE  IInv'
  BY <1>4, PrepareCopyStep
<1>5. ASSUME NEW r \in Copies, Copy(r)
      PROVE  IInv'
  BY <1>5, CopyStep
<1>6. ASSUME NEW dst \in Pixmaps, NEW src \in Pixmaps, NEW mask \in Pixmaps \cup {None},
             NEW q \in Pictures, CheckComposite(dst, src, mask, q)
      PROVE  IInv'
  BY <1>6, CheckCompositeStep
<1>7. ASSUME NEW r \in Composites, Composite(r)
      PROVE  IInv'
  BY <1>7, CompositeStep
<1>8. ASSUME Done
      PROVE  IInv'
  BY <1>8, DoneStep
<1>9. ASSUME NEW b \in Pixmaps, Complete(b) \/ Evict(b)
      PROVE  IInv'
  BY <1>9, CompleteStep, EvictStep
<1>10. CASE Fault
  BY <1>10, CrashStep DEF Fault
<1> QED
  BY <1>1, <1>2, <1>3, <1>4, <1>5, <1>6, <1>7, <1>8, <1>9, <1>10 DEF Next

\* Every step of drawing and of video, and every stutter.
LEMMA VideoStepInv ==
  ASSUME IInv, [VideoNext]_videoVars
  PROVE  IInv'
<1>1. CASE Next
  BY <1>1, NextInv
<1>2. ASSUME NEW dst \in Pixmaps, NEW fmt \in Formats, NEW size \in Sizes,
             PutImage(dst, fmt, size)
      PROVE  IInv'
  BY <1>2, PutTextureImageStep, CrashStep DEF PutImage
<1>3. CASE UNCHANGED vars
  <2>1. Good(gpu', Busy)
    BY <1>3 DEF IInv, vars
  <2> QED
    BY <1>3, <2>1, SameAfter DEF vars, Waited
<1> QED
  BY <1>1, <1>2, <1>3 DEF VideoNext, StopVideo, videoVars

\* The inductive invariant, of everything that draws.
THEOREM Invariance == VideoSpec => []IInv
<1>1. VideoInit => IInv
  BY InitInv DEF VideoInit
<1>2. IInv /\ [VideoNext]_videoVars => IInv'
  BY VideoStepInv
<1> QED
  BY <1>1, <1>2, PTL DEF VideoSpec

\* The variables stay in their types: in particular a batch has never more
\* rectangles than its array, and is_gpu is of a record that was zeroed.
THEOREM TypeCorrect == VideoSpec => []TypeOK
<1>1. IInv => TypeOK
  BY DEF IInv
<1> QED
  BY <1>1, Invariance, PTL

\* The discipline of the batches: what is in the array are the requests accepted
\* since the last flush, each once, in order, in the operation they were made
\* to, drawn where they were asked for, and never past the array's end, however
\* large it is.  It holds whatever the GPU and the services refuse; it says
\* nothing of what a flush does with the batch.
THEOREM BatchIsKept == VideoSpec => []BatchKept
<1>1. IInv => BatchKept
  BY DEF IInv
<1> QED
  BY <1>1, Invariance, PTL

\* While the GPU and the services refuse nothing, every flush gives the GPU the
\* whole batch, so that no rectangle that was accepted is lost, of any operation
\* but the transformed copies PVRRotateCopyRender does not draw.  When one is
\* refused, the loops over the batch end and the rest is given up.
THEOREM NothingIsLost == VideoSpec => []NothingLost
<1>1. IInv => NothingLost
  BY DEF IInv
<1> QED
  BY <1>1, Invariance, PTL

\* The CPU comes after the GPU, provided that a wait that was started succeeds:
\* is_gpu is up to date for every buffer, whatever else the services refuse and
\* whichever mappings are taken.  A wait that fails is only logged, and the
\* access goes on; or it ends in a write to a record that was freed.
THEOREM CpuAfterGpu == VideoSpec => []AccessAfterGpu
<1>1. ASSUME IInv
      PROVE  AccessAfterGpu
  <2> SUFFICES ASSUME ~MayFailWait, NEW p \in cpu, bo[p] \in gpu.writing
               PROVE  bo[p] = Root /\ ~device.manual
    BY DEF AccessAfterGpu
  <2>1. op = NoOp
    BY <1>1 DEF IInv, Calm
  <2>2. Marked(gpu, {})
    BY <1>1, <2>1, InvGives DEF Good
  <2>3. gpu.priv[bo[p]] # None /\ ~gpu.priv[bo[p]].is_gpu
    BY <1>1, <2>2 DEF IInv, AllWaited, Waited, Marked
  <2> QED
    BY <2>2, <2>3 DEF Marked
<1> QED
  BY <1>1, Invariance, PTL

\* A manually updated panel is not left behind by any operation, provided that a
\* wait that was started succeeds: after one that fails the panel is sent the
\* framebuffer before it has been drawn.
THEOREM PanelIsFresh == VideoSpec => []PanelFresh
<1>1. ASSUME IInv
      PROVE  PanelFresh
  <2> SUFFICES ASSUME ~MayFailWait, device.manual, Idle, bo[Root] = Root
               PROVE  ~gpu.stale
    BY DEF PanelFresh
  <2>1. Fresh(gpu, {})
    BY <1>1, InvGives DEF Idle, Good
  <2> QED
    BY <2>1 DEF Fresh
<1> QED
  BY <1>1, Invariance, PTL

-----------------------------------------------------------------------------
(* Video *)

\* The image the client is told to make is the image that is read: the pitch
\* and the offset of each plane agree, for every format and size.
THEOREM LayoutsAgree ==
  ASSUME NEW fmt \in Formats, NEW w \in Nat, NEW h \in Nat
  PROVE  PutLayout(fmt, QueryLayout(fmt, w, h).w, QueryLayout(fmt, w, h).h)
           = QueryLayout(fmt, w, h)
<1>1. CASE fmt \in Planar
  BY <1>1 DEF PutLayout, QueryLayout, Even, AlignUp
<1>2. CASE fmt \notin Planar
  BY <1>2 DEF PutLayout, QueryLayout, Even, AlignUp
<1> QED
  BY <1>1, <1>2

EvenSize(s) == s.w % 2 = 0 /\ s.h % 2 = 0

PlaneType == [w : Nat, h : Nat, pitch : Nat]

\* The chroma plane that belongs to a luma plane.
Half(plane) == [w |-> plane.w \div 2, h |-> plane.h \div 2, pitch |-> plane.pitch \div 2]

\* The planes of an image of format fmt and of an even size.
InStep(planes, fmt) ==
  /\ \A i \in 0 .. 2 : planes[i] # None <=> i < Nplanes(fmt)
  /\ planes[0] \in PlaneType /\ EvenSize(planes[0])
  /\ planes[0].pitch = Stride(planes[0].w, Depth(fmt))
  /\ \A i \in 1 .. 2 : i < Nplanes(fmt) => planes[i] = Half(planes[0])

\* A port has no planes, or those of an image of its format.
PortInv ==
  port.planes = NoPlanes \/
    (port.format \in Formats /\ port.nplanes = Nplanes(port.format)
     /\ InStep(port.planes, port.format))

\* A stride is positive, so half of one is never taken for no pitch at all.
LEMMA HalfStride ==
  ASSUME NEW w \in Nat \ {0}, NEW fmt
  PROVE  Stride(w, Depth(fmt)) \in Nat /\ Stride(w, Depth(fmt)) \div 2 # 0
<1>1. CASE fmt \in Planar
  BY <1>1 DEF Stride, Depth, AlignUp, STRIDE_BOUNDARY
<1>2. CASE fmt \notin Planar
  BY <1>2 DEF Stride, Depth, AlignUp, STRIDE_BOUNDARY
<1> QED
  BY <1>1, <1>2

\* Planes that are kept and planes that are made anew fit each other: for even
\* sizes the chroma planes are of another size whenever the luma plane is.
LEMMA PlanesFit ==
  ASSUME NEW fmt \in Formats, NEW size \in Sizes, EvenSize(size),
         Freed(fmt) = NoPlanes \/ InStep(Freed(fmt), fmt)
  PROVE  InStep(Planes(fmt, size), fmt)
<1> DEFINE old == Freed(fmt)
           luma == Setupplane(old[0], size.w, size.h, Depth(fmt), 0)
           chroma(i) == Setupplane(old[i], size.w \div 2, size.h \div 2, Depth(fmt), luma.pitch \div 2)
           planes == Planes(fmt, size)
<1>1. planes = [i \in 0 .. 2 |-> CASE i = 0 -> luma
                                   [] i > 0 /\ i < Nplanes(fmt) -> chroma(i)
                                   [] OTHER -> old[i]]
  BY DEF Planes
<1>2. /\ size.w \in Nat \ {0} /\ size.h \in Nat \ {0} /\ size.w % 2 = 0 /\ size.h % 2 = 0
      /\ None \notin PlaneType /\ Nplanes(fmt) \in {1, 3}
  BY VideoAssumption DEF PlaneType, EvenSize, Nplanes
<1> DEFINE stride == Stride(size.w, Depth(fmt))
<1>3. stride \in Nat /\ stride \div 2 # 0
  BY <1>2, HalfStride
<1>4. /\ luma = [w |-> size.w, h |-> size.h, pitch |-> stride]
      /\ luma \in PlaneType
  <2>1. CASE old[0] # None /\ old[0].w = size.w /\ old[0].h = size.h
    <3>1. luma = old[0]
      BY <2>1 DEF Setupplane
    <3>2. InStep(old, fmt)
      BY <2>1 DEF NoPlanes
    <3>3. old[0] \in PlaneType /\ old[0].pitch = stride
      BY <2>1, <3>2 DEF InStep
    <3> QED
      BY <2>1, <3>1, <3>3 DEF PlaneType
  <2>2. CASE ~(old[0] # None /\ old[0].w = size.w /\ old[0].h = size.h)
    <3>1. luma = [w |-> size.w, h |-> size.h, pitch |-> stride]
      BY <2>2 DEF Setupplane
    <3> QED
      BY <1>2, <1>3, <3>1 DEF PlaneType
  <2> QED
    BY <2>1, <2>2
<1>5. ASSUME NEW i \in 1 .. 2, i < Nplanes(fmt)
      PROVE  chroma(i) = [w |-> size.w \div 2, h |-> size.h \div 2, pitch |-> stride \div 2]
  <2>1. luma.pitch \div 2 # 0 /\ luma.pitch = stride
    BY <1>3, <1>4
  <2>2. CASE old[i] # None /\ old[i].w = size.w \div 2 /\ old[i].h = size.h \div 2
    <3>1. InStep(old, fmt)
      BY <2>2 DEF NoPlanes
    <3>2. old[0] \in PlaneType /\ EvenSize(old[0]) /\ old[i] = Half(old[0])
          /\ old[0].pitch = Stride(old[0].w, Depth(fmt))
      BY <1>5, <3>1 DEF InStep
    <3>3. old[0].w = size.w
      BY <1>2, <2>2, <3>2 DEF Half, EvenSize, PlaneType
    <3>4. old[i] = [w |-> size.w \div 2, h |-> size.h \div 2, pitch |-> stride \div 2]
      BY <2>2, <3>2, <3>3 DEF Half
    <3> QED
      BY <2>2, <3>4 DEF Setupplane
  <2>3. CASE ~(old[i] # None /\ old[i].w = size.w \div 2 /\ old[i].h = size.h \div 2)
    <3> HIDE DEF luma
    <3> QED
      BY <2>1, <2>3 DEF Setupplane
  <2> QED
    BY <2>2, <2>3
<1> HIDE DEF luma, chroma
<1>6. \A i \in 0 .. 2 : i >= Nplanes(fmt) => old[i] = None
  BY <1>2 DEF NoPlanes, InStep
<1> HIDE DEF old, stride
<1>7. /\ planes[0] = luma
      /\ \A i \in 1 .. 2 : i < Nplanes(fmt) => planes[i] = chroma(i)
      /\ \A i \in 1 .. 2 : i >= Nplanes(fmt) => planes[i] = old[i]
  BY <1>1, <1>2
<1> HIDE DEF planes
<1>8. \A i \in 1 .. 2 : i < Nplanes(fmt) => planes[i] = Half(planes[0])
  BY <1>4, <1>5, <1>7 DEF Half
<1>9. \A i \in 1 .. 2 : i < Nplanes(fmt) => planes[i] # None
  <2>1. Half(planes[0]) \in PlaneType
    BY <1>4, <1>7 DEF Half, PlaneType
  <2> QED
    BY <1>2, <1>8, <2>1
<1>10. \A i \in 0 .. 2 : planes[i] # None <=> i < Nplanes(fmt)
  BY <1>2, <1>4, <1>6, <1>7, <1>9
<1>11. /\ planes[0] \in PlaneType /\ EvenSize(planes[0])
       /\ planes[0].pitch = Stride(planes[0].w, Depth(fmt))
  BY <1>2, <1>4, <1>7 DEF EvenSize, stride
<1> QED
  BY <1>8, <1>10, <1>11 DEF InStep, planes

\* A step of video keeps the port's planes in step.
LEMMA PortStep ==
  ASSUME \A s \in Sizes : EvenSize(s), PortInv, [VideoNext]_videoVars
  PROVE  PortInv'
<1>1. CASE UNCHANGED port
  BY <1>1 DEF PortInv
<1>2. CASE StopVideo
  <2>1. port'.planes = NoPlanes \/ port' = port
    BY <1>2 DEF StopVideo
  <2> QED
    BY <2>1 DEF PortInv
<1>3. ASSUME NEW fmt \in Formats, NEW size \in Sizes,
             port' = [format |-> fmt, nplanes |-> Nplanes(fmt), planes |-> Planes(fmt, size)]
      PROVE  PortInv'
  <2>1. Freed(fmt) = NoPlanes \/ InStep(Freed(fmt), fmt)
    BY DEF Freed, PortInv
  <2>2. InStep(Planes(fmt, size), fmt)
    BY <2>1, PlanesFit
  <2>3. /\ port'.format = fmt /\ port'.nplanes = Nplanes(fmt)
        /\ port'.planes = Planes(fmt, size)
    BY <1>3
  <2> QED
    BY <2>2, <2>3 DEF PortInv
<1> QED
  BY <1>1, <1>2, <1>3 DEF VideoNext, PutImage, videoVars

\* Video whose sizes are even never leaves a chroma plane that does not fit
\* its luma plane, however the images are resized and change their format.
THEOREM PlanesStayInStep ==
  ASSUME \A s \in Sizes : EvenSize(s)
  PROVE  VideoSpec => []PlanesInStep
<1>1. VideoInit => PortInv
  BY DEF VideoInit, PortInv
<1>2. PortInv /\ [VideoNext]_videoVars => PortInv'
  BY PortStep
<1>3. ASSUME PortInv
      PROVE  PlanesInStep
  <2>1. CASE port.planes = NoPlanes
    BY <2>1 DEF PlanesInStep
  <2>2. CASE port.planes # NoPlanes
    <3>1. /\ port.nplanes = Nplanes(port.format) /\ InStep(port.planes, port.format)
          /\ Nplanes(port.format) \in {1, 3}
      BY <1>3, <2>2 DEF PortInv, Nplanes
    <3> QED
      BY <3>1 DEF PlanesInStep, InStep, Half
  <2> QED
    BY <2>1, <2>2
<1> QED
  BY <1>1, <1>2, <1>3, PTL DEF VideoSpec

=============================================================================
