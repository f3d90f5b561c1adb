----------------------------- MODULE PvrRender -----------------------------
(***************************************************************************)
(* Drawing with the GPU: the solid, copy and composite operations of       *)
(* src/src/omap_exa_pvr.c, which batch their rectangles and flush them     *)
(* when the batch is full or the operation ends, the rendering of          *)
(* src/src/omap_pvr_sgx.c, the waits before the CPU may use a pixmap, and  *)
(* the updates a manually updated display needs.                           *)
(*                                                                         *)
(* A mapping and the record it is kept in travel with the buffer, so they  *)
(* are indexed by buffers; the list of mappings is the module PvrBuffers.  *)
(* Buffers are named by the pixmap they were made for.  Requests that are  *)
(* refused by their planemask, depth or alu change nothing, and are left   *)
(* out.                                                                    *)
(***************************************************************************)
EXTENDS Integers, FiniteSets, Sequences

CONSTANTS
  Pixmaps,     \* the pixmaps drawn to and from, all of one size
  Root,        \* the screen pixmap; the buffer of that name is pOMAP->scanout
  Width,       \* drawable.width of the pixmaps
  Height,      \* drawable.height
  SolidMax,    \* MAX_SOLID_BATCH_RECTS
  CopyMax,     \* MAX_COPY_BATCH_RECTS
  Solids,      \* rectangles asked of sgxSolid
  Copies,      \* requests to sgxCopy: from, to and size
  Pictures,    \* what sgxCheckComposite looks at, and the operator
  Code,        \* the programs PVRRenderInit has loaded: from, to, masked, operator
  Composites,  \* requests to sgxComposite: from, mask, to and size
  None,        \* NULL
  Refusals     \* what the services may refuse, from the beginning to the end:
               \* "draw", to draw or to map the pixmaps of a batch that is
               \* flushed; "wait", to map again or answer for what is waited for

ASSUME PixmapsAssumption ==
  /\ IsFiniteSet(Pixmaps) /\ Root \in Pixmaps /\ None \notin Pixmaps
  /\ Width \in Nat \ {0} /\ Height \in Nat \ {0}

ASSUME MaxAssumption == SolidMax \in Nat \ {0} /\ CopyMax \in Nat \ {0}

ASSUME RefusalsAssumption == Refusals \subseteq SUBSET {"draw", "wait"}

Point == [x : Int, y : Int]
Rect  == [x0 : Int, y0 : Int, x1 : Int, y1 : Int]

PictureType ==
  [op : {"src", "over", "other"}, repeat : BOOLEAN, maskRepeat : BOOLEAN,
   src : {"argb", "xrgb", "a8", "other"}, dst : {"argb", "xrgb", "a8", "other"},
   transform : {"none", "positive", "rotate", "scale", "unknown"},
   maskTransform : {"none", "positive", "other"}]

ASSUME RequestsAssumption ==
  /\ Solids \subseteq Rect
  /\ Copies \subseteq [from : Point, to : Point, size : Point]
  /\ Composites \subseteq [from : Point, mask : Point, to : Point, size : Point]
  /\ Pictures \subseteq PictureType

Records == [mapped : BOOLEAN, is_gpu : BOOLEAN]

Rects == [to : Rect, from : Rect, mask : Rect \cup {None}]

ASSUME NoneAssumption == None \notin Rect /\ None \notin Records /\ None \notin Rects

VARIABLES
  device,  \* manual: pOMAP->ManualUpdate; refuses: which of the refusals the
           \* services are capable of
  bo,      \* the buffer of a pixmap
  gpu,     \* the record of each buffer, what the GPU writes, what the panel shows
  cpu,     \* pixmaps the server may use with the CPU
  op,      \* gsSolidOp, gsCopy2DOp.renderOp or gsRenderOp
  owed,    \* requests of the operation that are in its batch
  lost     \* what the last flush left out: nothing, all it does not draw, or some

vars == <<device, bo, gpu, cpu, op, owed, lost>>

Devices == [manual : BOOLEAN, refuses : Refusals]

MayRefuse   == "draw" \in device.refuses
MayFailWait == "wait" \in device.refuses

-----------------------------------------------------------------------------
(* What the GPU does with buffers.  gpu is a record:                        *)
(*   priv     is_gpu, and whether it holds a mapping, of each PrivPixmapRec  *)
(*   writing  buffers the GPU has writes queued for                          *)
(*   stale    the panel does not show what has been written to the           *)
(*            framebuffer's buffer, which is the screen pixmap's             *)
(*   wild     a record has been written to after it was freed                *)

\* Mutant: a new record is not zeroed.
MapBoUnzeroed(g, b, ok) ==
  IF g.priv[b] = None /\ ok THEN [g EXCEPT !.priv[b] = [mapped |-> TRUE, is_gpu |-> None]] ELSE g

\* sgxMapPixmapBo; ok is whether PVRMapBo succeeds.
MapBo(g, b, ok) ==
  CASE g.priv[b] # None /\ g.priv[b].mapped -> g
    [] ~(g.priv[b] # None /\ g.priv[b].mapped) /\ ok ->
         [g EXCEPT !.priv[b] = [mapped |-> TRUE,
                                is_gpu |-> g.priv[b] # None /\ g.priv[b].is_gpu]]
    [] OTHER -> [g EXCEPT !.priv[b] = None]

\* The GPU has finished the writes queued for b.
Written(g, b) ==
  [g EXCEPT !.writing = @ \ {b},
            !.stale = @ \/ (device.manual /\ b = bo[Root] /\ b \in g.writing)]

\* The GPU is given something that draws to b.
Queued(g, b) == [g EXCEPT !.writing = @ \cup {b}]

\* Whether sgxWaitPixmap has to wait for b.
Awaited(g, b) == g.priv[b].is_gpu /\ (b # Root \/ device.manual)

\* How waitForBlitsCompleteOnDeviceMem ends: a mapping that was taken is not
\* made again, PVR2DQueryBlitsComplete fails, which is only logged, or all is
\* written.
Answers == IF MayFailWait THEN {"done", "unmapped", "unanswered"} ELSE {"done"}

\* The record is no longer marked.
Unmark(g, b) == [g EXCEPT !.priv[b].is_gpu = FALSE]

\* The wait for b, which has a record.  sgxWaitPixmap unmarks the record it
\* looked up before, which sgxMapPixmapBo frees when it cannot map b again.
WaitFor(g, b, answer) ==
  LET m == MapBo(g, b, answer # "unmapped")
  IN  CASE ~Awaited(g, b) -> Unmark(g, b)
        [] Awaited(g, b) /\ m.priv[b] = None -> [m EXCEPT !.wild = TRUE]
        [] Awaited(g, b) /\ m.priv[b] # None /\ answer = "unanswered" -> Unmark(m, b)
        [] OTHER -> Unmark(Written(m, b), b)

\* sgxWaitPixmap of the pixmap p.
WaitPixmap(g, p, answer) ==
  IF p = None \/ g.priv[bo[p]] = None THEN g ELSE WaitFor(g, bo[p], answer)

\* drmmode_flush_scanout: a panel that is updated by hand is sent the
\* framebuffer; the others are never stale.
Dirty(g) == [g EXCEPT !.stale = FALSE]

\* Mutant: the panel is sent the framebuffer before it has been drawn.
FlushScanoutAtOnce(g, p, answer) == IF device.manual /\ bo[p] = Root THEN Dirty(g) ELSE g

\* flushScanout
FlushScanout(g, p, answer) ==
  IF device.manual /\ bo[p] = Root THEN Dirty(WaitPixmap(g, p, answer)) ELSE g

\* Mutant: an operation does not mark its destination.
OnGpuNever(g, p) == g

\* setPixmapOnGPU
OnGpu(g, p) == [g EXCEPT !.priv[bo[p]].is_gpu = TRUE]

-----------------------------------------------------------------------------
(* Rectangles *)

Box(x, y, w, h) == [x0 |-> x, y0 |-> y, x1 |-> x + w, y1 |-> y + h]

ZeroBox == Box(0, 0, 0, 0)

Smaller(a, b) == IF a < b THEN a ELSE b
Larger(a, b)  == IF a < b THEN b ELSE a

\* pvrInitBoundingBox: nothing is in the box.
InitBoundingBox == [x0 |-> Width, y0 |-> Height, x1 |-> 0, y1 |-> 0]

\* pvrAddRectToBoundingBox, for a surface that is not empty.
AddRect(box, r) ==
  LET b == IF box = ZeroBox THEN InitBoundingBox ELSE box
      u == [x0 |-> Smaller(b.x0, r.x0), y0 |-> Smaller(b.y0, r.y0),
            x1 |-> Larger(b.x1, r.x1), y1 |-> Larger(b.y1, r.y1)]
  IN  IF u.x1 <= u.x0 \/ u.y1 <= u.y0 THEN b
      ELSE [x0 |-> Larger(u.x0, 0), y0 |-> Larger(u.y0, 0),
            x1 |-> Smaller(u.x1, Width), y1 |-> Smaller(u.y1, Height)]

\* What sgxCopy makes of one axis of a request: where it starts in both pixmaps
\* and how much is left of it, given the length of the destination.
ClipAxis(from, to, size, length) ==
  LET d == IF to < 0 THEN 0 ELSE to
  IN  [from |-> IF to < 0 THEN from - to ELSE from, to |-> d,
       size |-> Smaller(length - d, IF to < 0 THEN size + to ELSE size)]

\* Mutant: the source stays where it was when the destination is cut.
ClipDestination(r) ==
  LET x == ClipAxis(r.from.x, r.to.x, r.size.x, Width)
      y == ClipAxis(r.from.y, r.to.y, r.size.y, Height)
  IN  [to |-> Box(x.to, y.to, x.size, y.size),
       from |-> Box(r.from.x, r.from.y, x.size, y.size), mask |-> None]

\* sgxCopy: the rectangles of a request, clipped to the destination.
Clip(r) ==
  LET x == ClipAxis(r.from.x, r.to.x, r.size.x, Width)
      y == ClipAxis(r.from.y, r.to.y, r.size.y, Height)
  IN  [to |-> Box(x.to, y.to, x.size, y.size),
       from |-> Box(x.from, y.from, x.size, y.size), mask |-> None]

Empty(r) == r.x1 <= r.x0 \/ r.y1 <= r.y0

\* clamp
Clamp(v, low, high) == IF v > high THEN high ELSE IF v < low THEN low ELSE v

\* What sgxComposite makes of the rectangle of one picture.
Fit(at, size, repeat) ==
  IF repeat THEN Box(0, 0, 1, 1)
  ELSE LET x == Clamp(at.x, 0, Width - 1)
           y == Clamp(at.y, 0, Height - 1)
       IN  Box(x, y, Clamp(size.x, 0, Width - x), Clamp(size.y, 0, Height - y))

\* The rectangle of the mask does not fit: clamping would change it.
BadMask(at, size) ==
  Fit(at, size, FALSE) # Box(at.x, at.y, size.x, size.y)

-----------------------------------------------------------------------------
(* Batches *)

NoOp == [kind |-> "none"]

Crashed == [kind |-> "crashed"]

Limit(kind) == IF kind = "solid" THEN SolidMax ELSE CopyMax

\* memset, and sgxCompositeResetCoordinates for copies and composites.
NewOp(kind, dst, src, mask, picture) ==
  [kind |-> kind, dst |-> dst, src |-> src, mask |-> mask, picture |-> picture,
   numBltRects |-> 0, bltRectsIdx |-> 0,
   rects |-> [i \in 0 .. Limit(kind) - 1 |-> None],
   destBoundBox |-> IF kind = "solid" THEN ZeroBox ELSE InitBoundingBox]

\* The batch has to be flushed before another rectangle is added.
Full(o) == o.numBltRects >= Limit(o.kind)

\* A rectangle is written at bltRectsIdx and counted.
Add(o, rects) ==
  [o EXCEPT !.rects = [@ EXCEPT ![o.bltRectsIdx] = rects],
            !.numBltRects = @ + 1,
            !.destBoundBox = IF o.kind = "solid" THEN ZeroBox ELSE AddRect(@, rects.to)]

\* Mutant: the index stays where it was.
ResetCountOnly(o) ==
  [o EXCEPT !.numBltRects = 0,
            !.destBoundBox = IF o.kind = "solid" THEN ZeroBox ELSE InitBoundingBox]

\* The batch is empty again.
Reset(o) ==
  [o EXCEPT !.numBltRects = 0, !.bltRectsIdx = 0,
            !.destBoundBox = IF o.kind = "solid" THEN ZeroBox ELSE InitBoundingBox]

\* PVRRotateCopyRender: a transformed picture that is copied is not drawn at all.
NotDrawn(o) ==
  /\ o.kind = "composite" /\ o.mask = None
  /\ o.picture.transform \in {"rotate", "scale"} /\ o.picture.op = "src"

\* PVRRender maps what the composite uses.
Mapped(g, o, ok) ==
  IF o.kind # "composite" THEN g
  ELSE LET m == MapBo(MapBo(g, bo[o.dst], ok.dst), bo[o.src], ok.src)
       IN  IF o.mask = None THEN m ELSE MapBo(m, bo[o.mask], ok.mask)

\* PVRRenderBatch draws nothing unless all that the composite uses is mapped.
Drawable(g, o) ==
  o.kind = "composite" =>
    /\ g.priv[bo[o.dst]] # None /\ g.priv[bo[o.src]] # None
    /\ o.mask # None => g.priv[bo[o.mask]] # None

MapAnswers == [dst : BOOLEAN, src : BOOLEAN, mask : BOOLEAN]

Yes == [dst |-> TRUE, src |-> TRUE, mask |-> TRUE]

\* Mutant: the rectangles up to the one the index is at.
BatchIndexed(o) == o.bltRectsIdx

\* The rectangles the GPU is to be given.
Batch(o) == o.numBltRects

\* The GPU takes the rectangles in their order, up to one it refuses.
Taken(o) == IF MayRefuse THEN 0 .. Batch(o) ELSE {Batch(o)}

Given(g, o, n) == IF n = 0 THEN g ELSE Queued(g, bo[o.dst])

\* The GPU after the batch was given to it, and how many rectangles it took.
Flushed(o) ==
  IF Batch(o) = 0 THEN {[gpu |-> gpu, taken |-> 0]}
  ELSE LET after == {Mapped(gpu, o, ok) : ok \in IF MayRefuse THEN MapAnswers ELSE {Yes}}
       IN  {[gpu |-> Given(g, o, n), taken |-> n] :
              g \in {h \in after : Drawable(h, o) /\ ~NotDrawn(o)}, n \in Taken(o)}
             \cup {[gpu |-> g, taken |-> 0] :
                     g \in {h \in after : ~Drawable(h, o) \/ NotDrawn(o)}}

\* A flush ends the batch, whatever is left of it: of n requests, taken were drawn.
LeaveOut(o, n, taken) ==
  /\ owed' = <<>>
  /\ lost' = IF taken = n THEN "nothing" ELSE IF NotDrawn(o) THEN "all" ELSE "some"

\* sgxSolidNextBatch, sgxCopyNextBatch and sgxCompositeNextBatch, not flushing
\* unless the batch is full.
NextBatch(o, request) ==
  \/ /\ ~Full(o)
     /\ op' = [o EXCEPT !.bltRectsIdx = @ + 1]
     /\ owed' = Append(owed, request)
     /\ UNCHANGED <<gpu, lost>>
  \/ /\ Full(o)
     /\ op' = Reset(o)
     /\ \E f \in Flushed(o) : gpu' = f.gpu /\ LeaveOut(o, Len(owed) + 1, f.taken)

-----------------------------------------------------------------------------
(* Operations; EXA does one after the other, and none during CPU access. *)

Idle == op = NoOp /\ cpu = {}

NoRecords ==
  [priv |-> [b \in Pixmaps |-> None], writing |-> {}, stale |-> FALSE, wild |-> FALSE]

\* A NULL PrivPixmapRec is marked: the server is gone.
Crash ==
  /\ op' = Crashed /\ owed' = <<>> /\ cpu' = {} /\ lost' = "nothing"
  /\ gpu' = NoRecords
  /\ bo' = [p \in Pixmaps |-> p]
  /\ UNCHANGED device

\* sgxPrepareSolid
PrepareSolid(p) ==
  /\ Idle
  /\ \E ok \in BOOLEAN :
       /\ gpu' = MapBo(gpu, bo[p], ok)
       /\ op' = IF gpu'.priv[bo[p]] = None THEN NoOp ELSE NewOp("solid", p, p, None, None)
  /\ UNCHANGED <<device, bo, cpu, owed, lost>>

\* sgxSolid
Solid(r) ==
  /\ op.kind = "solid"
  /\ NextBatch(Add(op, [to |-> r, from |-> r, mask |-> None]), r)
  /\ UNCHANGED <<device, bo, cpu>>

\* sgxPrepareCopy maps the destination first.
PrepareCopy(src, dst) ==
  /\ Idle
  /\ \E ok \in MapAnswers :
       /\ gpu' = MapBo(MapBo(gpu, bo[dst], ok.dst), bo[src], ok.src)
       /\ op' = IF gpu'.priv[bo[dst]] = None \/ gpu'.priv[bo[src]] = None THEN NoOp
                ELSE NewOp("copy", dst, src, None, None)
  /\ UNCHANGED <<device, bo, cpu, owed, lost>>

\* sgxCopy; nothing happens when nothing is left of the request.
Copy(r) ==
  /\ op.kind = "copy" /\ ~Empty(Clip(r).to)
  /\ NextBatch(Add(op, Clip(r)), r)
  /\ UNCHANGED <<device, bo, cpu>>

\* PVRGetUseCodeForRender: the program for a composite.  Alpha alone is drawn
\* like a colour, and to alpha.
UseCode(q, mask) ==
  <<IF q.src = "a8" /\ q.dst = "a8" THEN "argb" ELSE q.src,
    IF q.dst = "xrgb" THEN "xrgb" ELSE "argb", mask # None, q.op>>

\* A picture that repeats is one pixel wide or high.
Repeatable(repeat) == repeat => Width = 1 \/ Height = 1

\* PVRRenderIsAccelerated; the format of the mask is among those it takes.
Accelerated(q, mask) ==
  /\ Repeatable(q.repeat) /\ Repeatable(mask # None /\ q.maskRepeat)
  /\ "other" \notin {q.src, q.dst} /\ UseCode(q, mask) \in Code
  /\ q.transform # "unknown"
  /\ q.transform = "rotate" => mask = None /\ q.op = "src"
  /\ mask # None => q.maskTransform # "other"

\* sgxCheckComposite, and sgxPrepareComposite, which accepts everything.  A
\* composite that is refused waits for its pixmaps.  Built without
\* USE_HW_COMPOSITING, as it is by default, the driver refuses all of them and
\* knows of no pixmaps to wait for: what it does is what is left without this.
CheckComposite(dst, src, mask, q) ==
  /\ Idle
  /\ \/ /\ Accelerated(q, mask)
        /\ op' = NewOp("composite", dst, src, mask, q)
        /\ UNCHANGED gpu
     \/ /\ ~Accelerated(q, mask)
        /\ \E a, b, c \in Answers :
             gpu' = WaitPixmap(WaitPixmap(WaitPixmap(gpu, src, a), dst, b), mask, c)
        /\ UNCHANGED op
  /\ UNCHANGED <<device, bo, cpu, owed, lost>>

\* PVRApplyTransformation: where a transformed source rectangle starts.
Transformed(at, q) == IF q.transform = "none" THEN {at} ELSE {r.from : r \in Composites}

\* sgxComposite
Composite(r) ==
  /\ op.kind = "composite"
  /\ op.mask # None => /\ op.picture.maskTransform = "none"
                       /\ op.picture.maskRepeat \/ ~BadMask(r.mask, r.size)
  /\ \E from \in Transformed(r.from, op.picture) :
       NextBatch(Add(op, [to |-> Fit(r.to, r.size, FALSE),
                          from |-> Fit(from, r.size, op.picture.repeat),
                          mask |-> IF op.mask = None THEN None
                                   ELSE Fit(r.mask, r.size, op.picture.maskRepeat)]), r)
  /\ UNCHANGED <<device, bo, cpu>>

\* sgxDoneSolid, sgxDoneCopy and sgxDoneComposite: what is left is flushed; the
\* destination of a composite may have lost its record.
Done ==
  /\ op.kind \in {"solid", "copy", "composite"}
  /\ \E f \in Flushed(op), answer \in Answers :
       IF f.gpu.priv[bo[op.dst]] = None THEN Crash
       ELSE /\ gpu' = FlushScanout(OnGpu(f.gpu, op.dst), op.dst, answer)
            /\ op' = NoOp
            /\ LeaveOut(op, Len(owed), f.taken)
            /\ UNCHANGED <<device, bo, cpu>>

\* sgxPrepareAccess, when omap_bo_map succeeds.
PrepareAccess(p) ==
  /\ op = NoOp /\ p \notin cpu
  /\ \E answer \in Answers : gpu' = WaitPixmap(gpu, p, answer)
  /\ cpu' = cpu \cup {p}
  /\ UNCHANGED <<device, bo, op, owed, lost>>

\* OMAPFinishAccess, after the server has read or written the pixmap.
FinishAccess(p, wrote) ==
  /\ p \in cpu
  /\ LET g == [gpu EXCEPT !.stale = @ \/ (wrote /\ device.manual /\ bo[p] = bo[Root])]
     IN  gpu' = IF bo[p] = Root THEN Dirty(g) ELSE g
  /\ cpu' = cpu \ {p}
  /\ UNCHANGED <<device, bo, op, owed, lost>>

-----------------------------------------------------------------------------
(* What else happens *)

\* The GPU finishes what it draws to b.
Complete(b) ==
  /\ b \in gpu.writing
  /\ gpu' = Written(gpu, b)
  /\ UNCHANGED <<device, bo, cpu, op, owed, lost>>

\* Mapping a buffer that is not drawn here takes the mapping of b, which the
\* services let go of once the GPU is done with it; the scanout's is kept.
Evict(b) ==
  /\ op.kind \in {"none", "composite"}
  /\ b # Root /\ gpu.priv[b] # None /\ gpu.priv[b].mapped
  /\ gpu' = [Written(gpu, b) EXCEPT !.priv[b].mapped = FALSE]
  /\ UNCHANGED <<device, bo, cpu, op, owed, lost>>

\* A swap shows p's buffer: OMAPPixmapExchange, and the panel shows all of it.
Flip(p) ==
  /\ Idle /\ p # Root
  /\ bo' = [bo EXCEPT ![p] = bo[Root], ![Root] = bo[p]]
  /\ gpu' = [gpu EXCEPT !.stale = FALSE]
  /\ UNCHANGED <<device, cpu, op, owed, lost>>

\* Memory that was written to after it was freed takes the server down, sooner
\* or later or never.
Fault == gpu.wild /\ Crash

Init ==
  /\ device \in Devices
  /\ bo = [p \in Pixmaps |-> p]
  /\ gpu = NoRecords
  /\ cpu = {} /\ op = NoOp /\ owed = <<>> /\ lost = "nothing"

Next ==
  \/ \E p \in Pixmaps : PrepareSolid(p) \/ PrepareAccess(p) \/ Flip(p)
  \/ \E p \in Pixmaps, wrote \in BOOLEAN : FinishAccess(p, wrote)
  \/ \E r \in Solids : Solid(r)
  \/ \E src, dst \in Pixmaps : PrepareCopy(src, dst)
  \/ \E r \in Copies : Copy(r)
  \/ \E dst, src \in Pixmaps, mask \in Pixmaps \cup {None}, q \in Pictures :
       CheckComposite(dst, src, mask, q)
  \/ \E r \in Composites : Composite(r)
  \/ Done
  \/ Fault
  \/ \E b \in Pixmaps : Complete(b) \/ Evict(b)

Spec == Init /\ [][Next]_vars

-----------------------------------------------------------------------------
(* Properties *)

OpsOf(kinds, max) ==
  [kind : kinds, dst : Pixmaps, src : Pixmaps, mask : Pixmaps \cup {None},
   picture : Pictures \cup {None}, numBltRects : Nat, bltRectsIdx : Nat,
   rects : [0 .. max - 1 -> Rects \cup {None}], destBoundBox : Rect]

Ops == OpsOf({"solid"}, SolidMax) \cup OpsOf({"copy", "composite"}, CopyMax)

TypeOK ==
  /\ device \in Devices
  /\ bo \in [Pixmaps -> Pixmaps]
  /\ gpu \in [priv : [Pixmaps -> Records \cup {None}], writing : SUBSET Pixmaps,
              stale : BOOLEAN, wild : BOOLEAN]
  /\ cpu \subseteq Pixmaps
  /\ op \in Ops \cup {NoOp, Crashed}
  /\ owed \in Seq(Solids \cup Copies \cup Composites)
  /\ lost \in {"nothing", "some", "all"}

Inside(r) == 0 <= r.x0 /\ 0 <= r.y0 /\ r.x1 <= Width /\ r.y1 <= Height

Holds(r, x, y) == r.x0 <= x /\ x < r.x1 /\ r.y0 <= y /\ y < r.y1

\* What sgxCopy batches for a request moves the pixels the request moves, of
\* those that are in the destination, and no others.
Copied(r, rects) ==
  /\ Inside(rects.to)
  /\ \A x \in 0 .. Width - 1, y \in 0 .. Height - 1 :
       /\ Holds(rects.to, x, y) <=> Holds(Box(r.to.x, r.to.y, r.size.x, r.size.y), x, y)
       /\ Holds(rects.to, x, y) =>
            /\ rects.from.x0 + (x - rects.to.x0) = r.from.x + (x - r.to.x)
            /\ rects.from.y0 + (y - rects.to.y0) = r.from.y + (y - r.to.y)

\* A rectangle that lies in the surface is left as it is.
Kept(at, size, rect) ==
  LET asked == Box(at.x, at.y, size.x, size.y)
  IN  Inside(asked) /\ ~Empty(asked) => rect = asked

\* What sgxComposite batches for a request lies in the surfaces, and is what is
\* asked for, of every picture that neither repeats nor is transformed.
Composed(o, r, rects) ==
  /\ Inside(rects.to) /\ Kept(r.to, r.size, rects.to)
  /\ Inside(rects.from)
  /\ ~o.picture.repeat /\ o.picture.transform = "none" => Kept(r.from, r.size, rects.from)
  /\ o.mask # None =>
       /\ rects.mask # None /\ Inside(rects.mask)
       /\ ~o.picture.maskRepeat => rects.mask = Box(r.mask.x, r.mask.y, r.size.x, r.size.y)

\* What is batched for a request, by the kind of the operation.
Drawn(o, r, rects) ==
  CASE o.kind = "solid" -> rects.to = r
    [] o.kind = "copy" -> Copied(r, rects)
    [] o.kind = "composite" -> Composed(o, r, rects)

Covers(box, r) == box.x0 <= r.x0 /\ box.y0 <= r.y0 /\ r.x1 <= box.x1 /\ r.y1 <= box.y1

\* The batch is what has been asked for since the last flush: a rectangle for
\* each request, in order, drawn where it was asked for and never beyond the end
\* of the array; nothing is left in it between operations.
BatchKept ==
  /\ op.kind \in {"none", "crashed"} => owed = <<>>
  /\ op.kind \in {"solid", "copy", "composite"} =>
       /\ op.bltRectsIdx = op.numBltRects /\ op.bltRectsIdx < Limit(op.kind)
       /\ Len(owed) = op.numBltRects
       /\ \A i \in 0 .. op.numBltRects - 1 :
            /\ op.rects[i] # None /\ Drawn(op, owed[i + 1], op.rects[i])
            /\ op.kind # "solid" /\ ~Empty(op.rects[i].to) =>
                 Covers(op.destBoundBox, op.rects[i].to)

\* A flush gives the GPU every request that was accepted since the last one: an
\* accelerated operation draws all it is asked for.  The exceptions are the
\* services' refusals, after which the driver gives up the rest of the batch,
\* and the transformed copies PVRRotateCopyRender does not draw.
NothingLost == ~MayRefuse => lost # "some"

\* While the server uses a pixmap with the CPU, the GPU has nothing to write to
\* it: sgxPrepareAccess has waited for every operation that drew to it.  Of a
\* display that refreshes itself the code does not wait for the framebuffer, and
\* a wait that fails is over before the GPU is done.
AccessAfterGpu ==
  ~MayFailWait =>
    \A p \in cpu : bo[p] \in gpu.writing => bo[p] = Root /\ ~device.manual

\* Between operations a manually updated panel shows what was drawn: every
\* operation and every CPU access to the screen ends with an update, and, unless
\* the wait for it fails, not before the GPU is done.  It holds while the screen
\* pixmap has the buffer it was made with: pOMAP->scanout does not follow a flip.
PanelFresh == ~MayFailWait /\ device.manual /\ Idle /\ bo[Root] = Root => ~gpu.stale

=============================================================================
