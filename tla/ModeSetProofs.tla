--------------------------- MODULE ModeSetProofs ---------------------------
(***************************************************************************)
(* Theorems about Geometry and ModeSet, for any number of CRTCs, any modes *)
(* and sizes, and whatever the kernel and the allocator refuse.            *)
(***************************************************************************)
EXTENDS ModeSet, FiniteSetTheorems, TLAPS

-----------------------------------------------------------------------------
(* Strides *)

\* A row is whole blocks of 32 pixels, none of which is cut.
LEMMA StrideHoldsRow ==
  ASSUME NEW w \in Nat, NEW bpp \in {8, 16, 32}
  PROVE  /\ Stride(w, bpp) = AlignUp(w, 32) * (bpp \div 8)
         /\ AlignUp(w, 32) \in Nat /\ w <= AlignUp(w, 32)
<1>1. CASE bpp = 8
  BY <1>1 DEF Stride, AlignUp, STRIDE_BOUNDARY
<1>2. CASE bpp = 16
  BY <1>2 DEF Stride, AlignUp, STRIDE_BOUNDARY
<1>3. CASE bpp = 32
  BY <1>3 DEF Stride, AlignUp, STRIDE_BOUNDARY
<1> QED
  BY <1>1, <1>2, <1>3

\* The stride the driver computes for a tiled buffer, from whole blocks of 32
\* pixels rounded to pages, is the row omap_bo_new_tiled reserves.
LEMMA TiledStrideIsTilerRow ==
  ASSUME NEW w \in Nat, NEW bpp \in {8, 16, 32}
  PROVE  TiledStride(w, bpp) = TilerRow(w, bpp)
<1>1. CASE bpp = 8
  BY <1>1 DEF TiledStride, TilerRow, Stride, AlignUp, STRIDE_BOUNDARY, TILED_STRIDE_BOUNDARY
<1>2. CASE bpp = 16
  BY <1>2 DEF TiledStride, TilerRow, Stride, AlignUp, STRIDE_BOUNDARY, TILED_STRIDE_BOUNDARY
<1>3. CASE bpp = 32
  BY <1>3 DEF TiledStride, TilerRow, Stride, AlignUp, STRIDE_BOUNDARY, TILED_STRIDE_BOUNDARY
<1> QED
  BY <1>1, <1>2, <1>3

\* displayWidth loses nothing of the pitch it is computed from, and a row fits.
LEMMA PitchExact ==
  ASSUME NEW w \in Nat, NEW bpp \in {8, 16, 32}, NEW tiled \in BOOLEAN
  PROVE  /\ PitchOf(w, bpp, tiled) \in Nat
         /\ PitchOf(w, bpp, tiled) \div (bpp \div 8) \in Nat
         /\ (PitchOf(w, bpp, tiled) \div (bpp \div 8)) * (bpp \div 8) = PitchOf(w, bpp, tiled)
         /\ w * (bpp \div 8) <= PitchOf(w, bpp, tiled)
<1>1. CASE bpp = 8
  BY <1>1 DEF PitchOf, TiledStride, Stride, AlignUp, STRIDE_BOUNDARY, TILED_STRIDE_BOUNDARY
<1>2. CASE bpp = 16
  BY <1>2 DEF PitchOf, TiledStride, Stride, AlignUp, STRIDE_BOUNDARY, TILED_STRIDE_BOUNDARY
<1>3. CASE bpp = 32
  BY <1>3 DEF PitchOf, TiledStride, Stride, AlignUp, STRIDE_BOUNDARY, TILED_STRIDE_BOUNDARY
<1> QED
  BY <1>1, <1>2, <1>3

-----------------------------------------------------------------------------
(* The count of rotated CRTCs *)

Rotated == {c \in Crtcs : rotation[c] # 0}

\* Setting the rotation of one CRTC changes the number of rotated ones by what
\* drmmode_set_mode_major adds to its count.
LEMMA CountFollows ==
  ASSUME TypeOK, RotationCounted, NEW c \in Crtcs, NEW r \in Rotations,
         rotation' = [rotation EXCEPT ![c] = r], rotated_crtcs' = Count(c, r)
  PROVE  RotationCounted' /\ rotated_crtcs' \in Nat
<1>1. IsFiniteSet(Rotated)
  BY FS_Subset, CrtcsAssumption DEF Rotated
<1>2. rotated_crtcs = Cardinality(Rotated) /\ rotated_crtcs \in Nat
  BY DEF RotationCounted, Rotated, TypeOK
<1>3. \A d \in Crtcs : rotation'[d] = IF d = c THEN r ELSE rotation[d]
  BY DEF TypeOK
<1>4. CASE rotation[c] # 0 /\ r = 0
  <2>1. Rotated' = Rotated \ {c} /\ c \in Rotated
    BY <1>3, <1>4 DEF Rotated
  <2>2. Cardinality(Rotated') = Cardinality(Rotated) - 1
    BY <1>1, <2>1, FS_RemoveElement
  <2>3. rotated_crtcs' = rotated_crtcs - 1
    BY <1>4 DEF Count
  <2>4. Cardinality(Rotated') \in Nat
    BY <1>1, <2>1, FS_RemoveElement, FS_CardinalityType
  <2> QED
    BY <1>2, <2>2, <2>3, <2>4 DEF RotationCounted, Rotated
<1>5. CASE rotation[c] = 0 /\ r # 0
  <2>1. Rotated' = Rotated \cup {c} /\ c \notin Rotated
    BY <1>3, <1>5 DEF Rotated
  <2>2. Cardinality(Rotated') = Cardinality(Rotated) + 1
    BY <1>1, <2>1, FS_AddElement
  <2>3. rotated_crtcs' = rotated_crtcs + 1
    BY <1>5 DEF Count
  <2> QED
    BY <1>2, <2>2, <2>3 DEF RotationCounted, Rotated
<1>6. CASE ~(rotation[c] # 0 /\ r = 0) /\ ~(rotation[c] = 0 /\ r # 0)
  <2>1. Rotated' = Rotated
    BY <1>3, <1>6 DEF Rotated
  <2>2. rotated_crtcs' = rotated_crtcs
    BY <1>6 DEF Count
  <2> QED
    BY <1>2, <2>1, <2>2 DEF RotationCounted, Rotated
<1> QED
  BY <1>4, <1>5, <1>6

\* Some CRTC is rotated if and only if the count is positive.
LEMMA CountedPositive ==
  ASSUME TypeOK, RotationCounted, NEW c \in Crtcs, rotation[c] # 0
  PROVE  rotated_crtcs > 0
<1>1. IsFiniteSet(Rotated)
  BY FS_Subset, CrtcsAssumption DEF Rotated
<1>2. c \in Rotated
  BY DEF Rotated
<1>3. Cardinality(Rotated) # 0 /\ Cardinality(Rotated) \in Nat
  BY <1>1, <1>2, FS_EmptySet, FS_CardinalityType
<1> QED
  BY <1>3 DEF RotationCounted, Rotated

-----------------------------------------------------------------------------
(* Types of the operations on the screen's buffers *)

\* drmModeRmFB removes the framebuffer and changes nothing else.
LEMMA RemoveFbType ==
  ASSUME NEW k \in KmsType
  PROVE  /\ RemoveFb(k) \in KmsType
         /\ RemoveFb(k).fb_id = 0
         /\ \A f \in {"virtual", "dims", "rotate", "scanout", "access", "root", "displayWidth"} :
              RemoveFb(k)[f] = k[f]
<1>1. Dark("removed") \in HwType
  BY DEF Dark, HwType
<1>2. CASE k.fb_id = 0
  BY <1>2 DEF RemoveFb
<1>3. CASE k.fb_id # 0
  <2> DEFINE hw == [c \in Crtcs |-> IF k.hw[c].fb = k.fb_id THEN Dark("removed") ELSE k.hw[c]]
             fbs == [k.fbs EXCEPT ![k.fb_id] = None]
  <2>1. hw \in [Crtcs -> HwType]
    BY <1>1 DEF KmsType
  <2>2. fbs \in [FbIds -> ViewType \cup {None}]
    BY DEF KmsType
  <2>3. RemoveFb(k) = [k EXCEPT !.fb_id = 0, !.fbs = fbs, !.hw = hw]
    BY <1>3 DEF RemoveFb, KmsType
  <2> HIDE DEF hw, fbs
  <2> QED
    BY <2>1, <2>2, <2>3 DEF KmsType, FbIds
<1> QED
  BY <1>2, <1>3

\* A view of a buffer that is gone is still a view.
LEMMA StaleType ==
  ASSUME NEW v \in ViewType \cup {None}
  PROVE  Stale(v) \in ViewType \cup {None}
BY NoneAssumption DEF Stale, ViewType

\* drmmode_delete_scanout leaves the scanout buffer in its type.
LEMMA DeleteScanoutType ==
  ASSUME NEW k \in KmsType
  PROVE  /\ DeleteScanout(k) \in KmsType
         /\ DeleteScanout(k).scanout = None
         /\ \A f \in {"virtual", "dims", "rotate", "access", "fb_id", "hw", "displayWidth"} :
              DeleteScanout(k)[f] = k[f]
<1> DEFINE fbs == [i \in FbIds |-> Stale(k.fbs[i])]
<1>1. fbs \in [FbIds -> ViewType \cup {None}]
  BY StaleType DEF KmsType
<1>2. Stale(k.root) \in ViewType \cup {None}
  BY StaleType DEF KmsType
<1>3. DeleteScanout(k) = [k EXCEPT !.scanout = None, !.root = Stale(k.root), !.fbs = fbs]
  BY DEF DeleteScanout, KmsType
<1> HIDE DEF fbs
<1> QED
  BY <1>1, <1>2, <1>3 DEF KmsType

-----------------------------------------------------------------------------
(* What holds of the screen's buffers between two operations *)

Cpp == Bpp \div 8

\* No framebuffer but the driver's is left, and no CRTC shows another.
OneFb(k) ==
  /\ \A i \in FbIds : k.fbs[i] # None => i = k.fb_id
  /\ \A c \in Crtcs : Lit(k, c) => k.hw[c].fb = k.fb_id

\* There is neither a scanout buffer nor a framebuffer, and every CRTC is dark.
Bare(k) ==
  /\ k.scanout = None /\ k.fb_id = 0
  /\ \A i \in FbIds : k.fbs[i] = None
  /\ \A c \in Crtcs : ~Lit(k, c)

\* The scanout buffer is of the size of the screen, of the kind and the stride
\* recorded for it, and the root pixmap and the framebuffer describe it.
Wrapped(k) ==
  /\ k.scanout # None =>
       /\ k.virtual = k.dims /\ k.scanout.tiled = k.rotate
       /\ k.root = View(k)
       /\ Pitch(k) * k.virtual[2] <= k.scanout.bytes
       /\ k.virtual[1] * Cpp <= Pitch(k)
  /\ OneFb(k)
  /\ \A i \in FbIds : k.fbs[i] # None => k.fbs[i] = View(k)
  /\ k.fb_id # 0 => k.scanout # None /\ k.fbs[k.fb_id] # None

\* A lit CRTC that is enabled in cfg shows what cfg says.
Shows(k, cfg) ==
  \A c \in Crtcs : Lit(k, c) /\ cfg[c].enabled => k.hw[c].shows = <<cfg[c].mode, cfg[c].x>>

\* After drmmode_delete_scanout there is neither buffer nor framebuffer.
LEMMA BareAfterDelete ==
  ASSUME NEW k \in KmsType, OneFb(k)
  PROVE  LET d == DeleteScanout(RemoveFb(k))
         IN  /\ d \in KmsType /\ Bare(d)
             /\ \A f \in {"virtual", "dims", "rotate", "access"} : d[f] = k[f]
<1> DEFINE r == RemoveFb(k)
<1>1. r \in KmsType /\ r.fb_id = 0
  BY RemoveFbType
<1>2. \A f \in {"virtual", "dims", "rotate", "access"} : r[f] = k[f]
  BY RemoveFbType
<1>3. \A i \in FbIds : r.fbs[i] = None
  <2>1. CASE k.fb_id = 0
    BY <2>1 DEF RemoveFb, OneFb, FbIds
  <2>2. CASE k.fb_id # 0
    BY <2>2 DEF RemoveFb, OneFb, FbIds, KmsType
  <2> QED
    BY <2>1, <2>2
<1>4. \A c \in Crtcs : r.hw[c].fb = 0
  <2>1. CASE k.fb_id = 0
    BY <2>1 DEF RemoveFb, OneFb, Lit
  <2>2. CASE k.fb_id # 0
    BY <2>2 DEF RemoveFb, OneFb, Lit, Dark, KmsType
  <2> QED
    BY <2>1, <2>2
<1>5. \A i \in FbIds : DeleteScanout(r).fbs[i] = None
  BY <1>1, <1>3 DEF DeleteScanout, Stale, KmsType
<1> HIDE DEF r
<1>6. /\ DeleteScanout(r) \in KmsType /\ DeleteScanout(r).scanout = None
      /\ \A f \in {"virtual", "dims", "rotate", "access", "fb_id", "hw"} :
           DeleteScanout(r)[f] = r[f]
  BY <1>1, DeleteScanoutType
<1>7. \A c \in Crtcs : ~Lit(DeleteScanout(r), c)
  BY <1>4, <1>6 DEF Lit
<1>8. Bare(DeleteScanout(r))
  BY <1>1, <1>5, <1>6, <1>7 DEF Bare
<1> QED
  BY <1>2, <1>6, <1>8 DEF r

\* The memory of a new scanout buffer is that of its rows.
LEMMA BufferHoldsRows ==
  ASSUME NEW size \in Sizes, NEW tiled \in BOOLEAN
  PROVE  /\ NewBuffer(size, tiled) \in BufferType
         /\ NewBuffer(size, tiled).tiled = tiled
         /\ NewBuffer(size, tiled).bytes = PitchOf(size[1], Bpp, tiled) * size[2]
<1>1. size[1] \in Nat /\ size[2] \in Nat
  BY ScreenAssumption
<1>2. PitchOf(size[1], Bpp, tiled) \in Nat
  BY <1>1, PitchExact, ScreenAssumption
<1>3. CASE tiled
  <2>1. TilerRow(size[1], Bpp) = PitchOf(size[1], Bpp, tiled)
    BY <1>1, <1>3, TiledStrideIsTilerRow, ScreenAssumption DEF PitchOf
  <2> DEFINE row == PitchOf(size[1], Bpp, tiled)
  <2>2. NewBuffer(size, tiled) = [tiled |-> tiled, bytes |-> size[2] * row]
    BY <1>3, <2>1 DEF NewBuffer
  <2> HIDE DEF row
  <2>3. row \in Nat
    BY <1>2 DEF row
  <2> QED
    BY <1>1, <2>2, <2>3 DEF BufferType, row
<1>4. CASE ~tiled
  <2> DEFINE row == PitchOf(size[1], Bpp, tiled)
  <2>2. NewBuffer(size, tiled) = [tiled |-> tiled, bytes |-> size[2] * row]
    BY <1>4 DEF NewBuffer
  <2> HIDE DEF row
  <2>3. row \in Nat
    BY <1>2 DEF row
  <2> QED
    BY <1>1, <2>2, <2>3 DEF BufferType, row
<1> QED
  BY <1>3, <1>4

\* A buffer that was just allocated is of the kind asked for, and wrapped by nothing.
LEMMA AllocatedWrapped ==
  ASSUME NEW k \in KmsType, Bare(k), NEW tiled \in BOOLEAN
  PROVE  /\ Allocated(k, tiled) \in KmsType /\ Wrapped(Allocated(k, tiled))
         /\ Allocated(k, tiled).scanout # None
         /\ Allocated(k, tiled).rotate = tiled
         /\ Allocated(k, tiled).virtual = k.virtual
         /\ Allocated(k, tiled).access = k.access
         /\ \A c \in Crtcs : ~Lit(Allocated(k, tiled), c)
<1> DEFINE b == NewBuffer(k.virtual, tiled)
           p == PitchOf(k.virtual[1], Bpp, tiled)
           w == p \div Cpp
           v == [live |-> TRUE, size |-> k.virtual, pitch |-> p]
           a == Allocated(k, tiled)
<1>1. k.virtual \in Sizes /\ k.virtual[1] \in Nat /\ k.virtual[2] \in Nat
  BY ScreenAssumption DEF KmsType
<1>2. p \in Nat /\ w \in Nat /\ w * Cpp = p /\ k.virtual[1] * Cpp <= p
  BY <1>1, PitchExact, ScreenAssumption DEF Cpp
<1>3. b \in BufferType /\ b.tiled = tiled /\ b.bytes = p * k.virtual[2]
  BY <1>1, BufferHoldsRows
<1>4. v \in ViewType
  BY <1>1, <1>2 DEF ViewType
<1>5. a = [k EXCEPT !.scanout = b, !.dims = k.virtual, !.rotate = tiled,
                    !.displayWidth = w, !.root = v]
  BY <1>2 DEF Allocated, View, Pitch, Cpp, KmsType
<1> HIDE DEF b, p, w, v
<1>6. a \in KmsType
  BY <1>1, <1>2, <1>3, <1>4, <1>5 DEF KmsType
<1>7. /\ a.scanout = b /\ a.dims = k.virtual /\ a.virtual = k.virtual /\ a.rotate = tiled
      /\ a.displayWidth = w /\ a.root = v /\ a.access = k.access
      /\ a.fb_id = k.fb_id /\ a.fbs = k.fbs /\ a.hw = k.hw
  BY <1>5 DEF KmsType
<1> HIDE DEF a
<1>8. Pitch(a) = p /\ View(a) = v
  BY <1>2, <1>7 DEF Pitch, View, Cpp, v
<1>9. b # None
  BY <1>3, NoneAssumption
<1>10. \A c \in Crtcs : ~Lit(a, c)
  BY <1>7 DEF Lit, Bare
<1>11. p * k.virtual[2] <= b.bytes
  <2>1. b.bytes \in Nat
    BY <1>3 DEF BufferType
  <2> QED
    BY <1>3, <2>1
<1>12. Wrapped(a)
  BY <1>2, <1>3, <1>7, <1>8, <1>10, <1>11 DEF Wrapped, OneFb, Bare
<1> QED
  BY <1>6, <1>7, <1>9, <1>10, <1>12 DEF a

-----------------------------------------------------------------------------
(* Reallocating the scanout buffer and restoring CRTCs *)

\* The buffers of a screen that is up, between two calls: a scanout buffer is of
\* the kind the number n of rotated CRTCs asks for, and the server may draw.
Kept(k, n) ==
  /\ k \in KmsType /\ Wrapped(k)
  /\ k.scanout # None => k.rotate = IsRotated(n) /\ k.access

\* new is k with another scanout buffer of the kind t, or without one.
ReplacedAs(new, k, t, redraw, ok) ==
  /\ new \in KmsType /\ Wrapped(new) /\ new.fb_id = 0
  /\ \A c \in Crtcs : ~Lit(new, c)
  /\ ok => new.scanout # None /\ new.rotate = t
  /\ ok /\ (k.access \/ redraw) => new.access
  /\ ~ok => new.scanout = None

\* A reallocation that does not keep the buffer and the size.
LEMMA ReplacedKept ==
  ASSUME NEW k \in KmsType, OneFb(k), NEW tiled \in BOOLEAN, ~Same(k, tiled),
         NEW redraw \in BOOLEAN, NEW ok \in BOOLEAN
  PROVE  ReplacedAs(Reallocate(k, tiled, redraw, ok), k, tiled, redraw, ok)
<1> DEFINE b == DeleteScanout(RemoveFb(k))
           a == Allocated(b, tiled)
<1>1. b \in KmsType /\ Bare(b) /\ b.access = k.access
  BY BareAfterDelete
<1> HIDE DEF b
<1>2. CASE ok
  <2>1. /\ a \in KmsType /\ Wrapped(a) /\ a.scanout # None /\ a.rotate = tiled
        /\ a.access = b.access /\ \A c \in Crtcs : ~Lit(a, c)
    BY <1>1, AllocatedWrapped
  <2>2. a.fb_id = 0
    BY <1>1 DEF Allocated, View, Bare, KmsType
  <2>3. Reallocate(k, tiled, redraw, ok) = [a EXCEPT !.access = @ \/ redraw]
    BY <1>2 DEF Reallocate, b
  <2> HIDE DEF a
  <2> DEFINE d == [a EXCEPT !.access = @ \/ redraw]
  <2>4. d \in KmsType /\ d.access = (a.access \/ redraw)
    BY <2>1 DEF KmsType
  <2>5. \A f \in {"virtual", "displayWidth", "scanout", "dims", "rotate", "root", "fb_id", "fbs", "hw"} :
          d[f] = a[f]
    BY <2>1 DEF KmsType
  <2> HIDE DEF d
  <2>6. Wrapped(d) /\ \A c \in Crtcs : ~Lit(d, c)
    BY <2>1, <2>5 DEF Wrapped, OneFb, Lit, View, Pitch
  <2> QED
    BY <1>1, <1>2, <2>1, <2>2, <2>3, <2>4, <2>5, <2>6 DEF d, ReplacedAs
<1>3. CASE ~ok
  <2> DEFINE d == [b EXCEPT !.access = @ /\ ~redraw]
  <2>1. Reallocate(k, tiled, redraw, ok) = d
    BY <1>3 DEF Reallocate, b
  <2> DEFINE may == b.access /\ ~redraw
  <2>5. may \in BOOLEAN
    OBVIOUS
  <2>6. d = [b EXCEPT !.access = may]
    OBVIOUS
  <2> HIDE DEF may
  <2>2. d \in KmsType
    BY <1>1, <2>5, <2>6 DEF KmsType
  <2>3. \A f \in {"scanout", "fb_id", "fbs", "hw"} : d[f] = b[f]
    BY <1>1 DEF KmsType
  <2> HIDE DEF d
  <2>4. Wrapped(d) /\ (\A c \in Crtcs : ~Lit(d, c)) /\ d.scanout = None /\ d.fb_id = 0
    BY <1>1, <2>3 DEF Wrapped, OneFb, Lit, Bare
  <2> QED
    BY <1>3, <2>1, <2>2, <2>4 DEF ReplacedAs
<1> QED
  BY <1>2, <1>3

\* The same, for a mode set: access was disabled and is enabled again.
LEMMA ReplacedUp ==
  ASSUME NEW k \in KmsType, Wrapped(k), NEW t \in BOOLEAN, ~Same(k, t), NEW ok \in BOOLEAN
  PROVE  /\ Reallocate(k, t, TRUE, ok) \in KmsType /\ Wrapped(Reallocate(k, t, TRUE, ok))
         /\ \A c \in Crtcs : ~Lit(Reallocate(k, t, TRUE, ok), c)
         /\ ok => /\ Reallocate(k, t, TRUE, ok).scanout # None
                  /\ Reallocate(k, t, TRUE, ok).rotate = t
         /\ ok => Reallocate(k, t, TRUE, ok).access
         /\ ~ok => Reallocate(k, t, TRUE, ok).scanout = None
<1>1. OneFb(k)
  BY DEF Wrapped
<1>2. ReplacedAs(Reallocate(k, t, TRUE, ok), k, t, TRUE, ok)
  BY <1>1, ReplacedKept
<1> QED
  BY <1>2 DEF ReplacedAs

\* A reallocation that finds the buffer as it should be changes nothing.
LEMMA SameKept ==
  ASSUME NEW k \in KmsType, Wrapped(k), k.scanout # None, NEW tiled \in BOOLEAN, Same(k, tiled),
         NEW redraw, NEW ok
  PROVE  Reallocate(k, tiled, redraw, ok) = k
BY DEF Reallocate, Wrapped, KmsType

\* What a lit CRTC shows of the framebuffer is a view.
LEMMA ViewIsView ==
  ASSUME NEW k \in KmsType
  PROVE  View(k) \in ViewType
<1>1. k.displayWidth \in Nat /\ k.virtual \in Sizes
  BY DEF KmsType
<1>2. Bpp \div 8 \in {1, 2, 4}
  BY ScreenAssumption
<1>3. Pitch(k) \in Nat
  BY <1>1, <1>2 DEF Pitch
<1> QED
  BY <1>1, <1>3 DEF View, ViewType

\* drmModeAddFB wraps the buffer there is and changes nothing else.
LEMMA AddFbWrapped ==
  ASSUME NEW k \in KmsType, Wrapped(k), k.fb_id # 0 \/ k.scanout # None
  PROVE  /\ AddFb(k) \in KmsType /\ Wrapped(AddFb(k)) /\ AddFb(k).fb_id # 0
         /\ \A f \in {"virtual", "displayWidth", "scanout", "dims", "rotate", "access", "root", "hw"} :
              AddFb(k)[f] = k[f]
<1>1. CASE k.fb_id # 0
  BY <1>1 DEF AddFb
<1>2. CASE k.fb_id = 0
  <2> DEFINE i == CHOOSE f \in FbIds : k.fbs[f] = None
             fbs == [k.fbs EXCEPT ![i] = View(k)]
             d == AddFb(k)
  <2>1. \A f \in FbIds : k.fbs[f] = None
    BY <1>2 DEF Wrapped, OneFb, FbIds
  <2>2. i \in FbIds
    BY <2>1 DEF FbIds
  <2>3. View(k) \in ViewType
    BY ViewIsView
  <2>4. d = [k EXCEPT !.fb_id = i, !.fbs = fbs]
    BY <1>2 DEF AddFb, KmsType
  <2> HIDE DEF i
  <2>5. fbs \in [FbIds -> ViewType \cup {None}]
    BY <2>2, <2>3 DEF KmsType
  <2>6. \A f \in FbIds : fbs[f] = IF f = i THEN View(k) ELSE None
    BY <2>1, <2>2 DEF KmsType
  <2> HIDE DEF fbs
  <2>7. d \in KmsType
    BY <2>2, <2>4, <2>5 DEF KmsType
  <2>8. /\ d.fb_id = i /\ d.fbs = fbs
        /\ \A f \in {"virtual", "displayWidth", "scanout", "dims", "rotate", "access", "root", "hw"} :
             d[f] = k[f]
    BY <2>4 DEF KmsType
  <2> HIDE DEF d
  <2>9. \A c \in Crtcs : ~Lit(d, c)
    <3>1. \A c \in Crtcs : k.hw[c].fb = 0
      BY <1>2 DEF Wrapped, OneFb, Lit
    <3> QED
      BY <2>8, <3>1 DEF Lit
  <2>10. View(d) = View(k) /\ Pitch(d) = Pitch(k) /\ View(k) # None
    BY <2>3, <2>8, NoneAssumption DEF View, Pitch
  <2>11. i # 0
    BY <2>2 DEF FbIds
  <2>12. Wrapped(d)
    BY <1>2, <2>2, <2>6, <2>8, <2>9, <2>10, <2>11 DEF Wrapped, OneFb
  <2> QED
    BY <2>7, <2>8, <2>11, <2>12 DEF d
<1> QED
  BY <1>1, <1>2

\* new is k once the CRTCs of cs are restored with cfg, but those refused: they show
\* cfg, the others what they showed.
RestoredAs(new, k, cs, cfg, refused) ==
  /\ new \in KmsType /\ Wrapped(new)
  /\ new.scanout = k.scanout /\ new.rotate = k.rotate /\ new.access = k.access
  /\ \A c \in Crtcs : Lit(new, c) =>
       \/ /\ c \in cs \ refused /\ cfg[c].enabled
          /\ new.hw[c].shows = <<cfg[c].mode, cfg[c].x>>
       \/ /\ ~(c \in cs \ refused /\ cfg[c].enabled)
          /\ new.hw[c].shows = k.hw[c].shows /\ Lit(k, c)

\* Restoring CRTCs makes the framebuffer and lights them with it, or darkens none;
\* those restored show cfg, the others what they showed.
LEMMA RestoreWrapped ==
  ASSUME NEW k \in KmsType, Wrapped(k), NEW cs \in SUBSET Crtcs,
         NEW cfg \in [Crtcs -> ConfType], NEW refused \in SUBSET Crtcs, NEW made \in BOOLEAN,
         k.fb_id # 0 \/ k.scanout # None
  PROVE  RestoredAs(Restore(k, cs, cfg, refused, made), k, cs, cfg, refused)
<1> DEFINE a == IF made /\ cs # {} THEN AddFb(k) ELSE k
<1>1. /\ a \in KmsType /\ Wrapped(a)
      /\ \A f \in {"virtual", "displayWidth", "scanout", "dims", "rotate", "access", "hw"} :
           a[f] = k[f]
  BY AddFbWrapped
<1> DEFINE hw == [c \in Crtcs |->
                    IF c \notin cs THEN a.hw[c]
                    ELSE IF c \notin refused /\ cfg[c].enabled
                         THEN [fb |-> a.fb_id, shows |-> <<cfg[c].mode, cfg[c].x>>]
                    ELSE IF a.hw[c].fb = 0 THEN Dark("refused") ELSE a.hw[c]]
           d == Restore(k, cs, cfg, refused, made)
<1>2. d = [a EXCEPT !.hw = hw]
  BY DEF Restore
<1> HIDE DEF a
<1>3. hw \in [Crtcs -> HwType]
  <2> SUFFICES ASSUME NEW c \in Crtcs PROVE hw[c] \in HwType
    OBVIOUS
  <2>1. Dark("refused") \in HwType
    BY DEF Dark, HwType
  <2>2. [fb |-> a.fb_id, shows |-> <<cfg[c].mode, cfg[c].x>>] \in HwType
    <3>1. cfg[c] \in ConfType /\ a.fb_id \in FbIds \cup {0}
      BY <1>1 DEF KmsType
    <3>2. cfg[c].mode \in Modes \cup {0} /\ cfg[c].x \in Nat
      BY <3>1 DEF ConfType
    <3> QED
      BY <3>1, <3>2 DEF HwType
  <2>3. a.hw[c] \in HwType
    BY <1>1 DEF KmsType
  <2> QED
    BY <2>1, <2>2, <2>3
<1>4. \A c \in Crtcs : hw[c].fb # 0 =>
        /\ hw[c].fb = a.fb_id
        /\ hw[c].shows = IF c \in cs \ refused /\ cfg[c].enabled
                         THEN <<cfg[c].mode, cfg[c].x>> ELSE a.hw[c].shows
        /\ (c \in cs \ refused /\ cfg[c].enabled) \/ Lit(a, c)
  BY <1>1 DEF Wrapped, OneFb, Lit, Dark
<1> HIDE DEF hw
<1>5. /\ d \in KmsType /\ d.hw = hw
      /\ \A f \in {"virtual", "displayWidth", "scanout", "dims", "rotate", "access", "root", "fb_id", "fbs"} :
           d[f] = a[f]
  BY <1>1, <1>2, <1>3 DEF KmsType
<1> HIDE DEF d
<1>6. Wrapped(d)
  <2>1. View(d) = View(a) /\ Pitch(d) = Pitch(a)
    BY <1>5 DEF View, Pitch
  <2>2. OneFb(d)
    BY <1>1, <1>4, <1>5 DEF Wrapped, OneFb, Lit
  <2> QED
    BY <1>1, <1>5, <2>1, <2>2 DEF Wrapped
<1>7. \A c \in Crtcs : Lit(a, c) = Lit(k, c) /\ a.hw[c].shows = k.hw[c].shows
  BY <1>1 DEF Lit
<1> QED
  BY <1>1, <1>4, <1>5, <1>6, <1>7 DEF d, Lit, RestoredAs

\* new is k with a framebuffer for the same buffer, and shows cfg.
ShowsBuffer(new, k, cfg) ==
  /\ new \in KmsType /\ Wrapped(new)
  /\ new.scanout = k.scanout /\ new.rotate = k.rotate /\ new.access = k.access
  /\ Shows(new, cfg)

\* The two ways set_mode_major restores CRTCs: all the others, and its own.
LEMMA RestoreOthers ==
  ASSUME NEW k \in KmsType, Wrapped(k), k.scanout # None, NEW c \in Crtcs,
         NEW cfg \in [Crtcs -> ConfType], NEW refused \in SUBSET Crtcs, NEW made \in BOOLEAN,
         Shows(k, cfg)
  PROVE  ShowsBuffer(Restore(k, Crtcs \ {c}, cfg, refused, made), k, cfg)
<1> DEFINE new == Restore(k, Crtcs \ {c}, cfg, refused, made)
<1>0. RestoredAs(new, k, Crtcs \ {c}, cfg, refused)
  BY RestoreWrapped
<1>1. /\ new \in KmsType /\ Wrapped(new)
      /\ new.scanout = k.scanout /\ new.rotate = k.rotate /\ new.access = k.access
      /\ \A e \in Crtcs : Lit(new, e) =>
           \/ new.hw[e].shows = <<cfg[e].mode, cfg[e].x>>
           \/ new.hw[e].shows = k.hw[e].shows /\ Lit(k, e)
  BY <1>0 DEF RestoredAs
<1> QED
  BY <1>1 DEF Shows, ShowsBuffer

\* When one CRTC's old mode is put back, all show the buffer as configured.
LEMMA RestoreOwn ==
  ASSUME NEW k \in KmsType, Wrapped(k), k.fb_id # 0 \/ k.scanout # None, NEW c \in Crtcs,
         NEW old \in [Crtcs -> ConfType], NEW cfg \in [Crtcs -> ConfType],
         NEW refused \in SUBSET Crtcs, NEW made \in BOOLEAN,
         Shows(k, old), \A e \in Crtcs \ {c} : cfg[e] = old[e]
  PROVE  ShowsBuffer(Restore(k, {c}, cfg, refused, made), k,
                     IF c \notin refused THEN cfg ELSE old)
<1> DEFINE new == Restore(k, {c}, cfg, refused, made)
<1>0. RestoredAs(new, k, {c}, cfg, refused)
  BY RestoreWrapped
<1>1. /\ new \in KmsType /\ Wrapped(new)
      /\ new.scanout = k.scanout /\ new.rotate = k.rotate /\ new.access = k.access
      /\ \A e \in Crtcs : Lit(new, e) =>
           \/ /\ e \in {c} \ refused /\ cfg[e].enabled
              /\ new.hw[e].shows = <<cfg[e].mode, cfg[e].x>>
           \/ /\ ~(e \in {c} \ refused /\ cfg[e].enabled)
              /\ new.hw[e].shows = k.hw[e].shows /\ Lit(k, e)
  BY <1>0 DEF RestoredAs
<1> HIDE DEF new
<1>2. CASE c \notin refused
  <2>1. Shows(new, cfg)
    BY <1>1, <1>2 DEF Shows
  <2> QED
    BY <1>1, <1>2, <2>1 DEF new, ShowsBuffer
<1>3. CASE c \in refused
  <2>1. Shows(new, old)
    BY <1>1, <1>3 DEF Shows
  <2> QED
    BY <1>1, <1>3, <2>1 DEF new, ShowsBuffer
<1> QED
  BY <1>2, <1>3

-----------------------------------------------------------------------------
(* The invariant and its steps *)

\* Beyond what the runs check: the buffers follow the count even while no scanout
\* buffer is left, as a later call starts from them, and a closed screen has none.
IInv ==
  /\ TypeOK /\ RotationCounted
  /\ phase = "up" => Kept(kms, rotated_crtcs)
  /\ phase # "up" => kms.scanout = None /\ Wrapped(kms) /\ kms.dims = <<0, 0>>
  /\ Shows(kms, conf)
  /\ ~HasRotation => \A c \in Crtcs : hwRotation[c] = 0

\* Whether a CRTC is rotated is a Boolean.
LEMMA IsRotatedType ==
  ASSUME NEW n \in Nat
  PROVE  IsRotated(n) \in BOOLEAN
BY ScreenAssumption DEF IsRotated

\* Replacing the scanout buffer when the kind changes, and only then, keeps it of
\* the kind the new count asks for.
LEMMA PreparedKept ==
  ASSUME IInv, phase = "up", NEW c \in Crtcs, NEW n \in Nat, NEW ok \in BOOLEAN,
         NEW refused \in SUBSET Crtcs, NEW made \in BOOLEAN,
         ~(Toggles(n) /\ MapsNull(kms, IsRotated(n)))
  PROVE  LET k == Prepared(c, n, ok, refused, made)
         IN  Kept(k, n) /\ Shows(k, conf)
<1> DEFINE t == IsRotated(n)
           d == Reallocate(kms, t, TRUE, ok)
           k == Prepared(c, n, ok, refused, made)
<1>1. /\ Kept(kms, rotated_crtcs) /\ Shows(kms, conf) /\ conf \in [Crtcs -> ConfType]
      /\ kms \in KmsType /\ Wrapped(kms) /\ t \in BOOLEAN
  BY IsRotatedType DEF IInv, Kept, TypeOK
<1>2. CASE ~Toggles(n)
  <2>1. k = kms
    BY <1>2 DEF Prepared
  <2>2. IsRotated(n) = IsRotated(rotated_crtcs)
    BY <1>2 DEF Toggles, IsRotated
  <2> QED
    BY <1>1, <2>1, <2>2 DEF Kept
<1>3. CASE Toggles(n) /\ Same(kms, t)
  <2>1. kms.scanout # None
    BY <1>3 DEF MapsNull
  <2>2. k = kms
    BY <1>1, <1>3, <2>1, SameKept DEF Prepared
  <2>3. kms.rotate = t
    BY <1>3 DEF Same
  <2> QED
    BY <1>1, <2>2, <2>3 DEF Kept
<1>4. CASE Toggles(n) /\ ~Same(kms, t)
  <2> HIDE DEF t
  <2>2. /\ d \in KmsType /\ Wrapped(d) /\ \A e \in Crtcs : ~Lit(d, e)
        /\ ok => d.scanout # None /\ d.rotate = t
        /\ ok => d.access
        /\ ~ok => d.scanout = None
    BY <1>1, <1>4, ReplacedUp
  <2> HIDE DEF d
  <2>3. CASE ~ok
    <3>1. k = d
      BY <1>4, <2>3 DEF Prepared, d, t
    <3> QED
      BY <2>2, <2>3, <3>1 DEF Kept, Shows
  <2>4. CASE ok
    <3>1. k = Restore(d, Crtcs \ {c}, conf, refused, made)
      BY <1>4, <2>4 DEF Prepared, d, t
    <3>2. Shows(d, conf) /\ d.scanout # None
      BY <2>2, <2>4 DEF Shows
    <3>3. ShowsBuffer(Restore(d, Crtcs \ {c}, conf, refused, made), d, conf)
      BY <1>1, <2>2, <3>2, RestoreOthers
    <3> HIDE DEF k
    <3>4. ShowsBuffer(k, d, conf)
      BY <3>1, <3>3
    <3>5. Kept(k, n) /\ Shows(k, conf)
      BY <2>2, <2>4, <3>4 DEF Kept, ShowsBuffer, t
    <3> QED
      BY <3>5 DEF k
  <2> QED
    BY <2>3, <2>4
<1> QED
  BY <1>2, <1>3, <1>4

\* The count of rotated CRTCs, after one is set, is never negative.
LEMMA CountNat ==
  ASSUME TypeOK, RotationCounted, NEW c \in Crtcs, NEW r \in Rotations
  PROVE  Count(c, r) \in Nat
<1>1. rotation[c] # 0 => rotated_crtcs > 0
  BY CountedPositive
<1> QED
  BY <1>1 DEF Count, TypeOK

\* drmmode_set_mode_major, past its first return, keeps the invariant.
LEMMA ProceedStep ==
  ASSUME IInv, phase = "up", NEW c \in Crtcs, NEW new \in ConfType, new.enabled,
         NEW answer \in {"taken", "refused", "late"}, NEW ok \in BOOLEAN,
         NEW refused \in SUBSET Crtcs, NEW made \in BOOLEAN,
         ~(Toggles(Count(c, new.rot)) /\ MapsNull(kms, IsRotated(Count(c, new.rot)))),
         Proceed(c, new, Count(c, new.rot), answer, ok, refused, made)
  PROVE  IInv'
<1> DEFINE n == Count(c, new.rot)
           k == Prepared(c, n, ok, refused, made)
<1>1. new.rot \in Rotations /\ TypeOK /\ RotationCounted
  BY DEF ConfType, IInv
<1>2. n \in Nat
  BY <1>1, CountNat
<1>3. Kept(k, n) /\ Shows(k, conf)
  BY <1>2, PreparedKept
<1>4. /\ rotated_crtcs' = n /\ rotation' = [rotation EXCEPT ![c] = new.rot]
      /\ hwRotation' = IF TakesRotation(answer) THEN [hwRotation EXCEPT ![c] = new.rot]
                       ELSE hwRotation
      /\ \/ answer # "taken" /\ kms' = k /\ conf' = conf
         \/ /\ answer = "taken" /\ ~UsesNull(k)
            /\ kms' = Restore(k, {c}, [conf EXCEPT ![c] = new], refused, made)
            /\ conf' = Configured(c, new, c \notin refused)
      /\ phase' = phase
  BY DEF Proceed
<1> HIDE DEF n, k
<1>5. RotationCounted' /\ rotated_crtcs' \in Nat
  BY <1>1, <1>4, CountFollows DEF n
<1>6. /\ rotation' \in [Crtcs -> Rotations] /\ hwRotation' \in [Crtcs -> Rotations]
      /\ ~HasRotation => \A e \in Crtcs : hwRotation'[e] = 0
  BY <1>1, <1>4 DEF TypeOK, IInv, TakesRotation
<1>7. conf \in [Crtcs -> ConfType] /\ [conf EXCEPT ![c] = new] \in [Crtcs -> ConfType]
  BY <1>1 DEF TypeOK
<1>8. conf' \in [Crtcs -> ConfType] /\ Kept(kms', n) /\ Shows(kms', conf')
  <2>1. CASE answer # "taken" /\ kms' = k /\ conf' = conf
    BY <1>3, <1>7, <2>1
  <2>2. CASE /\ answer = "taken" /\ ~UsesNull(k)
             /\ kms' = Restore(k, {c}, [conf EXCEPT ![c] = new], refused, made)
             /\ conf' = Configured(c, new, c \notin refused)
    <3> DEFINE cfg == [conf EXCEPT ![c] = new]
    <3>1. k.fb_id # 0 \/ k.scanout # None
      BY <2>2 DEF UsesNull
    <3>2. k \in KmsType /\ Wrapped(k)
      BY <1>3 DEF Kept
    <3>3. \A e \in Crtcs : cfg[e] = IF e = c THEN new ELSE conf[e]
      BY <1>7
    <3>4. conf' = IF c \notin refused THEN cfg ELSE conf
      BY <2>2 DEF Configured
    <3>9. cfg \in [Crtcs -> ConfType] /\ \A e \in Crtcs \ {c} : cfg[e] = conf[e]
      BY <1>7, <3>3
    <3> HIDE DEF cfg
    <3>5. ShowsBuffer(kms', k, conf')
      <4>1. ShowsBuffer(Restore(k, {c}, cfg, refused, made), k,
                        IF c \notin refused THEN cfg ELSE conf)
        BY <1>3, <1>7, <3>1, <3>2, <3>9, RestoreOwn
      <4> QED
        BY <2>2, <3>4, <4>1 DEF cfg
    <3>6. Kept(kms', n)
      BY <1>3, <3>5 DEF Kept, ShowsBuffer
    <3> QED
      BY <1>7, <3>4, <3>5, <3>6, <3>9 DEF ShowsBuffer
  <2> QED
    BY <1>4, <2>1, <2>2
<1> QED
  BY <1>1, <1>4, <1>5, <1>6, <1>8 DEF IInv, TypeOK, Kept

\* What ends the server leaves nothing.
LEMMA EndStep ==
  ASSUME IInv, NEW how \in {"failed", "crashed"}, End(how)
  PROVE  IInv'
<1>1. kms.virtual \in Sizes
  BY DEF IInv, TypeOK, KmsType
<1>2. kms' \in KmsType
  BY <1>1 DEF End, Fresh, KmsType, HwType, Dark, FbIds
<1>3. Wrapped(kms') /\ kms'.scanout = None /\ kms'.dims = <<0, 0>> /\ Shows(kms', conf')
  BY DEF End, Fresh, Wrapped, OneFb, Lit, Dark, Shows, FbIds
<1>4. /\ conf' \in [Crtcs -> ConfType] /\ rotation' \in [Crtcs -> Rotations]
      /\ rotated_crtcs' = 0 /\ hwRotation' \in [Crtcs -> Rotations]
      /\ \A c \in Crtcs : hwRotation'[c] = 0 /\ rotation'[c] = 0
  BY ScreenAssumption DEF End, NoConf, ConfType
<1>5. {c \in Crtcs : rotation'[c] # 0} = {}
  BY <1>4
<1>6. RotationCounted'
  BY <1>4, <1>5, FS_EmptySet DEF RotationCounted
<1>7. phase' = how
  BY DEF End
<1> QED
  BY <1>2, <1>3, <1>4, <1>6, <1>7 DEF IInv, TypeOK

\* drmmode_set_mode_major keeps the invariant.
LEMMA SetModeStep ==
  ASSUME IInv, NEW c \in Crtcs, NEW m \in Modes \cup {0}, NEW x \in Nat, NEW r \in Rotations,
         SetMode(c, m, x, r)
  PROVE  IInv'
<1> DEFINE n == Count(c, r)
           new == [enabled |-> TRUE, mode |-> m, x |-> x, rot |-> r]
<1>1. phase = "up"
  BY DEF SetMode
<1>2. new \in ConfType /\ new.rot = r /\ new.enabled
  BY DEF ConfType
<1>3. CASE Crash
  BY <1>3, EndStep DEF Crash
<1>4. CASE ~Crash
  <2>1. ~(Toggles(n) /\ MapsNull(kms, IsRotated(n)))
    BY <1>4 DEF SetMode
  <2>2. PICK answer \in {"taken", "refused", "late"}, made \in BOOLEAN, ok \in BOOLEAN,
             refused \in SUBSET Crtcs : Proceed(c, new, n, answer, ok, refused, made)
    <3>1. \A answer : Asked(c, n, answer) \subseteq Crtcs
      BY DEF Asked
    <3> QED
      BY <1>4, <2>1, <3>1 DEF SetMode
  <2> QED
    BY <1>1, <1>2, <2>1, <2>2, ProceedStep
<1> QED
  BY <1>3, <1>4

\* drmmode_xf86crtc_resize keeps the invariant.
LEMMA ResizeStep ==
  ASSUME IInv, NEW size \in Sizes, Resize(size)
  PROVE  IInv'
<1> DEFINE k == [kms EXCEPT !.virtual = size]
           t == IsRotated(rotated_crtcs)
<1>1. /\ phase = "up" /\ TypeOK /\ RotationCounted /\ kms \in KmsType /\ Wrapped(kms)
      /\ Kept(kms, rotated_crtcs) /\ Shows(kms, conf)
  BY DEF IInv, Kept, Resize
<1>2. t \in BOOLEAN
  BY <1>1, IsRotatedType DEF TypeOK
<1>3. /\ k \in KmsType /\ k.virtual = size
      /\ \A f \in {"displayWidth", "scanout", "dims", "rotate", "access", "root", "fb_id", "fbs", "hw"} :
           k[f] = kms[f]
  BY <1>1 DEF KmsType
<1>4. OneFb(k)
  BY <1>1, <1>3 DEF Wrapped, OneFb, Lit
<1>5. CASE Crash
  BY <1>5, EndStep DEF Crash
<1>6. CASE /\ ~MapsNull(k, t)
           /\ \E ok \in BOOLEAN : kms' = [Reallocate(k, t, FALSE, ok) EXCEPT !.access = TRUE]
           /\ UNCHANGED <<conf, rotation, rotated_crtcs, hwRotation, phase>>
  <2>1. PICK ok \in BOOLEAN : kms' = [Reallocate(k, t, FALSE, ok) EXCEPT !.access = TRUE]
    BY <1>6
  <2> DEFINE d == Reallocate(k, t, FALSE, ok)
  <2>2. d \in KmsType /\ Wrapped(d) /\ (d.scanout # None => d.rotate = t) /\ Shows(d, conf)
    <3>1. CASE Same(k, t)
      <4>1. kms.scanout # None
        BY <1>3, <1>6, <3>1 DEF MapsNull
      <4>2. kms.virtual = size
        BY <1>1, <1>3, <3>1, <4>1 DEF Same, Wrapped
      <4>3. k = kms
        BY <1>1, <4>2 DEF KmsType
      <4>5. Same(kms, t)
        BY <3>1, <4>3
      <4>6. Reallocate(kms, t, FALSE, ok) = kms
        BY <1>1, <1>2, <4>1, <4>5, SameKept
      <4>4. d = kms
        BY <4>3, <4>6
      <4> QED
        BY <1>1, <4>4 DEF Kept
    <3>2. CASE ~Same(k, t)
      <4> HIDE DEF k, t
      <4>1. ReplacedAs(Reallocate(k, t, FALSE, ok), k, t, FALSE, ok)
        BY <1>2, <1>3, <1>4, <3>2, ReplacedKept
      <4> HIDE DEF d
      <4>2. ReplacedAs(d, k, t, FALSE, ok)
        BY <4>1 DEF d
      <4> QED
        BY <4>2 DEF ReplacedAs, Shows
    <3> QED
      BY <3>1, <3>2
  <2> HIDE DEF d
  <2>3. kms' = [d EXCEPT !.access = TRUE]
    BY <2>1 DEF d
  <2>4. /\ kms' \in KmsType /\ kms'.access
        /\ \A f \in {"virtual", "displayWidth", "scanout", "dims", "rotate", "root", "fb_id", "fbs", "hw"} :
             kms'[f] = d[f]
    BY <2>2, <2>3 DEF KmsType
  <2>5. Wrapped(kms')
    BY <2>2, <2>4 DEF Wrapped, OneFb, Lit, View, Pitch
  <2>6. Shows(kms', conf)
    BY <2>2, <2>4 DEF Shows, Lit
  <2>7. Kept(kms', rotated_crtcs)
    BY <2>2, <2>4, <2>5 DEF Kept
  <2> QED
    BY <1>1, <1>6, <2>4, <2>6, <2>7 DEF IInv, TypeOK, RotationCounted
<1> QED
  BY <1>5, <1>6 DEF Resize

\* OMAPScreenInit keeps the invariant.
LEMMA ScreenInitStep ==
  ASSUME IInv, ScreenInit
  PROVE  IInv'
<1> DEFINE t == IsRotated(rotated_crtcs)
<1>1. /\ phase = "closed" /\ TypeOK /\ RotationCounted /\ kms \in KmsType /\ OneFb(kms)
      /\ kms.dims = <<0, 0>> /\ t \in BOOLEAN
  BY IsRotatedType DEF IInv, TypeOK, ScreenInit, Wrapped
<1>2. CASE End("failed")
  BY <1>2, EndStep
<1>3. CASE /\ kms' = [Reallocate(kms, t, FALSE, TRUE) EXCEPT !.access = TRUE]
           /\ phase' = "up"
           /\ UNCHANGED <<conf, rotation, rotated_crtcs, hwRotation>>
  <2> DEFINE d == Reallocate(kms, t, FALSE, TRUE)
  <2>1. ~Same(kms, t)
    <3>1. kms.virtual \in Sizes /\ <<0, 0>> \notin Sizes
      BY <1>1, ScreenAssumption DEF KmsType
    <3> QED
      BY <1>1, <3>1 DEF Same
  <2> HIDE DEF t
  <2>2. ReplacedAs(Reallocate(kms, t, FALSE, TRUE), kms, t, FALSE, TRUE)
    BY <1>1, <2>1, ReplacedKept
  <2> HIDE DEF d
  <2>3. ReplacedAs(d, kms, t, FALSE, TRUE)
    BY <2>2 DEF d
  <2>4. d \in KmsType /\ Wrapped(d) /\ d.rotate = t /\ \A c \in Crtcs : ~Lit(d, c)
    BY <2>3 DEF ReplacedAs
  <2>5. kms' = [d EXCEPT !.access = TRUE]
    BY <1>3 DEF d
  <2>6. /\ kms' \in KmsType /\ kms'.access
        /\ \A f \in {"virtual", "displayWidth", "scanout", "dims", "rotate", "root", "fb_id", "fbs", "hw"} :
             kms'[f] = d[f]
    BY <2>4, <2>5 DEF KmsType
  <2>7. Wrapped(kms')
    BY <2>4, <2>6 DEF Wrapped, OneFb, Lit, View, Pitch
  <2>8. Shows(kms', conf) /\ Kept(kms', rotated_crtcs)
    BY <2>4, <2>6, <2>7 DEF Shows, Lit, Kept, t
  <2> QED
    BY <1>1, <1>3, <2>6, <2>8 DEF IInv, TypeOK, RotationCounted
<1> QED
  BY <1>2, <1>3 DEF ScreenInit

\* OMAPCloseScreen keeps the invariant.
LEMMA CloseScreenStep ==
  ASSUME IInv, CloseScreen
  PROVE  IInv'
<1> DEFINE d == DeleteScanout(RemoveFb(kms))
<1>1. /\ phase = "up" /\ TypeOK /\ RotationCounted /\ kms \in KmsType /\ OneFb(kms)
      /\ phase' = "closed" /\ UNCHANGED <<conf, rotation, rotated_crtcs, hwRotation>>
      /\ kms' = [d EXCEPT !.dims = <<0, 0>>, !.root = None, !.access = FALSE]
  BY DEF IInv, TypeOK, CloseScreen, Kept, Wrapped
<1>2. d \in KmsType /\ Bare(d)
  BY <1>1, BareAfterDelete
<1> HIDE DEF d
<1>3. kms' \in KmsType
  BY <1>1, <1>2 DEF KmsType
<1>4. /\ kms'.scanout = d.scanout /\ kms'.fb_id = d.fb_id /\ kms'.fbs = d.fbs
      /\ kms'.hw = d.hw /\ kms'.dims = <<0, 0>>
  BY <1>1, <1>2 DEF KmsType
<1>5. kms'.scanout = None /\ Wrapped(kms') /\ Shows(kms', conf)
  BY <1>2, <1>4 DEF Bare, Wrapped, OneFb, Lit, Shows
<1> QED
  BY <1>1, <1>3, <1>4, <1>5 DEF IInv, TypeOK, RotationCounted

\* Switching a CRTC off keeps the invariant.
LEMMA DisableStep ==
  ASSUME IInv, NEW c \in Crtcs, Disable(c)
  PROVE  IInv'
<1>1. NoConf \in ConfType /\ ~NoConf.enabled
  BY ScreenAssumption DEF NoConf, ConfType
<1>2. /\ conf' = [conf EXCEPT ![c] = NoConf] /\ conf \in [Crtcs -> ConfType]
      /\ UNCHANGED <<rotation, rotated_crtcs, hwRotation, kms, phase>> /\ Shows(kms, conf)
  BY DEF Disable, IInv, TypeOK
<1>3. conf' \in [Crtcs -> ConfType]
  BY <1>1, <1>2
<1>4. \A e \in Crtcs : conf'[e].enabled => conf'[e] = conf[e]
  BY <1>1, <1>2
<1>5. Shows(kms, conf')
  BY <1>2, <1>4 DEF Shows
<1> QED
  BY <1>2, <1>3, <1>5 DEF IInv, TypeOK, RotationCounted, Kept, Shows

\* The invariant holds at first.
LEMMA InitInv ==
  ASSUME Init
  PROVE  IInv
<1>1. PICK size \in Sizes : kms = Fresh(size)
  BY DEF Init
<1>2. kms \in KmsType
  BY <1>1 DEF Fresh, KmsType, HwType, Dark, FbIds
<1>3. Wrapped(kms) /\ kms.scanout = None /\ kms.dims = <<0, 0>> /\ Shows(kms, conf)
  BY <1>1 DEF Fresh, Wrapped, OneFb, Lit, Dark, Shows, FbIds
<1>4. /\ conf \in [Crtcs -> ConfType] /\ rotation \in [Crtcs -> Rotations]
      /\ rotated_crtcs = 0 /\ hwRotation \in [Crtcs -> Rotations] /\ phase = "closed"
      /\ \A c \in Crtcs : hwRotation[c] = 0 /\ rotation[c] = 0
  BY ScreenAssumption DEF Init, NoConf, ConfType
<1>5. {c \in Crtcs : rotation[c] # 0} = {}
  BY <1>4
<1>6. RotationCounted
  BY <1>4, <1>5, FS_EmptySet DEF RotationCounted
<1> QED
  BY <1>2, <1>3, <1>4, <1>6 DEF IInv, TypeOK

\* Every step keeps the invariant.
LEMMA StepInv ==
  ASSUME IInv, [Next]_vars
  PROVE  IInv'
<1>1. CASE UNCHANGED vars
  BY <1>1 DEF vars, IInv, TypeOK, RotationCounted, Kept, Shows, Wrapped, OneFb, Lit, View, Pitch
<1>2. CASE ScreenInit
  BY <1>2, ScreenInitStep
<1>3. CASE CloseScreen
  BY <1>3, CloseScreenStep
<1>4. ASSUME NEW c \in Crtcs, NEW m \in Modes, NEW x \in Xs[c], NEW r \in Rotations,
             SetMode(c, m, x, r)
      PROVE  IInv'
  <2>1. x \in Nat
    BY ScreenAssumption
  <2> QED
    BY <1>4, <2>1, SetModeStep
<1>5. ASSUME NEW c \in Crtcs, Disable(c) PROVE IInv'
  BY <1>5, DisableStep
<1>6. ASSUME NEW x \in Xs[CompatCrtc], AdjustFrame(x) PROVE IInv'
  <2>1. CompatCrtc \in Crtcs /\ x \in Nat
    BY CrtcsAssumption, ScreenAssumption
  <2>2. conf[CompatCrtc] \in ConfType
    BY <2>1 DEF IInv, TypeOK
  <2>3. conf[CompatCrtc].mode \in Modes \cup {0} /\ conf[CompatCrtc].rot \in Rotations
    BY <2>2 DEF ConfType
  <2>4. SetMode(CompatCrtc, conf[CompatCrtc].mode, x, conf[CompatCrtc].rot)
    BY <1>6 DEF AdjustFrame
  <2> QED
    BY <2>1, <2>3, <2>4, SetModeStep
<1>7. ASSUME NEW size \in Sizes, Resize(size) PROVE IInv'
  BY <1>7, ResizeStep
<1> QED
  BY <1>1, <1>2, <1>3, <1>4, <1>5, <1>6, <1>7 DEF Next

\* The inductive invariant holds of every behaviour.
THEOREM Invariance == Spec => []IInv
<1>1. Init => IInv
  BY InitInv
<1>2. IInv /\ [Next]_vars => IInv'
  BY StepInv
<1> QED
  BY <1>1, <1>2, PTL DEF Spec

-----------------------------------------------------------------------------
(* Theorems *)

\* Every variable keeps its type, and the count of rotated CRTCs its sign.
THEOREM TypeCorrect == Spec => []TypeOK
<1>1. IInv => TypeOK
  BY DEF IInv
<1> QED
  BY <1>1, Invariance, PTL

\* rotated_crtcs never drifts from the rotations it counts, whichever mode sets
\* fail at whichever point.
THEOREM CountIsExact == Spec => []RotationCounted
<1>1. IInv => RotationCounted
  BY DEF IInv
<1> QED
  BY <1>1, Invariance, PTL

\* A rotated CRTC has a tiled scanout buffer, and an untiled one serves otherwise,
\* unless there is none.
THEOREM KindFollowsRotation == Spec => []ScanoutKindMatches
<1>1. ASSUME IInv, phase = "up", kms.scanout # None PROVE ScanoutKindMatches
  <2>1. kms.scanout.tiled = IsRotated(rotated_crtcs)
    BY <1>1 DEF IInv, Kept, Wrapped
  <2>2. ASSUME NEW c \in Crtcs, hwRotation[c] = rotation[c], rotation[c] # 0
        PROVE  IsRotated(rotated_crtcs)
    <3>1. HasRotation
      BY <1>1, <2>2 DEF IInv
    <3>2. rotated_crtcs > 0
      BY <1>1, <2>2, CountedPositive DEF IInv
    <3> QED
      BY <3>1, <3>2 DEF IsRotated
  <2> QED
    BY <2>1, <2>2 DEF ScanoutKindMatches
<1>2. IInv => ScanoutKindMatches
  BY <1>1 DEF ScanoutKindMatches
<1> QED
  BY <1>2, Invariance, PTL

\* The root pixmap, the framebuffer and the CRTCs never describe another buffer
\* than the scanout buffer, nor more of it than was allocated.
THEOREM ScanoutIsWrapped == Spec => []ScanoutWrapped
<1>1. IInv => ScanoutWrapped
  BY DEF IInv, Kept, Wrapped, OneFb, Cpp, ScanoutWrapped
<1> QED
  BY <1>1, Invariance, PTL

\* What a lit CRTC shows is what the server believes it shows.
THEOREM LitShowsConfiguration == Spec => []LitAsConfigured
<1>1. IInv => LitAsConfigured
  BY DEF IInv, Shows, LitAsConfigured
<1> QED
  BY <1>1, Invariance, PTL

-----------------------------------------------------------------------------
(* The CRTCs a reallocation turns off *)

\* A CRTC that is restored is lit, refused or as it was: none is left as the removal
\* of the framebuffer left it, and the others are not touched.
LEMMA RestoreHw ==
  ASSUME NEW k \in KmsType, Wrapped(k), k.fb_id # 0 \/ k.scanout # None,
         NEW cs \in SUBSET Crtcs, NEW cfg \in [Crtcs -> ConfType],
         NEW refused \in SUBSET Crtcs, NEW made \in BOOLEAN, made \/ cs \subseteq refused,
         NEW e \in Crtcs
  PROVE  LET hw == Restore(k, cs, cfg, refused, made).hw
         IN  /\ e \in cs => hw[e] # Dark("removed")
             /\ e \notin cs => hw[e] = k.hw[e]
<1> DEFINE a == IF made /\ cs # {} THEN AddFb(k) ELSE k
           hw == [c \in Crtcs |->
                    IF c \notin cs THEN a.hw[c]
                    ELSE IF c \notin refused /\ cfg[c].enabled
                         THEN [fb |-> a.fb_id, shows |-> <<cfg[c].mode, cfg[c].x>>]
                    ELSE IF a.hw[c].fb = 0 THEN Dark("refused") ELSE a.hw[c]]
<1>1. a \in KmsType /\ a.hw = k.hw /\ (made /\ cs # {} => a.fb_id # 0)
  BY AddFbWrapped
<1>2. Restore(k, cs, cfg, refused, made) = [a EXCEPT !.hw = hw]
  BY DEF Restore
<1> HIDE DEF a
<1>3. hw[e] = IF e \notin cs THEN a.hw[e]
              ELSE IF e \notin refused /\ cfg[e].enabled
                   THEN [fb |-> a.fb_id, shows |-> <<cfg[e].mode, cfg[e].x>>]
              ELSE IF a.hw[e].fb = 0 THEN Dark("refused") ELSE a.hw[e]
  OBVIOUS
<1> HIDE DEF hw
<1>4. Restore(k, cs, cfg, refused, made).hw = hw
  BY <1>1, <1>2 DEF KmsType
<1>5. Dark("removed").fb = 0 /\ Dark("refused") # Dark("removed")
  <2>1. Dark("removed").shows = "removed" /\ Dark("refused").shows = "refused"
    BY DEF Dark
  <2>2. Dark("removed").fb = 0
    BY DEF Dark
  <2> QED
    BY <2>1, <2>2
<1>6. ASSUME e \in cs, e \notin refused /\ cfg[e].enabled PROVE hw[e] # Dark("removed")
  <2>1. a.fb_id # 0
    BY <1>1, <1>6
  <2>2. hw[e].fb = a.fb_id
    BY <1>3, <1>6
  <2> QED
    BY <1>5, <2>1, <2>2
<1>7. ASSUME e \in cs, ~(e \notin refused /\ cfg[e].enabled) PROVE hw[e] # Dark("removed")
  BY <1>3, <1>5, <1>7
<1> QED
  BY <1>1, <1>3, <1>4, <1>6, <1>7

\* The property, for one CRTC.
Relit(e) ==
  Lit(kms, e) /\ kms'.hw[e] = Dark("removed") =>
    kms'.scanout = None \/ kms'.virtual # kms.virtual \/ rotation'[e] # rotation[e]

\* What is still lit was not turned off.
LEMMA StillLit ==
  ASSUME NEW e \in Crtcs, kms'.hw[e] = kms.hw[e] \/ kms'.hw[e] # Dark("removed")
  PROVE  Relit(e)
<1>1. Dark("removed").fb = 0
  BY DEF Dark
<1> QED
  BY <1>1 DEF Relit, Lit

\* drmmode_set_mode_major tries to light all it turned off but its own CRTC.
LEMMA ProceedRelights ==
  ASSUME IInv, phase = "up", NEW c \in Crtcs, NEW new \in ConfType,
         NEW answer \in {"taken", "refused", "late"}, NEW ok \in BOOLEAN,
         NEW refused \in SUBSET Crtcs, NEW made \in BOOLEAN,
         ~(Toggles(Count(c, new.rot)) /\ MapsNull(kms, IsRotated(Count(c, new.rot)))),
         Proceed(c, new, Count(c, new.rot), answer, ok, refused, made),
         NEW e \in Crtcs
  PROVE  Relit(e)
<1> DEFINE n == Count(c, new.rot)
           k == Prepared(c, n, ok, refused, made)
           t == IsRotated(n)
           d == Reallocate(kms, t, TRUE, ok)
           cfg == [conf EXCEPT ![c] = new]
<1>1. /\ TypeOK /\ RotationCounted /\ new.rot \in Rotations
      /\ kms \in KmsType /\ Wrapped(kms) /\ conf \in [Crtcs -> ConfType]
  BY DEF ConfType, IInv, TypeOK, Kept
<1>2. n \in Nat /\ t \in BOOLEAN
  BY <1>1, CountNat, IsRotatedType
<1>3. Kept(k, n)
  BY <1>2, PreparedKept
<1>4. k \in KmsType /\ Wrapped(k)
  BY <1>3 DEF Kept
<1>5. /\ Answer(k, Asked(c, n, answer), refused, made)
      /\ rotation' = [rotation EXCEPT ![c] = new.rot]
      /\ \/ answer # "taken" /\ kms' = k
         \/ answer = "taken" /\ ~UsesNull(k) /\ kms' = Restore(k, {c}, cfg, refused, made)
  BY DEF Proceed
<1>6. Toggles(n) => rotation'[c] # rotation[c]
  <2>1. Toggles(n) => n # rotated_crtcs
    BY DEF Toggles
  <2> HIDE DEF k, t, d
  <2>2. n # rotated_crtcs => new.rot # rotation[c]
    BY <1>1 DEF Count, TypeOK
  <2>3. rotation'[c] = new.rot
    BY <1>1, <1>5 DEF TypeOK
  <2> QED
    BY <2>1, <2>2, <2>3
<1>7. cfg \in [Crtcs -> ConfType]
  BY <1>1
<1>8. made \/ Asked(c, n, answer) \subseteq refused
  BY <1>5 DEF Answer
<1> HIDE DEF n, t, d, cfg
\* c itself is set last, and the other CRTCs are then as they were before that.
<1>9. /\ answer = "taken" => kms'.hw[c] # Dark("removed")
      /\ e # c => kms'.hw[e] = k.hw[e]
  <2>1. CASE answer # "taken" /\ kms' = k
    BY <2>1
  <2>2. CASE answer = "taken" /\ ~UsesNull(k) /\ kms' = Restore(k, {c}, cfg, refused, made)
    <3>1. k.fb_id # 0 \/ k.scanout # None
      BY <2>2 DEF UsesNull
    <3>2. made \/ {c} \subseteq refused
      BY <1>8, <2>2 DEF Asked
    <3> HIDE DEF k
    <3>3. Restore(k, {c}, cfg, refused, made).hw[c] # Dark("removed")
      BY <1>4, <1>7, <3>1, <3>2, RestoreHw
    <3>4. e \notin {c} => Restore(k, {c}, cfg, refused, made).hw[e] = k.hw[e]
      BY <1>4, <1>7, <3>1, <3>2, RestoreHw
    <3> QED
      BY <2>2, <3>3, <3>4
  <2> QED
    BY <1>5, <2>1, <2>2
<1>10. CASE ~Toggles(n)
  <2>1. k = kms
    BY <1>10 DEF Prepared
  <2>2. kms'.hw[e] = kms.hw[e] \/ kms'.hw[e] # Dark("removed")
    BY <1>5, <1>9, <2>1
  <2> QED
    BY <2>2, StillLit
<1>11. CASE Toggles(n) /\ e = c
  BY <1>6, <1>11 DEF Relit
<1>12. CASE Toggles(n) /\ e # c /\ Same(kms, t)
  <2>1. kms.scanout # None
    BY <1>12 DEF MapsNull, n, t
  <2>2. k = kms
    <3>1. Reallocate(kms, t, TRUE, ok) = kms
      BY <1>1, <1>2, <1>12, <2>1, SameKept
    <3> QED
      BY <1>12, <3>1 DEF Prepared, t
  <2>3. kms'.hw[e] = kms.hw[e]
    BY <1>9, <1>12, <2>2
  <2> QED
    BY <2>3, StillLit
<1>13. CASE Toggles(n) /\ e # c /\ ~Same(kms, t)
  <2>1. /\ d \in KmsType /\ Wrapped(d)
        /\ ok => d.scanout # None
        /\ ~ok => d.scanout = None
    BY <1>1, <1>2, <1>13, ReplacedUp DEF d
  <2>2. CASE ~ok
    <3>1. k = d
      BY <1>13, <2>2 DEF Prepared, d, t
    <3>2. UsesNull(k)
      BY <2>1, <2>2, <3>1 DEF UsesNull, Wrapped
    <3>3. kms'.scanout = None
      BY <1>5, <2>1, <2>2, <3>1, <3>2 DEF cfg
    <3> QED
      BY <3>3 DEF Relit
  <2>3. CASE ok
    <3>1. k = Restore(d, Crtcs \ {c}, conf, refused, made)
      BY <1>13, <2>3 DEF Prepared, d, t
    <3>2. made \/ Crtcs \ {c} \subseteq refused
      BY <1>8, <1>13 DEF Asked
    <3>3. e \in Crtcs \ {c} /\ d.scanout # None
      BY <1>13, <2>1, <2>3
    <3>4. Restore(d, Crtcs \ {c}, conf, refused, made).hw[e] # Dark("removed")
      BY <1>1, <2>1, <3>2, <3>3, RestoreHw
    <3>5. kms'.hw[e] # Dark("removed")
      BY <1>9, <1>13, <3>1, <3>4
    <3> QED
      BY <3>5, StillLit
  <2> QED
    BY <2>2, <2>3
<1> QED
  BY <1>10, <1>11, <1>12, <1>13

\* The end of the server leaves no scanout buffer.
LEMMA EndRelights ==
  ASSUME NEW how, End(how), NEW e \in Crtcs
  PROVE  Relit(e)
BY DEF End, Fresh, Relit

\* drmmode_set_mode_major, with the returns before it counts.
LEMMA SetModeRelights ==
  ASSUME IInv, NEW c \in Crtcs, NEW m \in Modes \cup {0}, NEW x \in Nat, NEW r \in Rotations,
         SetMode(c, m, x, r), NEW e \in Crtcs
  PROVE  Relit(e)
<1> DEFINE n == Count(c, r)
           new == [enabled |-> TRUE, mode |-> m, x |-> x, rot |-> r]
<1>1. phase = "up"
  BY DEF SetMode
<1>2. new \in ConfType /\ new.rot = r
  BY DEF ConfType
<1>3. CASE Crash
  BY <1>3, EndRelights DEF Crash
<1>4. CASE ~Crash
  <2>1. ~(Toggles(n) /\ MapsNull(kms, IsRotated(n)))
    BY <1>4 DEF SetMode
  <2>2. PICK answer \in {"taken", "refused", "late"}, made \in BOOLEAN, ok \in BOOLEAN,
             refused \in SUBSET Crtcs : Proceed(c, new, n, answer, ok, refused, made)
    <3>1. \A answer : Asked(c, n, answer) \subseteq Crtcs
      BY DEF Asked
    <3> QED
      BY <1>4, <2>1, <3>1 DEF SetMode
  <2> QED
    BY <1>1, <1>2, <2>1, <2>2, ProceedRelights
<1> QED
  BY <1>3, <1>4

\* A resize that keeps the size turns off nothing that has a buffer.
LEMMA ResizeRelights ==
  ASSUME IInv, NEW size \in Sizes, Resize(size), NEW e \in Crtcs
  PROVE  Relit(e)
<1> DEFINE k == [kms EXCEPT !.virtual = size]
           t == IsRotated(rotated_crtcs)
<1>1. /\ TypeOK /\ kms \in KmsType /\ Wrapped(kms) /\ Kept(kms, rotated_crtcs)
  BY DEF IInv, TypeOK, Kept, Resize
<1>2. t \in BOOLEAN
  BY <1>1, IsRotatedType DEF TypeOK
<1>3. CASE Crash
  BY <1>3, EndRelights DEF Crash
<1>4. CASE \E ok \in BOOLEAN : kms' = [Reallocate(k, t, FALSE, ok) EXCEPT !.access = TRUE]
  <2>1. PICK ok \in BOOLEAN : kms' = [Reallocate(k, t, FALSE, ok) EXCEPT !.access = TRUE]
    BY <1>4
  <2>2. CASE kms.scanout = None
    <3>1. ~Lit(kms, e)
      BY <1>1, <2>2 DEF Wrapped, OneFb, Lit
    <3> QED
      BY <3>1 DEF Relit
  <2>3. CASE kms.scanout # None /\ size # kms.virtual
    <3> DEFINE r == Reallocate(k, t, FALSE, ok)
    <3>1. k \in KmsType /\ k.virtual = size /\ k.fbs = kms.fbs /\ k.hw = kms.hw
          /\ k.fb_id = kms.fb_id /\ k.dims = kms.dims
      BY <1>1 DEF KmsType
    <3>2. OneFb(k)
      BY <1>1, <3>1 DEF Wrapped, OneFb, Lit
    <3>3. ~Same(k, t)
      BY <1>1, <2>3, <3>1 DEF Same, Wrapped
    <3> DEFINE b == DeleteScanout(RemoveFb(k))
    <3>4. b \in KmsType /\ Bare(b) /\ b.virtual = size
      BY <3>1, <3>2, BareAfterDelete
    <3> HIDE DEF k, b
    <3>5. r = IF ok THEN [Allocated(b, t) EXCEPT !.access = @ \/ FALSE]
              ELSE [b EXCEPT !.access = @ /\ ~FALSE]
      BY <3>3 DEF Reallocate, b
    <3>6. r \in KmsType
      BY <1>2, <3>1, <3>2, <3>3, ReplacedKept DEF ReplacedAs
    <3>7. r.virtual = size
      <4>1. CASE ~ok
        BY <3>4, <3>5, <4>1 DEF KmsType
      <4>2. CASE ok
        <5>1. Allocated(b, t).virtual = size
          BY <3>4 DEF Allocated, View, KmsType
        <5> DEFINE al == Allocated(b, t)
        <5>2. r = [al EXCEPT !.access = @ \/ FALSE]
          BY <3>5, <4>2
        <5>3. al \in KmsType /\ al.virtual = size
          BY <1>2, <3>4, <5>1, AllocatedWrapped
        <5> HIDE DEF al
        <5> QED
          BY <5>2, <5>3 DEF KmsType
      <4> QED
        BY <4>1, <4>2
    <3> HIDE DEF r
    <3>8. kms' = [r EXCEPT !.access = TRUE]
      BY <2>1 DEF r
    <3>9. kms'.virtual = size
      BY <3>6, <3>7, <3>8 DEF KmsType
    <3> QED
      BY <2>3, <3>9 DEF Relit
  <2>4. CASE kms.scanout # None /\ size = kms.virtual
    <3>1. k = kms
      BY <1>1, <2>4 DEF KmsType
    <3>2. Same(kms, t)
      BY <1>1, <2>4 DEF Same, Wrapped, Kept
    <3>3. Reallocate(kms, t, FALSE, ok) = kms
      BY <1>1, <1>2, <2>4, <3>2, SameKept
    <3>4. kms' = [kms EXCEPT !.access = TRUE]
      BY <2>1, <3>1, <3>3
    <3>5. kms'.hw[e] = kms.hw[e]
      BY <1>1, <3>4 DEF KmsType
    <3> QED
      BY <3>5, StillLit
  <2> QED
    BY <2>2, <2>3, <2>4
<1> QED
  BY <1>3, <1>4 DEF Resize

\* Every step lights again what it may.
LEMMA StepRelights ==
  ASSUME IInv, [Next]_vars, NEW e \in Crtcs
  PROVE  Relit(e)
<1>1. CASE UNCHANGED vars
  BY <1>1, StillLit DEF vars
<1>2. CASE ScreenInit
  <2>1. ~Lit(kms, e)
    BY <1>2 DEF ScreenInit, IInv, Wrapped, OneFb, Lit
  <2> QED
    BY <2>1 DEF Relit
<1>3. CASE CloseScreen
  <2> DEFINE d == DeleteScanout(RemoveFb(kms))
  <2>1. kms \in KmsType /\ OneFb(kms)
    BY <1>3 DEF IInv, TypeOK, CloseScreen, Kept, Wrapped
  <2>2. d \in KmsType /\ d.scanout = None
    BY <2>1, BareAfterDelete DEF Bare
  <2> HIDE DEF d
  <2>3. kms' = [d EXCEPT !.dims = <<0, 0>>, !.root = None, !.access = FALSE]
    BY <1>3 DEF CloseScreen, d
  <2>4. kms'.scanout = None
    BY <2>2, <2>3 DEF KmsType
  <2> QED
    BY <2>4 DEF Relit
<1>4. ASSUME NEW c \in Crtcs, NEW m \in Modes, NEW x \in Xs[c], NEW r \in Rotations,
             SetMode(c, m, x, r)
      PROVE  Relit(e)
  <2>1. x \in Nat
    BY ScreenAssumption
  <2> QED
    BY <1>4, <2>1, SetModeRelights
<1>5. ASSUME NEW c \in Crtcs, Disable(c) PROVE Relit(e)
  BY <1>5, StillLit DEF Disable
<1>6. ASSUME NEW x \in Xs[CompatCrtc], AdjustFrame(x) PROVE Relit(e)
  <2>1. CompatCrtc \in Crtcs /\ x \in Nat
    BY CrtcsAssumption, ScreenAssumption
  <2>2. conf[CompatCrtc] \in ConfType
    BY <2>1 DEF IInv, TypeOK
  <2>3. conf[CompatCrtc].mode \in Modes \cup {0} /\ conf[CompatCrtc].rot \in Rotations
    BY <2>2 DEF ConfType
  <2>4. SetMode(CompatCrtc, conf[CompatCrtc].mode, x, conf[CompatCrtc].rot)
    BY <1>6 DEF AdjustFrame
  <2> QED
    BY <2>1, <2>3, <2>4, SetModeRelights
<1>7. ASSUME NEW size \in Sizes, Resize(size) PROVE Relit(e)
  BY <1>7, ResizeRelights
<1> QED
  BY <1>1, <1>2, <1>3, <1>4, <1>5, <1>6, <1>7 DEF Next

\* With any number of CRTCs and any answers of the kernel: what a mode set turns off
\* by replacing the scanout buffer it asks the kernel to light again, but for the
\* CRTC being set (drmmode_reallocate_scanout, drmmode_set_mode_major).
THEOREM OthersAlwaysRelit == Spec => OthersRelit
<1>1. IInv /\ [Next]_vars => [\A c \in Crtcs :
                                Lit(kms, c) /\ kms'.hw[c] = Dark("removed") =>
                                  \/ kms'.scanout = None
                                  \/ kms'.virtual # kms.virtual
                                  \/ rotation'[c] # rotation[c]]_vars
  BY StepRelights DEF Relit
<1> QED
  BY <1>1, Invariance, PTL DEF Spec, OthersRelit
=============================================================================
