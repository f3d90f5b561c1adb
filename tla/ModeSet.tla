------------------------------ MODULE ModeSet ------------------------------
(***************************************************************************)
(* Mode setting of src/src/drmmode_display.c: the rotation count, the      *)
(* scanout buffer that is replaced when the first CRTC is rotated or the   *)
(* last one unrotated, the framebuffer made for it, and the CRTCs that     *)
(* have to be lit again.  The kernel and the allocator may refuse any      *)
(* request.  A NULL scanout buffer that is used ends the server.           *)
(***************************************************************************)
EXTENDS Integers, FiniteSets, Geometry

CONSTANTS
  Crtcs,        \* the CRTCs of the screen, 0 .. config->num_crtc - 1
  CompatCrtc,   \* the CRTC of the output config->compat_output
  Modes,        \* widths of the modes (HDisplay)
  Xs,           \* positions each CRTC may have in the screen
  Rotations,    \* the rotations asked for, 0 is RR_Rotate_0
  Sizes,        \* <<width, height>> of the screen
  Bpp,          \* pScrn->bitsPerPixel
  HasRotation,  \* has_rotation(pOMAP)
  None          \* NULL

ASSUME CrtcsAssumption == IsFiniteSet(Crtcs) /\ CompatCrtc \in Crtcs

ASSUME ScreenAssumption ==
  /\ Modes \subseteq Nat \ {0} /\ Xs \in [Crtcs -> SUBSET Nat]
  /\ 0 \in Rotations /\ Rotations \subseteq Nat
  /\ Sizes \subseteq (Nat \ {0}) \X (Nat \ {0})
  /\ Bpp \in {8, 16, 32}
  /\ HasRotation \in BOOLEAN

BufferType == [tiled : BOOLEAN, bytes : Nat]

ViewType == [live : BOOLEAN, size : Sizes, pitch : Nat]

ASSUME NoneAssumption == None \notin BufferType \cup ViewType

VARIABLES
  conf,           \* xf86CrtcRec: enabled, mode, x and rotation
  rotation,       \* drmmode_crtc->rotation
  rotated_crtcs,  \* drmmode->rotated_crtcs
  hwRotation,     \* the kernel's rotation property
  kms,            \* the screen's buffers, and what the kernel shows of them
  phase           \* "closed", "up", "failed" (ScreenInit) or "crashed"

vars == <<conf, rotation, rotated_crtcs, hwRotation, kms, phase>>

-----------------------------------------------------------------------------
(* Buffers and framebuffers.  kms is a record:                              *)
(*   virtual           virtualX and virtualY                                *)
(*   displayWidth      of the ScrnInfoRec                                   *)
(*   scanout           whether it is tiled and its size, or None            *)
(*   dims, rotate      scanout_w, scanout_h and scanout_rotate              *)
(*   root              what the header of the root pixmap says              *)
(*   access            the server may draw (EnableDisableFBAccess)          *)
(*   fb_id             drmmode->fb_id                                       *)
(*   fbs               the kernel's framebuffers, by identifier             *)
(*   hw                the framebuffer and the configuration a CRTC shows   *)

FbIds == 1..2

NoConf == [enabled |-> FALSE, mode |-> 0, x |-> 0, rot |-> 0]

\* A CRTC that shows nothing: never set, its framebuffer removed, or refused.
Dark(why) == [fb |-> 0, shows |-> why]

Lit(k, c) == k.hw[c].fb # 0

Pitch(k) == k.displayWidth * (Bpp \div 8)

\* omap_bo_new_tiled or omap_bo_new, and the bytes they reserve.
NewBuffer(size, tiled) ==
  [tiled |-> tiled,
   bytes |-> size[2] * (IF tiled THEN TilerRow(size[1], Bpp) ELSE PitchOf(size[1], Bpp, FALSE))]

\* A pixmap header or a framebuffer that describes the scanout buffer.
View(k) == [live |-> TRUE, size |-> k.virtual, pitch |-> Pitch(k)]

Stale(view) == IF view = None THEN None ELSE [view EXCEPT !.live = FALSE]

\* Mutant: the framebuffer stays, the driver only forgets it.
RemoveFbForgets(k) == [k EXCEPT !.fb_id = 0]

\* drmmode_remove_fb; the kernel turns off the CRTCs that show the framebuffer.
RemoveFb(k) ==
  IF k.fb_id = 0 THEN k
  ELSE [k EXCEPT !.fb_id = 0,
                 !.fbs[k.fb_id] = None,
                 !.hw = [c \in Crtcs |-> IF k.hw[c].fb = k.fb_id THEN Dark("removed")
                                         ELSE k.hw[c]]]

\* omap_bo_del of the scanout buffer: what described it describes it no more.
DeleteScanout(k) ==
  [k EXCEPT !.scanout = None, !.root = Stale(@), !.fbs = [i \in FbIds |-> Stale(k.fbs[i])]]

\* Mutant: the scanout buffer is compared by its size only.
SameIgnoresRotation(k, tiled) == k.virtual = k.dims

\* The scanout buffer is already of the size and the kind that is needed.
Same(k, tiled) == k.virtual = k.dims /\ tiled = k.rotate

\* The new scanout buffer, the stride that goes with it, the root's header.
Allocated(k, tiled) ==
  LET d == [k EXCEPT !.scanout = NewBuffer(k.virtual, tiled), !.dims = k.virtual,
                     !.rotate = tiled,
                     !.displayWidth = PitchOf(k.virtual[1], Bpp, tiled) \div (Bpp \div 8)]
  IN  [d EXCEPT !.root = View(d)]

\* drmmode_reallocate_scanout up to the point where CRTCs are restored; ok is
\* whether the allocation succeeds.
Reallocate(k, tiled, redraw, ok) ==
  IF Same(k, tiled) THEN [k EXCEPT !.root = View(k)]
  ELSE LET d == DeleteScanout(RemoveFb(k))
       IN  IF ok THEN [Allocated(d, tiled) EXCEPT !.access = @ \/ redraw]
           ELSE [d EXCEPT !.access = @ /\ ~redraw]

\* The framebuffer of the scanout buffer, made at the first restore after a removal.
AddFb(k) ==
  IF k.fb_id # 0 THEN k
  ELSE LET i == CHOOSE f \in FbIds : k.fbs[f] = None
       IN  [k EXCEPT !.fb_id = i, !.fbs[i] = View(k)]

\* What the kernel may refuse of what it is asked for: drmModeAddFB for the length
\* of a call (made is FALSE), which leaves nothing to set, and drmModeSetCrtc.
Answer(k, asked, refused, made) ==
  /\ made => k.fb_id # 0 \/ \E f \in FbIds : k.fbs[f] = None
  /\ ~made => k.fb_id = 0 /\ refused = asked

\* drmmode_restore_crtc for each CRTC of cs, with the configurations cfg: a CRTC
\* without outputs is refused, a refused one stays as it is.
Restore(k, cs, cfg, refused, made) ==
  LET d == IF made /\ cs # {} THEN AddFb(k) ELSE k
  IN  [d EXCEPT !.hw = [c \in Crtcs |->
         IF c \notin cs THEN d.hw[c]
         ELSE IF c \notin refused /\ cfg[c].enabled
              THEN [fb |-> d.fb_id, shows |-> <<cfg[c].mode, cfg[c].x>>]
         ELSE IF d.hw[c].fb = 0 THEN Dark("refused") ELSE d.hw[c]]]

-----------------------------------------------------------------------------
(* Setting a mode *)

\* Mutant: a CRTC that changes from one rotation to another counts again.
CountAgain(c, r) ==
  CASE rotation[c] # 0 /\ r = 0 -> rotated_crtcs - 1
    [] r # 0                    -> rotated_crtcs + 1
    [] OTHER                    -> rotated_crtcs

\* The count of rotated CRTCs once c has rotation r.
Count(c, r) ==
  CASE rotation[c] # 0 /\ r = 0 -> rotated_crtcs - 1
    [] rotation[c] = 0 /\ r # 0 -> rotated_crtcs + 1
    [] OTHER                    -> rotated_crtcs

\* drmmode_is_rotated with the count n.
IsRotated(n) == HasRotation /\ n > 0

\* The scanout buffer has to change kind when the first CRTC is rotated or the
\* last one unrotated.
Toggles(n) == (rotated_crtcs > 0) # (n > 0)

\* Mutant: only the CRTC that is being set is lit again.
PreparedAlone(c, n, ok, refused, made) ==
  IF ~Toggles(n) THEN kms ELSE Reallocate(kms, IsRotated(n), TRUE, ok)

\* The buffers once the count is n; the CRTCs other than c are lit again when
\* the scanout buffer was replaced.  What the reallocation returns is ignored.
Prepared(c, n, ok, refused, made) ==
  IF ~Toggles(n) THEN kms
  ELSE LET k == Reallocate(kms, IsRotated(n), TRUE, ok)
       IN  IF Same(kms, IsRotated(n)) \/ ~ok THEN k
           ELSE Restore(k, Crtcs \ {c}, conf, refused, made)

\* What the driver starts from, with a screen of that size.
Fresh(size) ==
  [virtual |-> size, displayWidth |-> 0, scanout |-> None, dims |-> <<0, 0>>,
   rotate |-> FALSE, root |-> None, access |-> FALSE, fb_id |-> 0,
   fbs |-> [i \in FbIds |-> None], hw |-> [c \in Crtcs |-> Dark("off")]]

\* The server is gone, with all it kept and all the kernel kept for it.
End(how) ==
  /\ conf' = [c \in Crtcs |-> NoConf]
  /\ rotation' = [c \in Crtcs |-> 0] /\ rotated_crtcs' = 0
  /\ hwRotation' = [c \in Crtcs |-> 0]
  /\ kms' = Fresh(kms.virtual)
  /\ phase' = how

\* A NULL scanout buffer is mapped for the root pixmap or made a framebuffer.
Crash == End("crashed")

\* The else branch of drmmode_reallocate_scanout maps the buffer it has not.
MapsNull(k, tiled) == Same(k, tiled) /\ k.scanout = None

\* drmmode_set_rotation: the kernel takes the property or not, and then
\* xf86CrtcRotate may fail as well.
TakesRotation(answer) == HasRotation /\ answer # "refused"

\* The CRTCs that a mode set of c asks the kernel to light.
Asked(c, n, answer) ==
  (IF Toggles(n) THEN Crtcs \ {c} ELSE {}) \cup (IF answer = "taken" THEN {c} ELSE {})

\* A framebuffer is needed and there is no buffer to make it for.
UsesNull(k) == k.scanout = None /\ k.fb_id = 0

\* Mutant: the CRTC keeps what it was asked for although it was refused.
ConfiguredAnyway(c, new, ok) == [conf EXCEPT ![c] = new]

\* The configuration that is left: the old one is put back after a failure.
Configured(c, new, ok) == IF ok THEN [conf EXCEPT ![c] = new] ELSE conf

\* drmmode_set_mode_major, once the CRTCs are counted: n of them are rotated.
Proceed(c, new, n, answer, ok, refused, made) ==
  LET k == Prepared(c, n, ok, refused, made)
  IN  /\ Answer(k, Asked(c, n, answer), refused, made)
      /\ rotated_crtcs' = n
      /\ rotation' = [rotation EXCEPT ![c] = new.rot]
      /\ hwRotation' = IF TakesRotation(answer) THEN [hwRotation EXCEPT ![c] = new.rot]
                       ELSE hwRotation
      /\ \/ answer # "taken" /\ kms' = k /\ UNCHANGED conf
         \/ /\ answer = "taken" /\ ~UsesNull(k)
            /\ kms' = Restore(k, {c}, [conf EXCEPT ![c] = new], refused, made)
            /\ conf' = Configured(c, new, c \notin refused)
      /\ UNCHANGED phase

SetMode(c, m, x, r) ==
  /\ phase = "up"
  /\ LET n   == Count(c, r)
         new == [enabled |-> TRUE, mode |-> m, x |-> x, rot |-> r]
     IN  IF Toggles(n) /\ MapsNull(kms, IsRotated(n)) THEN Crash
         ELSE \E answer \in {"taken", "refused", "late"}, made \in BOOLEAN,
                 ok \in (IF Toggles(n) THEN BOOLEAN ELSE {TRUE}) :
              \E refused \in SUBSET Asked(c, n, answer) :
                \/ Proceed(c, new, n, answer, ok, refused, made)
                \/ /\ answer = "taken" /\ UsesNull(Prepared(c, n, ok, refused, made))
                   /\ Crash

\* drmmode_adjust_frame: the CRTC of the compatibility output moves.
AdjustFrame(x) ==
  /\ conf[CompatCrtc].enabled
  /\ SetMode(CompatCrtc, conf[CompatCrtc].mode, x, conf[CompatCrtc].rot)

\* The server turns a CRTC off; drmmode_crtc_dpms does nothing.
Disable(c) ==
  /\ phase = "up" /\ conf[c].enabled
  /\ conf' = [conf EXCEPT ![c] = NoConf]
  /\ UNCHANGED <<rotation, rotated_crtcs, hwRotation, kms, phase>>

\* drmmode_xf86crtc_resize.  The server disables access before the call and
\* enables it after, whatever the result.
Resize(size) ==
  /\ phase = "up"
  /\ LET k == [kms EXCEPT !.virtual = size]
         t == IsRotated(rotated_crtcs)
     IN  \/ MapsNull(k, t) /\ Crash
         \/ /\ ~MapsNull(k, t)
            /\ \E ok \in BOOLEAN : kms' = [Reallocate(k, t, FALSE, ok) EXCEPT !.access = TRUE]
            /\ UNCHANGED <<conf, rotation, rotated_crtcs, hwRotation, phase>>

\* OMAPMapMem in OMAPScreenInit; the screen pixmap comes with the generation.
ScreenInit ==
  /\ phase = "closed"
  /\ \/ /\ kms' = [Reallocate(kms, IsRotated(rotated_crtcs), FALSE, TRUE) EXCEPT !.access = TRUE]
        /\ phase' = "up"
        /\ UNCHANGED <<conf, rotation, rotated_crtcs, hwRotation>>
     \/ End("failed")

\* OMAPUnmapMem in OMAPCloseScreen; scanout_rotate stays.
CloseScreen ==
  /\ phase = "up"
  /\ kms' = [DeleteScanout(RemoveFb(kms)) EXCEPT !.dims = <<0, 0>>, !.root = None,
                                                  !.access = FALSE]
  /\ phase' = "closed"
  /\ UNCHANGED <<conf, rotation, rotated_crtcs, hwRotation>>

-----------------------------------------------------------------------------
\* drmmode_pre_init and drmmode_crtc_init.
Init ==
  /\ conf = [c \in Crtcs |-> NoConf]
  /\ rotation = [c \in Crtcs |-> 0]
  /\ rotated_crtcs = 0
  /\ hwRotation = [c \in Crtcs |-> 0]
  /\ \E size \in Sizes : kms = Fresh(size)
  /\ phase = "closed"

Next ==
  \/ ScreenInit
  \/ CloseScreen
  \/ \E c \in Crtcs : \/ \E m \in Modes, x \in Xs[c], r \in Rotations : SetMode(c, m, x, r)
                      \/ Disable(c)
  \/ \E x \in Xs[CompatCrtc] : AdjustFrame(x)
  \/ \E size \in Sizes : Resize(size)

Spec == Init /\ [][Next]_vars

-----------------------------------------------------------------------------
ConfType == [enabled : BOOLEAN, mode : Modes \cup {0}, x : Nat, rot : Rotations]

HwType == [fb : FbIds \cup {0},
           shows : {"off", "removed", "refused"} \cup ((Modes \cup {0}) \X Nat)]

KmsType ==
  [virtual : Sizes, displayWidth : Nat, scanout : BufferType \cup {None},
   dims : Sizes \cup {<<0, 0>>}, rotate : BOOLEAN, root : ViewType \cup {None},
   access : BOOLEAN, fb_id : FbIds \cup {0}, fbs : [FbIds -> ViewType \cup {None}],
   hw : [Crtcs -> HwType]]

\* The values the variables range over.
TypeOK ==
  /\ conf \in [Crtcs -> ConfType]
  /\ rotation \in [Crtcs -> Rotations]
  /\ rotated_crtcs \in Nat
  /\ hwRotation \in [Crtcs -> Rotations]
  /\ kms \in KmsType
  /\ phase \in {"closed", "up", "failed", "crashed"}

\* rotated_crtcs is the number of CRTCs the driver keeps as rotated, after any
\* sequence of mode sets that fail at any point: it is what decides the kind of
\* scanout buffer, and nothing ever counts it anew.
RotationCounted == rotated_crtcs = Cardinality({c \in Crtcs : rotation[c] # 0})

\* Unless its reallocation failed, the scanout buffer is tiled exactly when a
\* CRTC is rotated ("if we have one or more rotated outputs then we want to use a
\* tiled buffer, but otherwise stick with non-tiled", drmmode_display.c:344); so
\* no CRTC whose rotation the kernel has taken shows an untiled buffer.
ScanoutKindMatches ==
  phase = "up" /\ kms.scanout # None =>
    /\ kms.scanout.tiled = IsRotated(rotated_crtcs)
    /\ \A c \in Crtcs : hwRotation[c] = rotation[c] /\ rotation[c] # 0 => kms.scanout.tiled

\* The root pixmap, the framebuffer and every lit CRTC follow the scanout buffer
\* through rotations, resizes and their failures: each is of its size and stride
\* and within its memory, no other framebuffer is left, and the server may draw.
ScanoutWrapped ==
  phase = "up" =>
    /\ kms.scanout # None =>
         /\ kms.root = View(kms) /\ kms.access
         /\ Pitch(kms) * kms.virtual[2] <= kms.scanout.bytes
         /\ kms.virtual[1] * (Bpp \div 8) <= Pitch(kms)
    /\ \A i \in FbIds : kms.fbs[i] # None => i = kms.fb_id /\ kms.fbs[i] = View(kms)
    /\ kms.fb_id # 0 => kms.scanout # None /\ kms.fbs[kms.fb_id] # None
    /\ \A c \in Crtcs : Lit(kms, c) => kms.hw[c].fb = kms.fb_id

\* A lit CRTC shows the configuration the server holds for it: one that a failed
\* mode set could not change is described by what drmmode_set_mode_major put back.
LitAsConfigured ==
  \A c \in Crtcs : Lit(kms, c) /\ conf[c].enabled =>
                     kms.hw[c].shows = <<conf[c].mode, conf[c].x>>

\* A mode set that replaces the scanout buffer tries to light again every other
\* CRTC it turned off: only the CRTC that is being set, a resize or the end of
\* the generation leaves a CRTC dark that the kernel did not refuse.
OthersRelit ==
  [][\A c \in Crtcs :
       Lit(kms, c) /\ kms'.hw[c] = Dark("removed") =>
         \/ kms'.scanout = None
         \/ kms'.virtual # kms.virtual
         \/ rotation'[c] # rotation[c]]_vars
=============================================================================
