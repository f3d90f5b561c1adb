------------------------------ MODULE Dri2Swap ------------------------------
(***************************************************************************)
(* The DRI2 swap engine of the driver (src/src/omap_dri2.c) together with  *)
(* the page flipping it drives (src/src/drmmode_display.c).                *)
(*                                                                         *)
(* The X server is single threaded: a DRI2 request and a DRM event handler *)
(* each run to completion, nested calls included, so each is one action.   *)
(* What interleaves with them is the kernel (page flips complete at vblank,*)
(* and the events wait on the DRM fd until the server reads them), the     *)
(* clients (swap, re-get buffers, disconnect, destroy and recreate         *)
(* windows) and RandR (CRTCs come and go, and with the scanout buffer the  *)
(* current framebuffer is removed, flips to it under way or not).          *)
(*                                                                         *)
(* Heap addresses are members of finite sets.  An address that is free can *)
(* be handed out again, as malloc does.                                    *)
(***************************************************************************)
EXTENDS Integers, FiniteSets, Sequences

CONSTANTS
  Window,        \* window XIDs
  Cmd,           \* addresses of OMAPDRISwapCmd
  Buf,           \* addresses of OMAPDRI2BufferRec
  Flip,          \* addresses of drmmode_flipdata_rec
  Fb,            \* kernel framebuffer ids
  LowestFirst,   \* commands, buffers and framebuffer ids: the lowest free one
                 \* is taken, instead of any
  NCrtc,         \* config->num_crtc
  SwapLimit,     \* the limit CreateBuffer gives to DRI2SwapLimit
  EventSpace,    \* page-flip events the kernel keeps for one DRM file
  None,          \* NULL, a free address, or no event

  (* What the environment may do; each run names the hazards it lets in.   *)
  MayDetach,     \* the last DRI2 client of a window leaves with swaps pending
  MayReuseXid,   \* a window is recreated while a flip of its old self pends
  MayDisableAll, \* every CRTC may be disabled
  MayFailLate    \* drmModePageFlip fails on a CRTC after an earlier one took it

Crtc == 1..NCrtc

\* OMAPDRISwapCmd, drmmode_flipdata_rec, and what the kernel keeps of a flip.
CmdRec  == [draw_id : Window, src : Buf, dst : Buf, type : {"none", "flip"}]
FlipRec == [priv : Cmd, old_fb_id : Fb \cup {None}, flip_count : Int]
PendRec == [data : Flip, fb : Fb \cup {None}]

ASSUME SetsAssumption ==
  /\ Cmd \subseteq Nat /\ Buf \subseteq Nat /\ Fb \subseteq Nat
  /\ IsFiniteSet(Window) /\ IsFiniteSet(Cmd) /\ IsFiniteSet(Flip)
  /\ \A S \in {Window, Cmd, Buf, Flip, Fb} : None \notin S
  /\ None \notin CmdRec /\ None \notin FlipRec /\ None \notin PendRec

ASSUME NumbersAssumption ==
  /\ NCrtc \in Nat \ {0}
  /\ SwapLimit \in 1..2
  /\ EventSpace \in Nat
  /\ {LowestFirst, MayDetach, MayReuseXid, MayDisableAll, MayFailLate} \subseteq BOOLEAN

VARIABLES
  (* OMAPDRI2DrawableRec.  GetDrawable callocs it on first use, so a       *)
  (* drawable that has none yet is one whose fields are zero.              *)
  pending_swaps,      \* pPriv->pending_swaps
  queued,             \* pPriv->cmd
  (* Heap objects *)
  cmd,                \* the swap command at an address, or None
  ref,                \* OMAPDRI2BufferRec.refcnt; 0 is a free address
  flip,               \* the flipdata at an address, or None
  (* Per-screen state *)
  pending_page_flips, \* pOMAP->pending_page_flips
  fb_id,              \* drmmode->fb_id, None for 0
  enabled,            \* the CRTCs with crtc->enabled
  phase,              \* "run", "closing" (in CloseScreen), "closed", "crashed"
  (* The X server and its DRI2 module *)
  alive,              \* windows whose XID can be looked up
  swapsPending,       \* the DRI2 module's own count per window
  front, back,        \* the buffers attached to a window, or None
  (* The kernel *)
  fbs,                \* framebuffer ids that exist
  scan,               \* what each CRTC scans out, None when it is switched off
  pend,               \* the flip each CRTC will do at its next vblank, or None
  events              \* flip events not yet read from the DRM fd, oldest first

driVars    == <<pending_swaps, queued>>
heapVars   == <<cmd, ref>>
flipVars   == <<flip, fb_id, fbs, pend>>
coreVars   == <<alive, swapsPending, front, back>>
screenVars == <<enabled, phase, scan>>

vars == <<driVars, heapVars, flipVars, coreVars, screenVars,
          pending_page_flips, events>>

-----------------------------------------------------------------------------
(* Derived state *)

Live == {p \in Flip : flip[p] # None}

Allocated == {c \in Cmd : cmd[c] # None}

Unused == {b \in Buf : ref[b] = 0}

\* Commands whose flip is on its way.
InFlight == {flip[p].priv : p \in Live}

\* Commands waiting in the one-deep queue of a drawable.
Waiting == {queued[d] : d \in Window} \ {None}

\* Events the kernel owes, or has already sent, for the flipdata at p.
Outstanding(p) ==
  Cardinality({k \in Crtc : pend[k] # None /\ pend[k].data = p})
    + Cardinality({i \in 1..Len(events) : events[i] = p})

\* x may be allocated from the free ones.
Fresh(x, free) == x \in free /\ (LowestFirst => \A y \in free : x <= y)

\* References the commands C hold on buffer b.
Holds(C, b) ==
  Cardinality({c \in C : cmd[c].src = b}) + Cardinality({c \in C : cmd[c].dst = b})

-----------------------------------------------------------------------------
(* drmmode_page_flip, called by SwapDispatch.  "gone" is the flipdata that *)
(* the event handler around the call frees when the call returns (empty    *)
(* when a request makes the call), with the framebuffer it replaced.       *)

OldFbs(gone) == {flip[p].old_fb_id : p \in gone}

\* Mutant: drmModeRmFB is forgotten.
FreeFlipdataKeepsFb(gone) ==
  /\ flip' = [p \in Flip |-> IF p \in gone THEN None ELSE flip[p]]
  /\ UNCHANGED <<fbs, fb_id>>

\* free(flipdata) and drmModeRmFB(old_fb_id) at the end of the handler.
FreeFlipdata(gone) ==
  /\ flip' = [p \in Flip |-> IF p \in gone THEN None ELSE flip[p]]
  /\ fbs'  = fbs \ OldFbs(gone)
  /\ UNCHANGED fb_id

\* Mutant: DRM_MODE_PAGE_FLIP_EVENT is forgotten.
FlipOnSilently(crtcs, p, f) == UNCHANGED pend

\* drmModePageFlip on each of crtcs.
FlipOn(crtcs, p, f) ==
  pend' = [k \in Crtc |-> IF k \in crtcs THEN [data |-> p, fb |-> f] ELSE pend[k]]

\* Every enabled CRTC takes the flip, and the handler will wait for n events.
\* The kernel refuses a CRTC that is switched off or whose previous flip has not
\* happened yet (EBUSY).
FlipAll(c, gone, n) ==
  \E p \in Flip \ Live, f \in Fb :
    /\ Fresh(f, Fb \ fbs)
    /\ \A k \in enabled : pend[k] = None /\ scan[k] # None
    /\ flip' = [q \in Flip |->
                  IF q = p THEN [priv |-> c, old_fb_id |-> fb_id, flip_count |-> n]
                  ELSE IF q \in gone THEN None ELSE flip[q]]
    /\ fbs' = (fbs \cup {f}) \ OldFbs(gone)
    /\ fb_id' = f
    /\ FlipOn(enabled, p, f)

\* Mutants: flip_count counts disabled CRTCs too, or the first event is taken
\* for the last.
PageFlipCountsAll(c, gone) == FlipAll(c, gone, NCrtc)
PageFlipCountsOne(c, gone) == FlipAll(c, gone, 1)

\* It returns TRUE, having counted one event for each enabled CRTC.
PageFlip(c, gone) == FlipAll(c, gone, Cardinality(enabled))

\* The flip fails on a CRTC after earlier ones took it: the error path frees
\* the flipdata and removes the new framebuffer, so that the earlier CRTCs are
\* switched off, but they keep their events.
LateFailure ==
  \E p \in Flip \ Live, failed \in enabled :
    LET taken == {k \in enabled : k < failed}
    IN  /\ MayFailLate
        /\ Fb \ fbs # {}
        /\ taken # {}
        /\ \A k \in taken : pend[k] = None /\ scan[k] # None
        /\ Len(events) + NCrtc <= EventSpace
        /\ FlipOn(taken, p, None)

\* It returns FALSE, or SwapDispatch never calls it: the drawable is not full
\* screen, the source is not tiled on a rotated screen, drmModeAddFB fails, or
\* the first drmModePageFlip does.
NoPageFlip(gone) ==
  /\ FreeFlipdata(gone)
  /\ UNCHANGED pend \/ LateFailure

-----------------------------------------------------------------------------
(* OMAPDRI2SwapComplete and the dispatch of the queued command it nests.   *)
(* An exchange or a blit completes within the dispatch, and the queue is   *)
(* already empty by then, so at most two commands complete in one handler. *)

\* Mutant: the destination buffer is not released.
RetireKeepsDst(done, flipped) ==
  /\ cmd' = [c \in Cmd |-> IF c \in done THEN None
                           ELSE IF c \in flipped THEN [cmd[c] EXCEPT !.type = "flip"]
                           ELSE cmd[c]]
  /\ ref' = [b \in Buf |-> ref[b] - Cardinality({c \in done : cmd[c].src = b})]

\* OMAPDRI2DestroyBuffer of both buffers and free(cmd), for each command of
\* done; the commands of flipped have become flips.
Retire(done, flipped) ==
  /\ cmd' = [c \in Cmd |-> IF c \in done THEN None
                           ELSE IF c \in flipped THEN [cmd[c] EXCEPT !.type = "flip"]
                           ELSE cmd[c]]
  /\ ref' = [b \in Buf |-> ref[b] - Holds(done, b)]

\* Mutant: DRI2SwapComplete is called once per handler.
ReportOnce(d, n) ==
  /\ pending_swaps' = [pending_swaps EXCEPT ![d] = @ - n]
  /\ swapsPending'  = [swapsPending EXCEPT ![d] = IF front[d] = None THEN @ ELSE @ - 1]

\* Mutant: pending_swaps is decremented once per handler.
ReportCountsOne(d, n) ==
  /\ pending_swaps' = [pending_swaps EXCEPT ![d] = @ - 1]
  /\ swapsPending'  = [swapsPending EXCEPT ![d] = IF front[d] = None THEN @ ELSE @ - n]

\* n swaps of d are reported with DRI2SwapComplete, which knows the window
\* only while it has buffers attached, and leave pending_swaps.
Report(d, n) ==
  /\ pending_swaps' = [pending_swaps EXCEPT ![d] = @ - n]
  /\ swapsPending'  = [swapsPending EXCEPT ![d] = IF front[d] = None THEN @ ELSE @ - n]

\* The commands of done are released, and the flip no longer counts as pending.
Finish(done) ==
  /\ Retire(done, {})
  /\ pending_page_flips' = pending_page_flips - 1

\* Mutant: pending_page_flips is decremented only if the drawable is there.
CompleteOrphanUncounted(c, gone) ==
  /\ cmd[c].draw_id \notin alive
  /\ Retire({c}, {})
  /\ FreeFlipdata(gone)
  /\ UNCHANGED <<driVars, swapsPending, pend, pending_page_flips>>

\* dixLookupDrawable(draw_id) fails: only the references are dropped.
CompleteOrphan(c, gone) ==
  /\ cmd[c].draw_id \notin alive
  /\ Finish({c})
  /\ FreeFlipdata(gone)
  /\ UNCHANGED <<driVars, swapsPending, pend>>

\* Mutant: the queue is cleared without dispatching what it holds.
CompleteLastDropsQueue(c, gone) ==
  LET d == cmd[c].draw_id
  IN  /\ d \in alive
      /\ queued' = [queued EXCEPT ![d] = None]
      /\ Report(d, 1)
      /\ Finish({c})
      /\ FreeFlipdata(gone)
      /\ UNCHANGED pend

\* Nothing is queued.
CompleteLast(c, gone) ==
  LET d == cmd[c].draw_id
  IN  /\ d \in alive
      /\ queued[d] = None
      /\ Report(d, 1)
      /\ Finish({c})
      /\ FreeFlipdata(gone)
      /\ UNCHANGED <<queued, pend>>

\* Mutant: pPriv->cmd is not cleared before the dispatch.
UnqueueNothing(d) == queued[d] # None /\ UNCHANGED queued

\* The queued command is taken out before it is dispatched.
Unqueue(d) == queued[d] # None /\ queued' = [queued EXCEPT ![d] = None]

\* The queued command is dispatched and becomes a flip.
CompleteThenFlip(c, gone) ==
  LET d == cmd[c].draw_id
  IN  /\ d \in alive
      /\ Unqueue(d)
      /\ PageFlip(queued[d], gone)
      /\ Report(d, 1)
      /\ Retire({c}, {queued[d]})
      /\ UNCHANGED pending_page_flips

\* The queued command is dispatched as an exchange or a blit and completes.
CompleteBoth(c, gone) ==
  LET d == cmd[c].draw_id
  IN  /\ d \in alive
      /\ Unqueue(d)
      /\ NoPageFlip(gone)
      /\ Report(d, 2)
      /\ Finish({c, queued[d]})

SwapComplete(c, gone) ==
  \/ CompleteOrphan(c, gone)
  \/ CompleteLast(c, gone)
  \/ CompleteThenFlip(c, gone)
  \/ CompleteBoth(c, gone)

-----------------------------------------------------------------------------
(* OMAPDRI2ScheduleSwap.  The DRI2 module lets a swap through only below   *)
(* the window's swap limit; it counts the swap unless the driver refuses.  *)

NewCmd(d, type) == [draw_id |-> d, src |-> back[d], dst |-> front[d], type |-> type]

\* Mutant: a swap is let through for a window without buffers.
MayRequestUnattached(d) ==
  /\ phase = "run"
  /\ d \in alive
  /\ swapsPending[d] < SwapLimit

MayRequest(d) ==
  /\ phase = "run"
  /\ d \in alive
  /\ front[d] # None
  /\ swapsPending[d] < SwapLimit

\* Mutant: OMAPDRI2ReferenceBuffer is not called.
AllocateUnreferenced(c, d, type) ==
  /\ Fresh(c, Cmd \ Allocated)
  /\ cmd' = [cmd EXCEPT ![c] = NewCmd(d, type)]
  /\ UNCHANGED ref

\* calloc of the command, and OMAPDRI2ReferenceBuffer on both its buffers.
Allocate(c, d, type) ==
  /\ Fresh(c, Cmd \ Allocated)
  /\ cmd' = [cmd EXCEPT ![c] = NewCmd(d, type)]
  /\ ref' = [b \in Buf |-> IF b \in {front[d], back[d]} THEN ref[b] + 1 ELSE ref[b]]

\* Mutant: pending_swaps++ is forgotten.
CountSwapDri2Only(d) ==
  /\ swapsPending' = [swapsPending EXCEPT ![d] = @ + 1]
  /\ UNCHANGED pending_swaps

CountSwap(d) ==
  /\ pending_swaps' = [pending_swaps EXCEPT ![d] = @ + 1]
  /\ swapsPending'  = [swapsPending EXCEPT ![d] = @ + 1]

\* Mutant: a swap is queued even when none is pending.
ScheduleQueuedAlways(d, c) ==
  /\ MayRequest(d)
  /\ queued[d] = None
  /\ Allocate(c, d, "none")
  /\ queued' = [queued EXCEPT ![d] = c]
  /\ CountSwap(d)
  /\ UNCHANGED <<flipVars, screenVars, alive, front, back, pending_page_flips, events>>

\* A swap is pending and the queue is free: wait in the queue.
ScheduleQueued(d, c) ==
  /\ MayRequest(d)
  /\ pending_swaps[d] + 1 > 1
  /\ queued[d] = None
  /\ Allocate(c, d, "none")
  /\ queued' = [queued EXCEPT ![d] = c]
  /\ CountSwap(d)
  /\ UNCHANGED <<flipVars, screenVars, alive, front, back, pending_page_flips, events>>

\* "already pending a flip!": the request fails, and the command and its
\* references stay behind.
ScheduleRefused(d, c) ==
  /\ MayRequest(d)
  /\ pending_swaps[d] + 1 > 1
  /\ queued[d] # None
  /\ Allocate(c, d, "none")
  /\ UNCHANGED <<driVars, flipVars, coreVars, screenVars, pending_page_flips, events>>

ScheduleFlip(d, c) ==
  /\ MayRequest(d)
  /\ pending_swaps[d] + 1 <= 1
  /\ Allocate(c, d, "flip")
  /\ PageFlip(c, {})
  /\ pending_page_flips' = pending_page_flips + 1
  /\ CountSwap(d)
  /\ UNCHANGED <<queued, screenVars, alive, front, back, events>>

\* Dispatched as an exchange or a blit, the swap completes before the request
\* returns: the command is freed, its references dropped and both counts are
\* back where they were.  The queue is empty whenever fewer than two swaps are
\* pending (QueueNeedsTwo), so nothing else is dispatched.
ScheduleCopy(d) ==
  /\ MayRequest(d)
  /\ pending_swaps[d] + 1 <= 1
  /\ NoPageFlip({})
  /\ UNCHANGED <<driVars, heapVars, coreVars, screenVars, pending_page_flips, events>>

ScheduleSwap(d) ==
  \/ ScheduleCopy(d)
  \/ \E c \in Cmd : ScheduleQueued(d, c) \/ ScheduleRefused(d, c) \/ ScheduleFlip(d, c)

-----------------------------------------------------------------------------
(* page_flip_handler, called by drmHandleEvent for each event read from    *)
(* the DRM fd: by drmmode_notify_fd or drmmode_wakeup_handler while the    *)
(* server runs, by drmmode_wait_for_event while CloseScreen drains.        *)

Reading ==
  /\ events # <<>>
  /\ phase = "run" \/ (phase = "closing" /\ pending_page_flips > 0)

\* The flip still waits for another CRTC.
HandleCounted ==
  /\ Reading
  /\ LET p == Head(events)
     IN  /\ p \in Live
         /\ flip[p].flip_count > 1
         /\ flip' = [flip EXCEPT ![p].flip_count = @ - 1]
  /\ events' = Tail(events)
  /\ UNCHANGED <<driVars, heapVars, fb_id, fbs, pend, coreVars, screenVars,
                 pending_page_flips>>

HandleLast ==
  /\ Reading
  /\ LET p == Head(events)
     IN  /\ p \in Live
         /\ flip[p].flip_count <= 1
         /\ SwapComplete(flip[p].priv, {p})
  /\ events' = Tail(events)
  /\ UNCHANGED <<screenVars, alive, front, back>>

\* The event names freed memory: the handler decrements what it finds there,
\* and either stops at a positive count or follows a dangling command.
HandleFreed ==
  /\ Reading
  /\ Head(events) \notin Live
  /\ events' = Tail(events)
  /\ phase' \in {phase, "crashed"}
  /\ UNCHANGED <<driVars, heapVars, flipVars, coreVars, enabled, scan, pending_page_flips>>

HandleEvent == HandleCounted \/ HandleLast \/ HandleFreed

-----------------------------------------------------------------------------
(* The kernel: at vblank a CRTC starts scanning out the new framebuffer    *)
(* and the event becomes readable.                                         *)

Vblank(k) ==
  /\ pend[k] # None
  /\ scan' = [scan EXCEPT ![k] = pend[k].fb]
  /\ events' = Append(events, pend[k].data)
  /\ pend' = [pend EXCEPT ![k] = None]
  /\ UNCHANGED <<driVars, heapVars, flip, fb_id, fbs, coreVars, enabled, phase,
                 pending_page_flips>>

-----------------------------------------------------------------------------
(* The DRI2 module on behalf of clients *)

\* One reference less on each buffer of bs that is there (OMAPDRI2DestroyBuffer).
DropRefs(bs) == [b \in Buf |-> IF b \in bs THEN ref[b] - 1 ELSE ref[b]]

\* DRI2GetBuffers: OMAPDRI2CreateBuffer of a front and a back buffer, then
\* OMAPDRI2DestroyBuffer of the ones they replace.
GetBuffers(d, f, b) ==
  /\ phase = "run"
  /\ d \in alive
  /\ Fresh(f, Unused) /\ Fresh(b, Unused \ {f})
  /\ ref' = [DropRefs({front[d], back[d]}) EXCEPT ![f] = 1, ![b] = 1]
  /\ front' = [front EXCEPT ![d] = f]
  /\ back'  = [back EXCEPT ![d] = b]
  /\ UNCHANGED <<driVars, cmd, flipVars, alive, swapsPending, screenVars,
                 pending_page_flips, events>>

\* The last DRI2 client of the window leaves; the window, and the driver's
\* private record for it, stay.
Detach(d) ==
  /\ phase = "run"
  /\ front[d] # None
  /\ MayDetach \/ pending_swaps[d] = 0
  /\ ref' = DropRefs({front[d], back[d]})
  /\ front' = [front EXCEPT ![d] = None]
  /\ back'  = [back EXCEPT ![d] = None]
  /\ swapsPending' = [swapsPending EXCEPT ![d] = 0]
  /\ UNCHANGED <<driVars, cmd, flipVars, alive, screenVars, pending_page_flips, events>>

\* The window is destroyed: OMAPDRI2DrawableGone frees the private record, and
\* with it the only pointer to a queued command; the DRI2 module detaches.
DestroyWindow(d) ==
  /\ phase = "run"
  /\ d \in alive
  /\ alive' = alive \ {d}
  /\ pending_swaps' = [pending_swaps EXCEPT ![d] = 0]
  /\ queued' = [queued EXCEPT ![d] = None]
  /\ ref' = DropRefs({front[d], back[d]})
  /\ front' = [front EXCEPT ![d] = None]
  /\ back'  = [back EXCEPT ![d] = None]
  /\ swapsPending' = [swapsPending EXCEPT ![d] = 0]
  /\ UNCHANGED <<cmd, flipVars, screenVars, pending_page_flips, events>>

CreateWindow(d) ==
  /\ phase = "run"
  /\ d \notin alive
  /\ MayReuseXid \/ \A c \in InFlight : cmd[c].draw_id # d
  /\ alive' = alive \cup {d}
  /\ UNCHANGED <<driVars, heapVars, flipVars, swapsPending, front, back, screenVars,
                 pending_page_flips, events>>

-----------------------------------------------------------------------------
(* RandR: a CRTC is set (drmmode_set_mode_major ends in drmModeSetCrtc with *)
(* the current fb_id) or disabled, or the scanout buffer is replaced.  What  *)
(* the kernel may refuse of a mode set, and the buffer itself, are the       *)
(* module ModeSet.  The kernel puts a mode set behind the flip the CRTC      *)
(* still owes.                                                               *)

\* drmmode_restore_crtc makes a framebuffer when there is none.
AddFb(f) ==
  IF fb_id # None THEN f = fb_id ELSE Fresh(f, Fb \ fbs)

\* drmmode_set_mode_major of a CRTC, with the same kind of scanout buffer;
\* drmModeSetCrtc may be refused after the framebuffer was made.
SetCrtc(k) ==
  /\ phase = "run"
  /\ pend[k] = None
  /\ \E f \in Fb :
       /\ AddFb(f)
       /\ fb_id' = f
       /\ fbs' = fbs \cup {f}
       /\ \/ enabled' = enabled \cup {k} /\ scan' = [scan EXCEPT ![k] = f]
          \/ UNCHANGED <<enabled, scan>>
  /\ UNCHANGED <<driVars, heapVars, flip, pend, coreVars, phase, pending_page_flips, events>>

\* Mutant: drmmode_remove_fb does not reset fb_id.
ReplaceFbKeepsId(f, lit) ==
  /\ fb_id' = fb_id
  /\ fbs' = fbs \ {fb_id}
  /\ scan' = [k \in Crtc |-> IF pend[k] = None /\ scan[k] = fb_id THEN None ELSE scan[k]]
  /\ pend' = [k \in Crtc |-> IF pend[k] = None THEN None ELSE [pend[k] EXCEPT !.fb = None]]

\* drmmode_remove_fb of the current framebuffer, and drmmode_restore_crtc of the
\* CRTCs lit with the one that is made instead, f, if any is.  The kernel switches
\* off a CRTC that shows the framebuffer.  One that owes a flip to it does not
\* show it: it sends its event, and is then switched off or lit again.
ReplaceFb(f, lit) ==
  LET Shown(k, fb) == IF k \in lit THEN f ELSE IF fb = fb_id THEN None ELSE fb
  IN  /\ fb_id' = f
      /\ fbs' = (fbs \ {fb_id}) \cup ({f} \ {None})
      /\ scan' = [k \in Crtc |-> IF pend[k] = None THEN Shown(k, scan[k]) ELSE scan[k]]
      /\ pend' = [k \in Crtc |-> IF pend[k] = None THEN None
                                 ELSE [pend[k] EXCEPT !.fb = Shown(k, @)]]

\* drmmode_set_mode_major of a CRTC, the first one to be rotated or the last one
\* not to be: drmmode_reallocate_scanout, which restores the other CRTCs, goes
\* before.  Each framebuffer or CRTC may be refused by itself.
Rotate(k) ==
  /\ phase = "run"
  /\ \E f \in Fb \cup {None}, lit \in SUBSET (enabled \cup {k}) :
       /\ IF f = None THEN lit = {} ELSE Fresh(f, Fb \ (fbs \ {fb_id}))
       /\ ReplaceFb(f, lit)
       /\ enabled' = enabled \cup (lit \cap {k})
  /\ UNCHANGED <<driVars, heapVars, flip, coreVars, phase, pending_page_flips, events>>

\* drmmode_xf86crtc_resize: every CRTC stays switched off until it is set.
Resize ==
  /\ phase = "run"
  /\ ReplaceFb(None, {})
  /\ UNCHANGED <<driVars, heapVars, flip, coreVars, enabled, phase, pending_page_flips, events>>

\* drmmode_crtc_dpms does nothing: a disabled CRTC is only switched off with its
\* outputs, behind the flip it still owes.
DisableCrtc(k) ==
  /\ phase = "run"
  /\ k \in enabled
  /\ pend[k] = None
  /\ MayDisableAll \/ enabled # {k}
  /\ enabled' = enabled \ {k}
  /\ UNCHANGED <<driVars, heapVars, flipVars, coreVars, phase, scan,
                 pending_page_flips, events>>

-----------------------------------------------------------------------------
(* OMAPDRI2CloseScreen: the server has freed every client resource, and the *)
(* driver reads events until no page flip is pending.                       *)

MoveTo(next) ==
  /\ phase' = next
  /\ UNCHANGED <<driVars, heapVars, flipVars, coreVars, enabled, scan,
                 pending_page_flips, events>>

BeginClose == phase = "run" /\ alive = {} /\ MoveTo("closing")

\* Mutant: CloseScreen does not wait.
FinishCloseEarly == phase = "closing" /\ MoveTo("closed")

FinishClose == phase = "closing" /\ pending_page_flips <= 0 /\ MoveTo("closed")

\* Nothing more happens to a screen that is closed or a server that died.
Stopped ==
  /\ phase \in {"closed", "crashed"}
  /\ UNCHANGED vars

-----------------------------------------------------------------------------
Init ==
  /\ pending_swaps = [d \in Window |-> 0]
  /\ queued = [d \in Window |-> None]
  /\ cmd = [c \in Cmd |-> None]
  /\ ref = [b \in Buf |-> 0]
  /\ flip = [p \in Flip |-> None]
  /\ pending_page_flips = 0
  /\ Fresh(fb_id, Fb)
  /\ enabled = Crtc
  /\ phase = "run"
  /\ alive = {}
  /\ swapsPending = [d \in Window |-> 0]
  /\ front = [d \in Window |-> None]
  /\ back = [d \in Window |-> None]
  /\ fbs = {fb_id}
  /\ scan = [k \in Crtc |-> fb_id]
  /\ pend = [k \in Crtc |-> None]
  /\ events = <<>>

Client ==
  \E d \in Window :
    \/ ScheduleSwap(d)
    \/ \E f, b \in Buf : GetBuffers(d, f, b)
    \/ Detach(d)
    \/ DestroyWindow(d)
    \/ CreateWindow(d)

RandR == Resize \/ \E k \in Crtc : SetCrtc(k) \/ Rotate(k) \/ DisableCrtc(k)

Kernel == \E k \in Crtc : Vblank(k)

Next ==
  \/ Client
  \/ RandR
  \/ Kernel
  \/ HandleEvent
  \/ BeginClose
  \/ FinishClose
  \/ Stopped

Spec == Init /\ [][Next]_vars

\* Vblanks keep coming, and a CRTC that is switched off sends the event it owes;
\* the server's main loop reads a readable fd, and the loop in CloseScreen ends
\* when its condition fails.  Clients owe nothing.
Fairness ==
  /\ \A k \in Crtc : WF_vars(Vblank(k))
  /\ WF_vars(HandleEvent)
  /\ WF_vars(FinishClose)

FairSpec == Spec /\ Fairness

-----------------------------------------------------------------------------
(* Properties *)

\* The types of the variables.
TypeOK ==
  /\ pending_swaps \in [Window -> Int]
  /\ queued \in [Window -> Cmd \cup {None}]
  /\ cmd \in [Cmd -> CmdRec \cup {None}]
  /\ ref \in [Buf -> Int]
  /\ flip \in [Flip -> FlipRec \cup {None}]
  /\ pending_page_flips \in Int
  /\ fb_id \in Fb \cup {None}
  /\ enabled \in SUBSET Crtc
  /\ phase \in {"run", "closing", "closed", "crashed"}
  /\ alive \in SUBSET Window
  /\ swapsPending \in [Window -> Int]
  /\ front \in [Window -> Buf \cup {None}]
  /\ back \in [Window -> Buf \cup {None}]
  /\ fbs \in SUBSET Fb
  /\ scan \in [Crtc -> Fb \cup {None}]
  /\ pend \in [Crtc -> PendRec \cup {None}]
  /\ events \in Seq(Flip)

\* "Pending page flips we are waiting for" (omap_driver.h): the counter that
\* CloseScreen spins on is the number of flips whose command has not completed,
\* through every nesting of completion and dispatch and every failed flip.
FlipsCounted == pending_page_flips = Cardinality(Live)

\* Each flip under way belongs to one allocated command of type flip, and each
\* queued command to one drawable; no command is in two places, so no command
\* is completed or freed twice.
CommandsOwned ==
  /\ \A p \in Live : flip[p].priv \in Allocated /\ cmd[flip[p].priv].type = "flip"
  /\ \A p, q \in Live : flip[p].priv = flip[q].priv => p = q
  /\ \A d \in Window : queued[d] # None =>
       /\ queued[d] \in Allocated
       /\ cmd[queued[d]].draw_id = d
       /\ cmd[queued[d]].type = "none"

\* A command waits in the queue only while two swaps of its drawable are
\* pending, itself and the one it waits for; without the latter nobody would
\* ever dispatch it.
QueueNeedsTwo == \A d \in Window : queued[d] # None => pending_swaps[d] >= 2

\* The reference counts of omap_dri2.c: a buffer's refcnt is the number of
\* places that hold it, the drawable it is attached to and the commands that
\* read or write it, so it is freed at the last release and never before.
RefsBalanced ==
  \A b \in Buf :
    ref[b] = Cardinality({d \in Window : front[d] = b})
               + Cardinality({d \in Window : back[d] = b}) + Holds(Allocated, b)

\* "obtain extra ref on buffers to avoid them going away while we await the
\* page flip event" (ScheduleSwap): whatever event the kernel still owes or has
\* sent, its flipdata is there, its command too, and both buffers are alive.
AwaitedBuffersHeld ==
  \A p \in Flip : Outstanding(p) > 0 =>
    /\ p \in Live
    /\ flip[p].priv \in Allocated
    /\ ref[cmd[flip[p].priv].src] > 0
    /\ ref[cmd[flip[p].priv].dst] > 0

\* A flip that is counted as pending has an event on its way for each CRTC it
\* still waits for, and waits for at least one.
FlipsAwaitEvents ==
  \A p \in Live : flip[p].flip_count = Outstanding(p) /\ flip[p].flip_count > 0

\* Framebuffers are neither leaked nor removed twice: those that exist are the
\* current one and, for each flip under way, the one its handler will remove,
\* though the current one may be removed, and made again under another or the
\* same id, while flips to it are under way.
FbsAccounted ==
  /\ fbs = ({fb_id} \cup OldFbs(Live)) \ {None}
  /\ fb_id # None => fb_id \notin OldFbs(Live)
  /\ \A p, q \in Live :
       flip[p].old_fb_id = flip[q].old_fb_id /\ flip[p].old_fb_id # None => p = q

\* "Fix issue with flipping that would result in deleting kms fb_id while it
\* was being scanned out" (NEWS, 0.4.0): no flip that completes removes a
\* framebuffer that an enabled CRTC shows, or is about to flip to.  Only the
\* replacement of the scanout buffer takes it from the CRTCs, which the kernel
\* switches off (None) until they are lit again.
ScanoutAlive ==
  \A k \in Crtc :
    /\ k \in enabled => scan[k] \in fbs \cup {None}
    /\ pend[k] # None => pend[k].fb \in fbs \cup {None}

\* CloseScreen leaves nothing behind that a later event could reach.
ClosedIsQuiet ==
  phase = "closed" =>
    /\ Live = {}
    /\ \A k \in Crtc : pend[k] = None
    /\ events = <<>>

\* "pending swaps on this drawable" (OMAPDRI2DrawableRec): the counter is the
\* number of this drawable's commands under way or queued.
PendingSwapsCounted ==
  \A d \in alive :
    pending_swaps[d] = Cardinality({c \in InFlight \cup Waiting : cmd[c].draw_id = d})

\* The DRI2 module's throttle and the driver's counter agree, so that the
\* module stops the client before the one-deep queue overflows.
ThrottleInStep ==
  \A d \in Window : front[d] # None =>
    /\ swapsPending[d] = pending_swaps[d]
    /\ swapsPending[d] <= SwapLimit

\* A step loses a command (allocated, but neither in flight nor queued) only by
\* destroying the window whose queue it was in.
OnlyDestroyOrphans ==
  [][\A c \in Allocated' :
       \/ c \in InFlight' \cup Waiting'
       \/ c \in Allocated \ (InFlight \cup Waiting)
       \/ cmd'[c].draw_id \in alive \ alive']_vars

\* A flip completes: its command is retired once the CRTCs have flipped.
FlipsComplete == \A p \in Flip : p \in Live ~> p \notin Live

\* The wait loop of CloseScreen ends.
CloseReturns == phase = "closing" ~> phase = "closed"

-----------------------------------------------------------------------------
(* What the swap engine promises the DRI2 module, as SwapOrder states it.   *)

InFlightOf(d) == {c \in InFlight : cmd[c].draw_id = d}

\* The swaps of a window in the order they were scheduled.
SwapsOf ==
  [d \in Window |->
     IF d \notin alive THEN <<>>
     ELSE (IF InFlightOf(d) = {} THEN <<>> ELSE <<CHOOSE c \in InFlightOf(d) : TRUE>>)
            \o (IF queued[d] = None THEN <<>> ELSE <<queued[d]>>)]

Order == INSTANCE SwapOrder WITH order <- SwapsOf

\* The swap engine implements SwapOrder: whatever the flips, copies and nested
\* dispatches in between, the swaps of a window are reported in the order they
\* were scheduled, once each, and none that stays scheduled is forgotten.
OrderFairSpec == Order!FairSpec
=============================================================================
