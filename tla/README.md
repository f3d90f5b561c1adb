# xf86-video-omap in TLA+

A verification project for the X.Org driver of the OMAP display controller, kept
beside its C code: modules translated from the source, TLC configurations that
check them on small instances, and theorems about them that TLAPS checks for
every value of the constants. Paths below are relative to `src/src/`.

## 1. The system

The driver runs inside the X server, which is single threaded: a request, a
RandR call or an event handler runs to completion before the next begins. What
runs beside it is the kernel (page flips that finish at vblank, their events in
a file descriptor), the GPU, and the clients that decide what is called next.

| Component | State it keeps | Operations | Correct when |
|---|---|---|---|
| DRI2 swap engine (`omap_dri2.c`) | per drawable `pending_swaps` and a one-deep queue `cmd`; per buffer `refcnt`; per screen `pending_page_flips`; the swap commands | CreateBuffer, DestroyBuffer, ScheduleSwap, SwapDispatch, SwapComplete, DrawableGone, CloseScreen | every swap is completed once and in order; buffers outlive the flips that use them; CloseScreen returns |
| KMS page flipping (`drmmode_display.c` 1310-1408, 1495-1540) | `fb_id`, one `flipdata` per flip with a count of CRTCs | page_flip, page_flip_handler, reading the DRM fd | the last event of a flip, and only it, completes it; no framebuffer is removed while shown, or leaked |
| KMS mode setting and rotation (`drmmode_display.c` 215-408) | mode, position and rotation per CRTC, `rotated_crtcs` | set_mode_major, restore_crtc, dpms, set_rotation | a failed mode set leaves what was there before |
| Scanout buffer (`drmmode_display.c` 1122-1232, `omap_driver.c` 235-251) | `pOMAP->scanout` with its size and rotation | reallocate_scanout, xf86crtc_resize, map and unmap | there is one, everyone agrees which, and it is deleted once |
| Hardware cursor (`drmmode_display.c` 410-593) | one overlay plane for all CRTCs, its position and visibility | show, hide, move, load | the plane shows the part of the cursor that lies on the CRTC, at its place |
| Outputs, properties, hotplug (`drmmode_display.c` 666-1112, 1410-1500) | a snapshot of each connector; udev monitor | detect, get_modes, dpms; property get and set; uevents | a change the driver is told of reaches RandR |
| Driver lifecycle (`omap_driver.c`) | `OMAPRec`, wrapped screen functions, DRM master | PreInit, ScreenInit, CloseScreen, EnterVT, LeaveVT, FreeScreen | teardown runs in an order in which nothing is used after it is freed |
| EXA pixmaps (`omap_exa.c`) | per pixmap its buffer object, private record and flags | CreatePixmap, ModifyPixmapHeader, DestroyPixmap, exchange, PrepareAccess, FinishAccess | a buffer object has one owner |
| PVR mappings and buffer cache (`omap_exa_pvr.c` 206-556) | `map_list`, `scanout_priv`, `bo_list` and three counters | map, unmap, LRU, cache put, get and remove, CloseScreen | lists, counters and pixmaps agree; the cache stays within its limit |
| PVR drawing (`omap_exa_pvr.c` from 558, `omap_pvr_sgx*.c`) | the current solid, copy or composite operation with arrays of rectangles | prepare, draw, done; flush when full | no rectangle is lost or written past the array |
| Xv video (`omap_xv.c`) | the port's pixmaps and clip | PutImage, query, stop | plane sizes and offsets fit the buffers |
| PVR services (`omap_pvr_helpers.c`), shader code (`omap_pvr_use.c`), null EXA (`omap_exa_null.c`) | reference count and handles of the services; loaded code | initialise and release; refusals | what a failure half way leaves behind can be used or is given back |

How they interact. A DRI2 swap calls page flipping, which hands the swap command
to the kernel as the user data of an event. The main loop reads the fd,
`page_flip_handler` calls back into SwapComplete, and SwapComplete may dispatch
the queued swap *inside* the handler, which may flip again or complete at once.
A flip or exchange swaps the buffer objects of the screen pixmap and a back
pixmap (`OMAPPixmapExchange`), after which `pOMAP->scanout` is a back pixmap's
buffer; reallocation of the scanout buffer, destruction of pixmaps and the PVR
caches all compare with `pOMAP->scanout`. CloseScreen reads events itself until
no flip is pending. Every drawing operation maps its pixmaps for the GPU, draws in
batches and marks them `is_gpu`; the CPU, another operation and the panel's update
wait on that mark.

What is hard here: the nested completion; several CRTCs that each send an event
for one flip, with mode sets in between; windows that vanish or return under the
same XID while a flip pends; a flip that fails on the second CRTC; counters and
references kept by hand at many places; buffers whose owner changes under the
pixmap that created them; a mode set, a ScreenInit or a draw that fails half way;
a mark of GPU use that mappings, evictions and exchanges move about. `PROJECT.json` lists the hazards at their lines.

## 2. Modules

| Module | What it is |
|---|---|
| `SwapOrder` | abstract: the swaps of a window are reported in the order they were scheduled, once each, at most `SwapLimit` outstanding |
| `Dri2Swap` | swap engine and page flipping, with the kernel, clients and RandR; refines `SwapOrder` |
| `MCDri2Swap` | symmetry for TLC |
| `Dri2SwapProofs` | theorems about `Dri2Swap`: types, the flip counter, who owns a command |
| `Dri2FlipProofs` | theorems about its buffers, framebuffers and events |
| `Dri2OrderProofs` | theorems about the count and the order of swaps; the steps of `Dri2Swap` are steps of `SwapOrder` |
| `PvrBuffers` | buffer objects: pixmaps, mappings, the cache of freed buffers, the scanout buffer |
| `MCPvrBuffers` | symmetry for TLC |
| `PvrBuffersProofs`, `PvrListsProofs` | theorems: who owns buffers and records; lists, counters and the mappings in use |
| `Geometry` | strides of linear and tiled buffers |
| `ModeSet`, `MCModeSet`, `ModeSetProofs` | mode setting, rotation and the scanout buffer behind it; small sizes; theorems |
| `PvrRender` | solid, copy and composite operations, GPU and CPU access, panel updates |
| `XvVideo` | video ports, composed with `PvrRender`, to which they draw |
| `MCVideo`, `VideoProofs` | small requests and images; theorems about `PvrRender` and `XvVideo` |
| `CursorPlane` | the cursor plane and the server's calls for each CRTC |
| `Outputs` | connectors, snapshots, one property, hotplug events, RandR's view |
| `ScreenLifecycle` | the life of a screen, composed with `CursorPlane` and `Outputs` |
| `MCLifecycle`, `LifecycleProofs` | two CRTCs and three pointers; theorems |

### Dri2Swap and the code

Variables carry the source's names where it has one: `pending_swaps` and
`queued` (`pPriv->cmd`) per window, `cmd`, `ref` and `flip` for the heap,
`pending_page_flips`, `fb_id`, `enabled`. The rest is the environment:
`alive`, `swapsPending`, `front`, `back` for the DRI2 module, `fbs`, `scan`,
`pend`, `events` for the kernel. Heap addresses are members of finite sets and
are reused once freed, so a stale pointer can meet a new object.

| Action | Code |
|---|---|
| `ScheduleQueued`, `ScheduleRefused`, `ScheduleFlip`, `ScheduleCopy` | OMAPDRI2ScheduleSwap with the SwapDispatch it calls: the swap waits, overflows the queue, flips, or is exchanged or copied and completes at once |
| `HandleCounted`, `HandleLast` | page_flip_handler for an event that is not, or is, the last of its flip; the latter includes SwapComplete and whatever it dispatches (`CompleteLast`, `CompleteThenFlip`, `CompleteBoth`, `CompleteOrphan`) |
| `HandleFreed` | the handler reads freed memory: it decrements something and either returns or follows a dangling pointer (`phase = "crashed"`) |
| `GetBuffers`, `Detach`, `DestroyWindow`, `CreateWindow` | CreateBuffer and DestroyBuffer as the DRI2 module calls them, DrawableGone, XIDs |
| `SetCrtc`, `DisableCrtc` | mode setting, as far as flips see it: drmmode_set_mode_major with its restore_crtc, which makes a framebuffer when there is none; drmmode_crtc_dpms, which does nothing |
| `Rotate`, `Resize` | drmmode_set_mode_major of the first CRTC to be rotated or the last one not to be, and drmmode_xf86crtc_resize: drmmode_reallocate_scanout removes the current framebuffer (`ReplaceFb`), to which flips may be under way |
| `Vblank` | the kernel completes a flip and queues its event |
| `BeginClose`, `FinishClose` | the loop of OMAPDRI2CloseScreen |

An exchange and a blit differ only in buffer contents, so they are one action.
`FlipAll`'s loop over the CRTCs is one step, with `LateFailure` for a loop that
stops in the middle. The removal of a framebuffer switches off the CRTCs that show
it: what they scan out is `None` until they are lit again. A CRTC that owes a flip
finishes it and sends its event, and is then switched off, or lit with the new
framebuffer. The kernel puts every mode set behind the flip the CRTC owes, so
`SetCrtc` and `DisableCrtc` wait for it; `Rotate` records in `pend` what the CRTC
will show. What else the kernel may refuse of a mode set, and the scanout buffer
itself, are `ModeSet`'s. The DRI2 module's throttle (`MayRequest`) stops a client
at the swap limit, as `DRI2SwapBuffers` does.

Four constants say what the environment may do beyond the ordinary:
`MayDetach` (the last DRI2 client of a window leaves with swaps pending, so the
DRI2 module forgets its count and the driver does not), `MayReuseXid`,
`MayDisableAll` (no CRTC enabled), `MayFailLate` (drmModePageFlip fails after an
earlier CRTC took the flip). A reallocation that lights some CRTCs again and
leaves others dark is a cause of a late failure too: without `MayFailLate` a flip is
refused there before any CRTC takes it. Each constant breaks some property of the code as it is, so
each run states which it admits, and each theorem which it excludes.

### PvrBuffers and the code

`pix` is the driver's private part of each pixmap (`bo`, `priv`, `flags`);
`size` the buffer objects that exist; `mapped` and `privs` the PrivPixmapRecs;
`map_list`, `map_count`, `bo_list`, `bo_count`, `bo_size` and `scanout_priv` are
those of `PVRRec`; `scanout` is `pOMAP->scanout`. `operands` holds the pixmaps
mapped for the GPU operation under way, between prepare and done. Sizes are
pages.

| Action | Code |
|---|---|
| `MapHit`, `MapMiss`, `MapFails`, `Done` | sgxMapPixmapBo with the LRU, from Prepare to Done of an operation |
| `CreateCached`, `CreateNew`, `Grow` | CreatePixmap and sgxModifyPixmapHeader, with the cache's put, get and eviction |
| `DestroyToCache`, `DestroyAndFree` | sgxDestroyPixmap and OMAPDestroyPixmap |
| `Exchange` | exchangebufs when a full-screen swap flips or exchanges |
| `ReplaceFront` | CreateBuffer giving the screen pixmap a scanout-capable buffer when there is no DMM |
| `Resize`, `Rewrap` | the two branches of drmmode_reallocate_scanout |
| `Close` | the PVR module's CloseScreen, then OMAPUnmapMem |

`MayResizeFlipped` lets RandR resize while the screen pixmap holds a flipped
buffer, `MayFlipPlain` lets a back buffer created without the scanout hint be
exchanged with the screen's. The code is wrong in both cases (section 4), so the
passing run excludes them: it shows that everything else keeps its books.

### ModeSet and the code

`conf` is what the server holds of each CRTC, `rotation` and `rotated_crtcs` what
the driver counts, `hwRotation` the kernel's property, and `kms` the buffers: the
scanout with its size and kind, the framebuffer, the root pixmap's header, and
what the hardware shows.

| Action | Code |
|---|---|
| `SetMode` | drmmode_set_mode_major: `Count`, `Prepared` (the reallocation and the CRTCs lit again), set_rotation, restore_crtc, and the configuration put back on failure |
| `AdjustFrame` | drmmode_adjust_frame |
| `Disable` | a CRTC switched off by the server; drmmode_crtc_dpms does nothing |
| `Resize` | drmmode_xf86crtc_resize, with the server's EnableDisableFBAccess around it |
| `ScreenInit`, `CloseScreen` | OMAPMapMem and CreateScreenResources, OMAPUnmapMem |

Every request to the kernel and the allocator may be refused. Within one call
drmModeAddFB either succeeds or fails throughout. Whether the kernel accepts a
position or a size is part of its nondeterministic answer. Use of a NULL scanout
buffer, which a failed allocation leaves, ends the server (`phase = "crashed"`).

### PvrRender, XvVideo and the code

A record and the mapping in it travel with their buffer, so both are indexed by
the buffer; where mappings are listed and evicted is `PvrBuffers`, of which
`Evict` is the effect here. `gpu.writing` is what the GPU has still to write,
`gpu.stale` that a manually updated panel does not show the screen pixmap; both
exist only in the model. `owed` holds the requests accepted since the last flush,
and `lost` whether the last flush gave the GPU all of them. `gpu.wild` says that a
record was written to after it was freed: sgxWaitPixmap unmarks the record it looked
up before the wait (line 180), and the wait frees it (line 301) when a mapping that
was taken cannot be made again. From then on `Fault` may end the server at any step.

`device.refuses`, which never changes, says what the services are capable of refusing:
`MayRefuse`, to draw a rectangle of a batch or to map a composite's pixmaps when it is
flushed, after which the driver gives up the rest of the batch; `MayFailWait`, to map
again a pixmap that is waited for, or to answer PVR2DQueryBlitsComplete, which is only
logged. Each property names the one that breaks it. That preparing an operation fails
to map its pixmaps is always possible.

| Action | Code |
|---|---|
| `PrepareSolid`, `Solid`, `PrepareCopy`, `Copy`, `CheckComposite`, `Composite` | the EXA hooks, from the mapping of the pixmaps to the flush of a full batch (`NextBatch`) |
| `Done` | sgxDoneSolid, sgxDoneCopy, sgxDoneComposite: the rest of the batch (`Flushed`, `LeaveOut`), the mark, the panel |
| `PrepareAccess`, `FinishAccess` | sgxPrepareAccess and sgxFinishAccess around the CPU's use |
| `Complete`, `Evict`, `Flip` | the GPU finishes; a mapping is dropped, which returns only when the GPU is done; a swap exchanges buffers |
| `PutImage`, `StopVideo` | OMAPVideoPutImage with its planes and the texture drawn from them, OMAPVideoStopVideo |

Clipping, clamping and bounding boxes are computed as the code does. Which
pictures are accelerated follows from what the check looks at and which programs
are loaded (`Code`). Pixel formats beyond that, raster operations and colours are
data and left out, as are the bounding box of solids, which nothing reads, and the
source rectangle of a video. How many of a batch's composites reach the GPU before
one is refused is nondeterministic (`Taken`). Composites are compiled out by default:
`USE_HW_COMPOSITING` is defined nowhere, and sgxCheckComposite then refuses all of
them (lines 1372-1382) and waits for none: that build has the behaviours in which
nobody asks for a composite. An image clipped to several boxes is
put once.

### ScreenLifecycle, CursorPlane, Outputs and the code

`drv` is what the driver holds and the options that decide it: `Needs` says what
each resource is used with. `InitEXA`, `AccelInit`, `CursorInit` and
`ScreenHandlers` take a record to the set of records that the call of that name may
leave, by succeeding or failing at any of its steps; `ScreenInit` and
`ScreenInitFails` put them together.

| Action | Code |
|---|---|
| `Probed`, `PlatformProbed`, `PreInit`, `PreInitFails` | OMAPProbe, OMAPPlatformProbe, OMAPPreInit, with drmmode_pre_init and output_init |
| `ScreenInit`, `ScreenInitFails`, `CloseScreen`, `FreeScreen` | the functions of those names in `omap_driver.c`, with all they call in the other files |
| `ScreenInitDies`, `CloseScreenDies`, `OutputDies` | the same and the output functions where they follow a NULL or stale pointer: the process ends and the kernel takes everything back (`Die`) |
| `LeaveVT`, `EnterVT`, `Flip` | the terminal and the DRM master; a flip as `Dri2Swap` models it |
| `Hotplug`, `Kernel`, `Client` | drmmode_handle_uevents; changes and events; RandR requests and properties |
| `Cursor` | the server's xf86Cursor layer calling each CRTC in order |

What is the server's and not the driver's is modelled from how it uses the driver
and marked external: it hides, moves, loads and shows the cursor CRTC by CRTC
and remembers which of them show it; it probes outputs only while the terminal is
its own; it ends on a failed EnterVT; it calls FreeScreen after a PreInit or
ScreenInit that failed. The socket of the udev monitor drops an event it has no room
for, and udev_monitor_receive_device may return NULL for one that was there.
`missed` is a history variable: the connectors whose last change was not announced,
whose announcement was lost, or which was announced while nobody could look.

## 3. Runs

| Run | Instance | Shows |
|---|---|---|
| `swap_tame` | 2 windows, 1 CRTC, 3 commands, 4 buffers, fair | counters agree with commands (`PendingSwapsCounted`, `ThrottleInStep`), a command is lost only with its window (`OnlyDestroyOrphans`), flips complete, CloseScreen returns, and `Dri2Swap` implements `SwapOrder` with its fairness |
| `swap_two_crtcs` | 2 windows, 2 CRTCs switched by RandR, 3 commands, 2 flips, 3 framebuffers | flipdata, command and buffers are there while an event is owed; flips wait for exactly the events on their way; while rotations and resizes remove the current framebuffer with flips to it under way, framebuffers neither leak nor are removed twice, and no completing flip removes one that is shown; nothing is owed after close |
| `swap_partial` | 1 window, 2 CRTCs, 4 commands and buffers, all May constants but `MayDisableAll` | types, `QueueNeedsTwo`, `pending_page_flips`, the ownership of commands and the references of buffers survive flips that fail half way, an overflowing queue and reused XIDs |
| `swap_no_crtc` | 1 window, 1 CRTC that may be disabled | violation of `FlipsAwaitEvents` |
| `swap_late_failure` | 1 window, 2 CRTCs | violation of `AwaitedBuffersHeld` |
| `pvr_tame` | screen pixmap and 2 others, 4 buffers of 1 or 2 pages, 3 records, LRU limit 1, cache of 3 pages, no DMM | lists and counters agree with the mappings and the cache, every buffer and every record has one owner and none is used after it is freed, a record maps the buffer it travels with, a copy's second mapping never unmaps its first |
| `pvr_resize_flipped` | the same, with `MayResizeFlipped` | violation of `BuffersExist` |
| `pvr_plain_back` | the same, with `MayFlipPlain`, cache of 1 page | violation of `BuffersExist` |
| `modes` | 2 CRTCs, one mode, two positions of the first, 2 rotations, 2 screen sizes | the count of rotated CRTCs, kind and size of the scanout buffer, framebuffer, root pixmap and lit CRTCs agree after any failure; a reallocation lights the other CRTCs again (`OthersRelit`) |
| `render` | screen and window of 1 by 2, batches of 2, 2 requests of each kind, 4 pictures, even images of 2 formats, services that refuse to draw and services whose waits fail | the batch holds each request accepted since the last flush once and in its place, never past the array or the surface (`BatchKept`); if nothing flushed is refused, each flush gives the GPU all of it (`NothingLost`); if no wait fails, the CPU never touches what the GPU still writes (`AccessAfterGpu`) and the panel is fresh whenever nothing is under way (`PanelFresh`); the planes of a port fit each other (`PlanesInStep`) |
| `xv_odd` | the same, images 64 and 65 wide | violation of `PlanesInStep` |
| `lifecycle` | CRTCs of 3 by 2 and 2 by 2 side by side, cursor of 2 by 2, 3 pointers, 1 connector, room for 1 event, 2 generations | what the driver holds can be used (`InUseIsHeld`), the plane is the cursor (`CursorShown`), changes whose announcement is not lost reach RandR (`HotplugSeen`) |

Why the bounds suffice. A drawable has at most two swaps pending (three with the
overflow), a flip touches at most the flip before it and the one it dispatches,
and the handler compares a count with one: two windows, two CRTCs and two or
three flips reach every nesting. Three commands fill one window's queue while the other
swaps, four let a command leak and its window swap on. Two flips under way and the
current framebuffer are three ids, and a replacement takes one of those that are
left, or the one it has just given up. All CRTCs are disabled in `swap_no_crtc` and in
the theorems only. Where the number of free addresses runs out, allocation simply waits;
each instance has enough for every action to happen. In `PvrBuffers` the LRU
limit of 1 makes every second mapping evict, three pages make the cache keep
several buffers, evict one or two at a time, and serve `Grow` from what it keeps,
and four buffers let scanout, screen, back and cache be four. In `ModeSet` two CRTCs are enough
for the count to go from none to one to both and back and for a reallocation to
darken another CRTC; the widths 33 and 70 are no multiples of an alignment, so that
what is rounded differs from what is asked; the second CRTC stays where it is.
In `PvrRender` batches of two are flushed by the third request and by the end of an
operation, and a third that follows shows what the flush left behind; the requests begin
inside, before and past the surface; a width of one lets pictures repeat. In
`ScreenLifecycle` a second generation is the first that meets what an earlier one
left, and the driver keeps nothing that tells a third from it; the pointers touch
each edge of each CRTC and lie on both at once. `EventSpace` bounds
late failures only: each leaves an event behind, and the kernel, which keeps a
limited number for one file, refuses the flip when they have piled up. It is zero
where no late failure happens, and two, a fresh pair for two CRTCs, where one may.

`LowestFirst` makes allocation take the lowest free address; addresses are
interchangeable as long as nothing dangling is left, which the same runs check,
so this drops only equivalent states. `pvr_resize_flipped` takes any address
instead: there the reuse of an address would hide the dangling pointer. Windows,
flips and the pixmaps other than the screen's are symmetric model values in runs
that check only invariants; the run with temporal properties uses no symmetry.

`CHECK_DEADLOCK FALSE` is set where the system really stops: in `swap_partial`
(after a leak all commands may be gone, and with a flip that nothing completes
CloseScreen waits for ever), and in `modes`, `render` and `xv_odd`, where a NULL
pointer that is followed ends the server. In the other passing runs an ended system
stutters explicitly (`Stopped`, `Ended`) and any other halt is an error.

Fairness (`FairSpec`): weak fairness of each CRTC's vblank, because the display
keeps refreshing; of `HandleEvent`, because the server's main loop, and the loop
of CloseScreen, read a readable fd; and of `FinishClose`, because a `while` loop
whose condition is false ends. Clients and RandR owe nothing: no swap, resize or
disconnect is ever assumed to come. In `ScreenLifecycle` the one fairness is that of
`Hotplug`, weak: the server's loop dispatches a descriptor that has something to
read. `ModeSet` and `PvrRender` have no liveness: every call runs to its end, and
what the GPU or the kernel completes is waited for inside the call.

## 4. Findings

- `swap_no_crtc`: with no CRTC enabled, drmmode_page_flip succeeds without asking
  for an event. The swap pends for ever and CloseScreen spins.
- `swap_late_failure`: when the flip fails on a later CRTC, the flipdata of the
  event an earlier CRTC still owes is freed, and the buffers' references dropped.
- `pvr_resize_flipped`: after an odd number of flips a resize deletes the buffer a
  back pixmap holds, and forgets the one the screen pixmap held.
- `pvr_plain_back`: a back buffer created while its window could not flip, and
  swapped when it can, leaves with the scanout buffer; the cache of freed buffers
  takes that and deletes it.
- `xv_odd`: an image that grows by an odd pixel makes the first plane anew and keeps
  the two others, whose pitch the GPU then takes to be half of another.

Each is a `violation` run whose trace is the scenario; `PROJECT.json` quotes the
comment it contradicts.

Met while modelling, and in the models as the code has them, but contradicted by no
line of the repository or out of the instances above:

- *Lifecycle.* CloseScreen drops the EXA before the flips are waited for
  (`omap_driver.c` 935-945), whose completions then destroy pixmaps without it
  (`CloseDies`). `uevent_handler` is never cleared, so the second CloseScreen without
  a monitor follows it again. Without KMS resources PreInit goes on and ScreenInit
  uses the first CRTC there is not. A failed InitPowerVREXA keeps the services and
  the shader code, FreeScreen after a CloseScreen never gives the services back, and a
  failed ScreenInit leaves the scanout buffer, framebuffer and cursor to the next. A
  refused drmModeGetConnector leaves a NULL snapshot that the next use follows.
- *Cursor.* One plane serves all CRTCs: when the pointer goes from the second to the
  first, hiding it on the second takes it off the first, where the server believes it
  shown; loading an image moves it to the last CRTC. In a later generation
  drmmode_cursor_init returns before xf86_cursors_init, and the plane stays as it was.
- *Outputs.* A hotplug event read while another terminal is active is lost, as is one
  that finds the socket full or that udev does not hand over: nothing else makes the
  driver look. A property
  set while the terminal is away is reported as the older snapshot has it.
- *Mode setting.* A rotated CRTC that is switched off stays counted. A mode set that
  fails after the scanout was reallocated puts back neither the kernel's rotation nor
  the CRTC's light, and a resize leaves all CRTCs dark until they are set again.
- *Flips and mode sets.* A rotation or a resize removes the current framebuffer without
  waiting for the flips to it. The kernel then switches the CRTC off as soon as it has
  shown it; a reallocation for a rotation lights it again, a resize does not.
- *Drawing.* A flush that is refused part way (`omap_exa_pvr.c` 879, 897, 1127, 1149,
  `omap_pvr_sgx.c` 563) logs the error and resets the batch: the rectangles after the
  refused one are never drawn, and EXA is not told. When PVR2DQueryBlitsComplete fails
  (149), what waited goes on: the CPU uses a pixmap the GPU still writes, and the panel
  is sent the screen before it is drawn and stays stale. When the mapping a wait needs
  cannot be made again, sgxWaitPixmap writes to a record that has been freed (180, 301).
  A composite whose destination can no longer be mapped is marked through a
  NULL record. Some accepted composites are never drawn (rotated Src without a mask,
  masks with a transform), and clamped rather than clipped left of the surface.
  `omap_pvr_sgx.c` 285 assigns the operator in a comparison's place. Sources of copies
  and video planes are never marked, so the CPU does not wait for their readers.
  `omap_pvr_helpers.c` 127 indexes `dev_ids` with the counter of the loop over heaps.

## 5. Proofs

Every theorem is proved for every value of the constants its module declares, under
the assumptions named there, which TLC evaluates in the runs, and under what the
theorem itself excludes.

### Swaps and flips

`Dri2SwapProofs` proves, for any finite sets of windows, commands, buffers, flips and
framebuffers, any number of CRTCs and all values of the May constants:

| Theorem | Statement |
|---|---|
| `TypeCorrect` | `Spec => []TypeOK` |
| `CounterExact` | `Spec => []FlipsCounted`: `pending_page_flips` is the number of flips under way |
| `NoDoubleCompletion` | `Spec => []CommandsOwned`: no command is owned twice, so none completes or is freed twice |
| `QueueHasTrigger` | `Spec => []QueueNeedsTwo`: a queued swap has another to wait for |
| `CloseDrains` | `Spec => [][FinishClose => Live = {}]_vars`: when the loop in CloseScreen ends, no flip is under way |

Assumptions: `SetsAssumption` and `NumbersAssumption` of `Dri2Swap`, which say
that addresses are numbers in finite sets, NULL is none of them, there is a CRTC,
the windows are finitely many (clients hold finitely many XIDs) and the swap limit is
1 or 2.

The inductive invariant is `IInv`: types, that front and back buffers come and go
together, and the three ownership properties at once. They need each other: that
the counter is exact after a completion needs the completed command to be of type
`"flip"` (CommandsOwned), which after the nested dispatch needs the queued command
to be distinct from it and still of type `"none"`; that the queue is empty when
`pending_swaps` falls to zero is QueueNeedsTwo, whose preservation by
SwapComplete needs the queue to be emptied by the dispatch. There is a lemma per
building block of a step (page flip, completion, allocation) and per action; the
theorems `Base` and `Step` put them together.

`Dri2FlipProofs` and `Dri2OrderProofs` build on that invariant. Their theorems say
which environments they exclude, and exclude no more than they must: with any one of
those admitted, small instances violate the property.

| Theorem | Property | Environment |
|---|---|---|
| `ReferencesBalance` | `RefsBalanced`: `refcnt` is the number of places that hold the buffer | every |
| `FramebuffersAccounted` | `FbsAccounted`: the framebuffers are the current one, if there is one, and what live flips will remove, through every replacement of the scanout buffer | every |
| `AwaitedEventsSafe` | `AwaitedBuffersHeld`: what an awaited event names is there | no `MayFailLate` |
| `ScanoutStaysAlive` | `ScanoutAlive`: no completing flip removes a framebuffer an enabled CRTC shows or will show; none keeps the id of one a replacement removed | no `MayFailLate` |
| `CloseLeavesQuiet` | `ClosedIsQuiet`: nothing is owed after CloseScreen | no `MayFailLate` |
| `FlipsAwaitTheirEvents` | `FlipsAwaitEvents`: a flip waits for its events, one at least | neither `MayFailLate` nor `MayDisableAll` |
| `PendingSwapsExact` | `PendingSwapsCounted`: `pending_swaps` counts the window's commands | no `MayReuseXid` |
| `ThrottleHolds` | `ThrottleInStep`: the DRI2 module's count agrees with the driver's | neither `MayReuseXid` nor `MayDetach` |
| `OrphansFromDestroyOnly` | `OnlyDestroyOrphans`: a command is lost only with its window | no `MayDetach` |
| `ImplementsSwapOrder` | `Spec => Order!Spec`: swaps are reported once each, in order | neither `MayReuseXid` nor `MayDetach` |

`RefInv` adds to `RefsBalanced` that a window's front is not its back, without which
giving up both would count one release for two. `KernInv` is what makes an event
trustworthy: for each flip the events owed or queued are as many as it counts, none
for a flip that is not live (`EventsMatched`); an enabled CRTC that is to flip will
show the current framebuffer or, where a replacement removed that, nothing
(`FlipsPending`), and shows the one the flip replaces until then, or nothing
(`ScansShown`). `ReplaceFbKern` carries all of it through a rotation or a resize with
flips under way: no flip under way will remove the framebuffer that is removed at once,
nor remember its id, which may be handed out again. A late failure breaks `EventsMatched`
at once, as `swap_late_failure` shows. `FlipsWait`, that a live flip counts at least one CRTC, is apart
because it alone needs an enabled CRTC. `OrderInv` says that a dead window has an
empty record, that a window has one flip under way at most, and that `pending_swaps` is
that flip and the queued command; the second is what lets the completion of a flip
be taken for the completion of the window's oldest swap. `InStep` says the two
counts of swaps agree; that the driver's never exceeds the module's (`DriverBehind`)
needs less, is kept even where XIDs are reused, and suffices for the queue never to
overflow. The refinement maps `Dri2Swap`'s flips and queues to the sequence of
outstanding swaps of each window; its steps go action by action (`AllSwapsSeen`),
`CompleteThenFlip` and `CompleteBoth` being one report and two.

### Mode setting

`ModeSetProofs` proves, for any CRTCs, modes, positions, rotations and sizes and
any answers of the kernel and the allocator:

| Theorem | Statement |
|---|---|
| `TypeCorrect`, `CountIsExact`, `KindFollowsRotation` | `Spec => []TypeOK`, `[]RotationCounted`, `[]ScanoutKindMatches` |
| `ScanoutIsWrapped` | `Spec => []ScanoutWrapped`: the root pixmap and the framebuffer describe the scanout buffer, which holds every row of them |
| `LitShowsConfiguration` | `Spec => []LitAsConfigured` |
| `OthersAlwaysRelit` | `Spec => OthersRelit`: a reallocation leaves no other CRTC dark that the kernel did not refuse |

Its inductive invariant adds to the properties that the kernel has one framebuffer,
which all lit CRTCs show. Lemmas follow `kms` through RemoveFb, reallocation, AddFb
and the CRTCs lit again, and settle the rounding of strides (`PitchExact`).

### Drawing and video

`VideoProofs` proves, for any pixmaps, surface, batch limits, requests and images:

| Theorem | Statement |
|---|---|
| `TypeCorrect`, `BatchIsKept` | `VideoSpec => []TypeOK`, `[]BatchKept` |
| `NothingIsLost` | `VideoSpec => []NothingLost`: where nothing that is flushed is refused (no `MayRefuse`), every accepted request reaches the GPU, but the transformed copies the code never draws |
| `CpuAfterGpu`, `PanelIsFresh` | `VideoSpec => []AccessAfterGpu`, `[]PanelFresh`, which hold where waits do not fail (no `MayFailWait`), whatever else is refused |
| `LayoutsAgree` | what QueryImageAttributes tells a client of an image is what PutImage reads |
| `PlanesStayInStep` | `VideoSpec => []PlanesInStep` where all images are even, as `xv_odd` shows they must be |

`BatchIsKept` is about the array and not about what a flush makes of it: that is
`NothingIsLost`. The exceptions the three properties make are the code's: services that
may refuse to draw lose rectangles, and waits that may fail let the CPU and the panel go
ahead of the GPU (section 4).

The invariant `IInv` says, besides types and the batch, what the mark `is_gpu` means:
what the GPU writes is marked and mapped unless an operation that will mark it is
under way, and what the CPU has is quiet (`Good`, with the buffers an operation may
write as a parameter). Each operator on `gpu` has a lemma that it keeps `Good`.

### Lifecycle and cursor

`LifecycleProofs` proves `InUseIsHeldAlways` (`Spec => []InUseIsHeld`) for any number
of generations, CRTCs and connectors. `Sound` says of a driver's record that whatever
it holds has what it needs, and services are held exactly while counted; one lemma
for each call that takes it on (`ServicesSound`, `PowerVRSound`, `AccelSound`,
`CursorSound`, ...) shows that the call keeps it sound and keeps what it had. The
inductive invariant `LInv` adds what each phase is sure to hold (`Kept`), without which
the next ScreenInit would have nothing to build on, and that a flip belongs to an open
screen with DRI2. `TypeOKAlways` is `Spec => []TypeOK`: that the count of references to the
services stays in its type needs that a generation takes one at most (`CountsKept`).

`CursorAlwaysShown` (`Spec => []CursorShown`) holds for every list of CRTCs with one
member at least, wherever they lie, and every size of cursor and CRTC, under the
assumptions that the sizes are positive and that no picture is the value for none. The
server's calls are a fold over the CRTCs, written as a recursive function; the lemmas
`HideAll`, `MoveAll`, `LoadAll` and `ShowAllPictured` carry what one call keeps through
the fold by induction over the CRTC's number. `ClipCovers` is the arithmetic: what
drmmode_show_cursor cuts off on each side is exactly what lies outside.

### Buffers, mappings and the cache

`PvrBuffersProofs` proves, for any pixmaps, buffers, records, sizes and limits, and
under the assumption `Tame` (neither `MayResizeFlipped` nor `MayFlipPlain`, the two
cases in which the runs `pvr_resize_flipped` and `pvr_plain_back` show the code to go
wrong):

| Theorem | Statement |
|---|---|
| `BuffersAlwaysExist`, `BuffersAlwaysOwnedOnce` | `Spec => []BuffersExist`, `[]BuffersOwnedOnce` |
| `RecordsAlwaysOwned` | `Spec => []RecordsOwned` |
| `MappingsAlwaysCurrent` | `Spec => []MappingsCurrent` |

Its invariant (`OwnersInvariant`) says who holds what: no two of the pixmaps, the
entries of the cache and, for buffers, the scanout share anything, except that one
pixmap may hold scanout and then is none the cache may take (`PixmapsBacked`,
`PixmapsApart`, `CacheApart`); a buffer or a record exists exactly as long as something
refers to it (`BosAlive`, `PrivsAlive`); a record maps the buffer it travels with or
nothing (`MapsCurrent`). The cardinalities of the properties follow, as two holders that
hold the same are one. Lemmas on lists say what appending, cutting and taking out an
entry do to the buffers and records they hold; `EvictedAndKept` says it of
sgxBoCachePut, whatever number of entries its loop evicts.

`PvrListsProofs` proves, on that invariant and under the same assumption:

| Theorem | Statement |
|---|---|
| `CountersNeverWrap` | `Spec => []TypeOK`: no counter is taken below zero |
| `MappingsAlwaysListed` | `Spec => []MapsListed` |
| `ScanoutAlwaysTracked` | `Spec => []ScanoutTracked` |
| `CacheAlwaysAccounted` | `Spec => []CacheAccounted` |
| `OperandsStayMapped` | `Spec => []OperandsMapped` |

Its invariant (`Accounts`) joins four parts that need each other. `map_list` is the
mapped records but for the scanout's, once each (`Listing`), which an exchange keeps
only if `scanout_priv` is the record of whoever holds the scanout buffer
(`ScanoutRemembered`), and which makes `map_count` positive whenever something is
unmapped; the counters of the cache are its length and its sum (`CacheAccounted`), so that
an eviction never takes away more than is there; and the first operand of an operation is
the last of the list (`OperandsUsed`), so that the LRU, which takes the first of more
than one, spares it.

### Induction

The library's induction theorems take an operator as a parameter and cannot be used.
What they say can: `LeastNumber` follows from the well-foundedness of `<`
(`NatLessThanWellFounded`, `WFMin`, which take sets), `NumbersInduction` from it for
sets, and `StepsExist` that a function defined by recursion over numbers exists.
`Total`, `Delist` and `EachCrtc` are recursive functions, and their laws (the sum of what
is appended, cut and taken out; what stays in a list) rest on those three lemmas.

### Only model-checked

Of the properties of the passing runs: `FlipsComplete`, `CloseReturns`, `HotplugSeen`
and `OrderFairSpec`, of which only the half without fairness is proved
(`ImplementsSwapOrder`). Liveness needs ENABLED and fairness, which are out of the
prover's reach. `PlanesInStep` is proved for even images only and the theorems above for
the environments they name: in the others `swap_no_crtc`, `swap_late_failure`,
`pvr_resize_flipped`, `pvr_plain_back` and `xv_odd` show what goes wrong, a GPU that
refuses loses rectangles, a wait that fails lets the CPU and the panel go ahead of the
GPU, and a reused XID
or a client that leaves with swaps pending breaks the counts that `Dri2OrderProofs` is about.

## 6. Plan

Done in the order the behaviour matters: swaps and flips, buffers, mode setting,
drawing and video, lifecycle with cursor and outputs; then the theorems, first those that
hold in every environment. What remains:

1. A composition of `Dri2Swap` and `PvrBuffers`: which buffer object is on screen
   while its name is handed to a client, and the exchange of buffers without a
   flip.
2. A statement of how the outputs' snapshots and RandR's view agree, besides the liveness
   of `HotplugSeen`: which announced changes can be missed is an invariant of its own.

## 7. Not modelled

Rasterisation (calls into a closed library) and the shader tables' contents, mode
lists and EDID, the encoding of property values, gamma, cursor images, option parsing
and logging have no protocol to check. In `Dri2Swap` the data of buffers, GetMSC and
the registration with the DRI2 module are left out. In `PvrBuffers` allocation
failures, scratch pixmaps and video pixmaps are left out: the second wrap memory of
the caller, give up any buffer they had and are not accelerated; the third take the
path of `CreateNew` and `DestroyToCache` with a stride of their own. In
`ScreenLifecycle` the descriptor is the driver's own (one the server hands over is left
out, as is probing for detection only), the shader code is one resource, the memory a
failed drmmode_cursor_init leaks, BlockHandler, SwitchMode and the transform of the
cursor that some versions of the server leave to the driver are left out. The fallback
from PVRRenderAtlas is part of the nondeterministic count in `Given`.
