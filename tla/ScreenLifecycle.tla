-------------------------- MODULE ScreenLifecycle --------------------------
(***************************************************************************)
(* The life of a screen (src/src/omap_driver.c): Probe, PreInit, and for   *)
(* each server generation ScreenInit and CloseScreen, then FreeScreen, with *)
(* what each acquires, gives back, and leaves behind when a step of it     *)
(* fails; the PVR services under the PVR EXA (omap_pvr_helpers.c,          *)
(* omap_pvr_use.c); the virtual terminal; and, while the screen is open,   *)
(* its outputs and its cursor.                                             *)
(***************************************************************************)
EXTENDS CursorPlane, Outputs

CONSTANT MaxGenerations   \* bound: server generations

ASSUME GenerationsAssumption == MaxGenerations \in Nat \ {0}

VARIABLES
  phase,       \* "start", "probed", "ready", "open", "closed", "failed", "freed" or "died"
  drv,         \* what the driver holds, and the options that decide it
  vtSema,      \* the terminal is the server's
  master,      \* the descriptor is the DRM master
  flip,        \* a page flip under way: "none", or whether its pixmap is "mapped" for the GPU
  generation   \* ScreenInits so far

lifeVars == <<phase, drv, vtSema, master, flip, generation>>

vars == <<cursor, outputVars, lifeVars>>

-----------------------------------------------------------------------------
(* drv is a record:                                                        *)
(*   held            the resources acquired and not given back             *)
(*   accel, dri, hwcursor   pOMAP: not NoAccel, dri and HWCursor           *)
(*   refs            guiSrvRefCount                                        *)
(*   uevent_handler  the pointer of that name is not NULL                  *)

Services == <<"connection", "memcontext", "miscinfo", "context2d">>

ServiceSet == {Services[i] : i \in DOMAIN Services}

Exa == {"pvr", "null"}

\* What a resource is used with.
Needs ==
  [fd |-> {}, device |-> {"fd"}, record |-> {}, kms |-> {"fd"},
   scanout |-> {"device"}, fb |-> {"scanout", "kms"},
   connection |-> {}, memcontext |-> {"connection"}, miscinfo |-> {"connection"},
   context2d |-> {"connection", "memcontext", "miscinfo"},
   usecode |-> {"context2d"}, pvr |-> ServiceSet \cup {"usecode", "record", "device"}, null |-> {"record", "device"},
   dri2 |-> {"record", "device"}, xv |-> {"pvr"},
   cursor |-> {"kms", "device"}, hooks |-> {"cursor"},
   wraps |-> {"record"}, notify |-> {"kms", "record"}, monitor |-> {"kms", "record"},
   probefd |-> {}]

Resources == DOMAIN Needs

NoDriver ==
  [held |-> {}, accel |-> FALSE, dri |-> FALSE, hwcursor |-> FALSE, refs |-> 0, uevent_handler |-> FALSE]

Acquire(d, rs) == [d EXCEPT !.held = @ \cup rs]

Release(d, rs) == [d EXCEPT !.held = @ \ rs]

Holds(r) == r \in drv.held

-----------------------------------------------------------------------------
(* The PVR services and the EXA. *)

\* Mutant: the first label is used throughout.
LabelDisconnect(service) == IF service = "connection" THEN {} ELSE {"connection"}

\* What the label releases that InitialiseServices jumps to when it cannot get
\* a service.
Label(service) ==
  CASE service = "connection" -> {}
    [] service = "memcontext" -> {"connection"}
    [] service = "miscinfo"   -> {"memcontext", "connection"}
    [] service = "context2d"  -> {"miscinfo", "memcontext", "connection"}

FailedAt(d, n) == Release(Acquire(d, {Services[i] : i \in 1 .. n - 1}), Label(Services[n]))

InitialiseServices(d) ==
  IF d.refs > 0
  THEN {[d EXCEPT !.refs = @ + 1]}
  ELSE {[Acquire(d, ServiceSet) EXCEPT !.refs = 1]} \cup {FailedAt(d, n) : n \in DOMAIN Services}

\* Mutant: the services go with the first reference.
DeInitialiseAtOnce(d) ==
  Release(IF d.refs > 0 THEN [d EXCEPT !.refs = @ - 1] ELSE d, ServiceSet)

DeInitialiseServices(d) ==
  LET e == IF d.refs > 0 THEN [d EXCEPT !.refs = @ - 1] ELSE d
  IN  IF d.refs = 1 THEN Release(e, ServiceSet) ELSE e

\* PVRUseInit and PVRUseDeInit: the shaders of the fills and the composites.
UseInit(d) == Acquire(d, {"usecode"})

UseDeInit(d) == Release(d, {"usecode"})

\* A failure in loading the code, or in exaDriverInit after it, gives back
\* neither the reference nor the code.
InitPowerVREXA(d) ==
  LET up == {e \in InitialiseServices(d) : e.refs > d.refs}
  IN  InitialiseServices(d) \cup {UseInit(e) : e \in up}
        \cup {Acquire(UseInit(e), {"pvr"}) : e \in up}

InitNullEXA(d) == {d, Acquire(d, {"null"})}

\* The PVR EXA, or after it failed, then and in every later generation, the
\* software EXA, which may fail too.
InitEXA(d) ==
  LET tried == IF d.accel THEN {[e EXCEPT !.accel = "pvr" \in e.held] : e \in InitPowerVREXA(d)} ELSE {d}
  IN  UNION {IF "pvr" \in e.held THEN {e} ELSE InitNullEXA(e) : e \in tried}

\* OMAPDRI2ScreenInit, once refused never asked again, and OMAPVideoScreenInit.
AccelInit(d) ==
  LET with(e)  == e.dri /\ e.held \cap Exa # {}
      dri2(e)  == {[e EXCEPT !.dri = FALSE]} \cup (IF with(e) THEN {Acquire(e, {"dri2"})} ELSE {})
      video(e) == IF "pvr" \in e.held THEN Acquire(e, {"xv"}) ELSE e
  IN  {video(f) : f \in UNION {dri2(e) : e \in InitEXA(d)}}

\* drmmode_cursor_init: in a later generation it returns at once, and the new
\* screen has no cursor functions.  What a failure leaves is lost.
CursorInit(d) ==
  IF ~d.hwcursor \/ "cursor" \in d.held THEN {d}
  ELSE {Acquire(d, {"cursor", "hooks"}), [d EXCEPT !.hwcursor = FALSE]}

\* drmmode_screen_init: without udev there is no monitor.
ScreenHandlers(d) ==
  LET n == Acquire(d, {"notify", "wraps"})
  IN  {n, [Acquire(n, {"monitor"}) EXCEPT !.uevent_handler = TRUE]}

-----------------------------------------------------------------------------
(* The calls of the server. *)

\* The process ends, and the kernel takes everything back.
Die ==
  /\ phase' = "died"
  /\ drv' = NoDriver /\ vtSema' = FALSE /\ master' = FALSE /\ flip' = "none"
  /\ cursor' = NoCursor
  /\ mode_output' = << >> /\ randr' = << >> /\ uevents' = << >> /\ missed' = {}
  /\ UNCHANGED <<connector, generation>>

Elsewhere == UNCHANGED <<cursor, outputVars, flip>>

\* OMAPProbe: out of memory it leaves its descriptor open.
Probed ==
  /\ phase = "start"
  /\ \/ phase' = "probed" /\ drv' = drv
     \/ phase' = "freed" /\ drv' = Acquire(drv, {"probefd"})
  /\ UNCHANGED <<vtSema, master, generation>> /\ Elsewhere

\* OMAPPlatformProbe, on a server that knows platform devices.
PlatformProbed ==
  /\ phase = "start"
  /\ phase' \in {"probed", "freed"}
  /\ UNCHANGED <<drv, vtSema, master, generation>> /\ Elsewhere

\* OMAPPreInit that fails: for its arguments or before it is the master; on the
\* chipset; for want of memory for the options; or after KMS is set up.
PreInitFails ==
  /\ phase = "probed"
  /\ phase' = "failed"
  /\ \E left \in {{}, {"fd", "device"}, {"fd", "device", "record"}, {"fd", "device", "kms"}} :
       drv' = Acquire(drv, left)
  /\ UNCHANGED <<vtSema, master, generation>> /\ Elsewhere

\* OMAPPreInit.  Without KMS resources it only says so.
PreInit ==
  /\ phase = "probed"
  /\ phase' = "ready"
  /\ \E a, d, c \in BOOLEAN, got \in SUBSET {"kms"} :
       /\ drv' = [Acquire(drv, {"fd", "device", "record"} \cup got) EXCEPT
                    !.accel = a, !.dri = d, !.hwcursor = c]
       /\ IF got = {} THEN UNCHANGED outputVars ELSE CreateOutputs
  /\ master' \in BOOLEAN
  /\ UNCHANGED <<cursor, vtSema, flip, generation>>

Started ==
  /\ phase \in {"ready", "closed"}
  /\ generation < MaxGenerations
  /\ generation' = generation + 1

\* Without KMS there is no CRTC, and the first of them is used; so is the
\* snapshot of every output.
ScreenInitDies ==
  /\ phase \in {"ready", "closed"}
  /\ ~Holds("kms") \/ \E o \in Outputs : mode_output[o] = NoSnapshot
  /\ Die

\* OMAPScreenInit fails: the scanout buffer is kept; so is the rest when it
\* fails after OMAPAccelInit, for the modes or the colormaps.
ScreenInitFails ==
  /\ Started /\ Holds("kms")
  /\ phase' = "failed"
  /\ \/ drv' \in {drv, Acquire(drv, {"scanout"})} /\ UNCHANGED <<vtSema, master>>
     \/ /\ \E d \in AccelInit(Acquire(drv, {"scanout"})) :
             drv' \in UNION {{e, Acquire(e, {"fb"})} : e \in CursorInit(d)}
        /\ vtSema' = TRUE /\ master' \in BOOLEAN
  /\ Elsewhere

\* OMAPScreenInit: the modes that are set make the framebuffer; the kernel sets
\* them for its master only.
ScreenInit ==
  /\ Started /\ Holds("kms")
  /\ phase' = "open"
  /\ \E d \in AccelInit(Acquire(drv, {"scanout", "fb"})) :
       drv' \in UNION {ScreenHandlers(e) : e \in CursorInit(d)}
  /\ vtSema' = TRUE /\ master' = TRUE
  /\ \A o \in Outputs : mode_output[o] # NoSnapshot
  /\ CreateResources
  /\ UNCHANGED <<cursor, flip, connector, mode_output, uevents, missed>>

\* Mutant: the video stays with the server.
ClosingNotXv == {"notify", "monitor", "pvr", "null", "dri2", "fb", "scanout", "wraps", "hooks"}

\* What CloseScreen gives back, and the server with the screen.
Closing == {"notify", "monitor", "pvr", "null", "dri2", "xv", "fb", "scanout", "wraps", "hooks"}

\* drmmode_uevent_fini follows a pointer that is never cleared, and the flips
\* are waited for after the EXA is gone, whose DestroyPixmap uses it.
CloseDies ==
  \/ drv.uevent_handler /\ ~Holds("monitor")
  \/ flip = "mapped" /\ Holds("pvr")

\* OMAPCloseScreen, with the flips that complete in it.
CloseScreen ==
  /\ phase = "open"
  /\ ~CloseDies
  /\ phase' = "closed"
  /\ drv' = Release(drv, Closing)
  /\ vtSema' = FALSE
  /\ master' \in IF vtSema THEN {FALSE, master} ELSE {master}
  /\ flip' = "none"
  /\ uevents' = << >>
  /\ missed' = {o \in Outputs : ~Noticed(o)}
  /\ UNCHANGED <<cursor, connector, mode_output, randr, generation>>

CloseScreenDies == phase = "open" /\ CloseDies /\ Die

\* OMAPFreeScreen: the services go back only if the EXA is still there, that is
\* after a ScreenInit that failed.
Freed(d) ==
  LET e == IF "pvr" \in d.held THEN DeInitialiseServices(UseDeInit(d)) ELSE d
  IN  Release(e, {"pvr", "null", "device", "fd", "record"})

FreeScreen ==
  /\ phase \in {"failed", "closed"}
  /\ phase' = "freed"
  /\ drv' = IF Holds("record") THEN Freed(drv) ELSE drv
  /\ master' = (master /\ ~Holds("record"))
  /\ UNCHANGED <<vtSema, generation>> /\ Elsewhere

Open == phase = "open"

\* The server takes the cursor off and leaves; dropping the master may fail.
LeaveVT ==
  /\ Open /\ vtSema
  /\ vtSema' = FALSE
  /\ master' \in {FALSE, master}
  /\ cursor' = IF Holds("hooks") THEN HideAll(cursor) ELSE cursor
  /\ UNCHANGED <<phase, drv, flip, generation, outputVars>>

\* Failing to become the master is not fatal, failing to set the modes is.
EnterVT ==
  /\ Open /\ ~vtSema
  /\ \/ /\ vtSema' = TRUE /\ master' = TRUE
        /\ UNCHANGED <<cursor, phase, drv, flip, generation, outputVars>>
     \/ Die

\* A page flip is queued and completes (see Dri2Swap).
Flip ==
  /\ Open /\ Holds("dri2")
  /\ \/ flip = "none" /\ vtSema /\ flip' \in {"plain"} \cup (IF Holds("pvr") THEN {"mapped"} ELSE {})
     \/ flip # "none" /\ flip' = "none"
  /\ UNCHANGED <<cursor, outputVars, phase, drv, vtSema, master, generation>>

Hotplug == Open /\ Holds("monitor") /\ HandleUevents(vtSema) /\ UNCHANGED <<cursor, lifeVars>>

Kernel ==
  /\ phase \in {"ready", "open", "closed"}
  /\ \/ \E o \in Connector : Plug(o, Open /\ Holds("monitor"))
     \/ OtherUevent(Open /\ Holds("monitor"))
  /\ UNCHANGED <<cursor, lifeVars>>

Client ==
  /\ Open
  /\ \/ Query(vtSema)
     \/ \E o \in Outputs, v \in Values : SetProperty(o, v, master)
     \/ \E o \in Outputs, known \in BOOLEAN : GetProperty(o, known, vtSema)
  /\ UNCHANGED <<cursor, lifeVars>>

OutputDies == Open /\ UsesNull(vtSema) /\ Die

Cursor ==
  /\ Open /\ vtSema /\ Holds("hooks")
  /\ UseCursor
  /\ UNCHANGED <<outputVars, lifeVars>>

Ended == phase \in {"freed", "died"} /\ UNCHANGED vars

Init ==
  /\ OutputsInit
  /\ cursor = NoCursor
  /\ phase = "start" /\ drv = NoDriver
  /\ vtSema = FALSE /\ master = FALSE /\ flip = "none" /\ generation = 0

Next ==
  \/ Probed \/ PlatformProbed \/ PreInitFails \/ PreInit
  \/ ScreenInitDies \/ ScreenInitFails \/ ScreenInit
  \/ CloseScreen \/ CloseScreenDies \/ FreeScreen
  \/ LeaveVT \/ EnterVT
  \/ Flip \/ Hotplug \/ Kernel \/ Client \/ OutputDies \/ Cursor
  \/ Ended

\* The server's loop dispatches a descriptor that has something to read.
Spec == Init /\ [][Next]_vars /\ WF_vars(Hotplug)

-----------------------------------------------------------------------------
DriverType ==
  [held : SUBSET Resources, accel : BOOLEAN, dri : BOOLEAN, hwcursor : BOOLEAN,
   refs : 0 .. MaxGenerations, uevent_handler : BOOLEAN]

TypeOK ==
  /\ CursorType /\ OutputsType
  /\ phase \in {"start", "probed", "ready", "open", "closed", "failed", "freed", "died"}
  /\ drv \in DriverType
  /\ vtSema \in BOOLEAN /\ master \in BOOLEAN
  /\ flip \in {"none", "plain", "mapped"}
  /\ generation \in 0 .. MaxGenerations

\* Whatever failed, and in whichever generation: until the screen is freed, what
\* the driver holds can be used, for it holds all of what that needs
\* (OMAPScreenInit, OMAPCloseScreen, the labels of InitialiseServices); the
\* services are there exactly while they are counted; and no flip waits for an
\* event nobody reads.
InUseIsHeld ==
  /\ phase # "freed" => \A r \in drv.held : Needs[r] \subseteq drv.held
  /\ Holds("connection") <=> drv.refs > 0
  /\ flip # "none" => {"dri2", "fb", "notify"} \subseteq drv.held

\* A connector whose change was announced to the driver is, in the end, reported
\* by RandR as it is, unless the screen is closed, the terminal left or the
\* announcement of a change lost meanwhile (the socket was full, or udev did not
\* hand over what was read): drmmode_handle_uevents.
HotplugSeen ==
  \A o \in Connector :
    (Open /\ Holds("monitor") /\ o \in Outputs \ missed /\ ~Noticed(o))
      ~> (~Open \/ ~vtSema \/ o \notin Outputs \ missed \/ Noticed(o))
=============================================================================
