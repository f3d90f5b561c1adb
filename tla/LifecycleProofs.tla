-------------------------- MODULE LifecycleProofs --------------------------
(***************************************************************************)
(* Proofs about ScreenLifecycle, for every number of generations, CRTC     *)
(* layout and set of connectors: the driver never keeps what has lost its  *)
(* foundation, the plane shows the cursor the driver believes in, and the  *)
(* types hold.  The operators that take a record to the records a call may *)
(* leave are shown to keep it sound, one lemma each.                       *)
(***************************************************************************)
EXTENDS ScreenLifecycle, TLAPS, WellFoundedInduction

Driver ==
  [held : SUBSET Resources, accel : BOOLEAN, dri : BOOLEAN, hwcursor : BOOLEAN,
   refs : Nat, uevent_handler : BOOLEAN]

Founded(d) == \A r \in d.held : Needs[r] \subseteq d.held

Counted(d) ==
  IF d.refs > 0 THEN ServiceSet \subseteq d.held ELSE ServiceSet \cap d.held = {}

Sound(d) == d \in Driver /\ Founded(d) /\ Counted(d)

\* What a screen has while it is set up.
Base == {"fd", "device", "record", "kms", "scanout"}

\* e is a sound record that kept all d had.
Grown(d, e) == Sound(e) /\ d.held \subseteq e.held

-----------------------------------------------------------------------------
\* What there is to hold, and what each needs (Needs).
LEMMA NeedsValues ==
  /\ Resources = {"fd", "device", "record", "kms", "scanout", "fb", "connection", "memcontext",
                  "miscinfo", "context2d", "usecode", "pvr", "null", "dri2", "xv", "cursor",
                  "hooks", "wraps", "notify", "monitor", "probefd"}
  /\ ServiceSet = {"connection", "memcontext", "miscinfo", "context2d"}
  /\ Needs["fd"] = {} /\ Needs["device"] = {"fd"} /\ Needs["record"] = {} /\ Needs["kms"] = {"fd"}
  /\ Needs["scanout"] = {"device"} /\ Needs["fb"] = {"scanout", "kms"}
  /\ Needs["connection"] = {} /\ Needs["memcontext"] = {"connection"}
  /\ Needs["miscinfo"] = {"connection"}
  /\ Needs["context2d"] = {"connection", "memcontext", "miscinfo"}
  /\ Needs["usecode"] = {"context2d"}
  /\ Needs["pvr"] = ServiceSet \cup {"usecode", "record", "device"}
  /\ Needs["null"] = {"record", "device"} /\ Needs["dri2"] = {"record", "device"}
  /\ Needs["xv"] = {"pvr"} /\ Needs["cursor"] = {"kms", "device"} /\ Needs["hooks"] = {"cursor"}
  /\ Needs["wraps"] = {"record"} /\ Needs["notify"] = {"kms", "record"}
  /\ Needs["monitor"] = {"kms", "record"} /\ Needs["probefd"] = {}
<1>1. ServiceSet = {"connection", "memcontext", "miscinfo", "context2d"}
  <2>1. DOMAIN Services = 1 .. 4  BY DEF Services
  <2> QED  BY <2>1 DEF ServiceSet, Services
<1>2. QED  BY <1>1 DEF Needs, Resources

\* Taking more keeps a record sound when what it needs is there or comes with
\* it (Acquire).
LEMMA AcquireSound ==
  ASSUME NEW d, Sound(d), NEW rs \in SUBSET (Resources \ ServiceSet),
         \A r \in rs : Needs[r] \subseteq d.held \cup rs
  PROVE  Grown(d, Acquire(d, rs)) /\ Acquire(d, rs).held = d.held \cup rs
<1> DEFINE e == Acquire(d, rs)
<1>1. /\ e \in Driver /\ e.held = d.held \cup rs /\ e.refs = d.refs
  BY DEF Acquire, Sound, Driver
<1>2. Founded(e)  BY <1>1 DEF Founded, Sound
<1>3. Counted(e)  BY <1>1 DEF Counted, Sound
<1> QED  BY <1>1, <1>2, <1>3 DEF Grown, Sound

\* Giving back what nothing kept needs keeps it sound (Release).
LEMMA ReleaseSound ==
  ASSUME NEW d, Sound(d), NEW rs \in SUBSET (Resources \ ServiceSet),
         \A r \in d.held \ rs : Needs[r] \cap rs = {}
  PROVE  Sound(Release(d, rs)) /\ Release(d, rs).held = d.held \ rs
<1> DEFINE e == Release(d, rs)
<1>1. /\ e \in Driver /\ e.held = d.held \ rs /\ e.refs = d.refs
  BY DEF Release, Sound, Driver
<1>2. Founded(e)  BY <1>1 DEF Founded, Sound
<1>3. Counted(e)  BY <1>1 DEF Counted, Sound
<1> QED  BY <1>1, <1>2, <1>3 DEF Sound

\* Wherever InitialiseServices stops, the label it jumps to leaves no service.
LEMMA LabelsComplete ==
  ASSUME NEW d \in Driver, NEW n \in DOMAIN Services, ServiceSet \cap d.held = {}
  PROVE  FailedAt(d, n) = d
<1>1. n \in {1, 2, 3, 4} /\ DOMAIN Services = 1 .. 4  BY DEF Services
<1> DEFINE got == {Services[i] : i \in 1 .. n - 1}
<1>2. got = Label(Services[n])
  <2>1. CASE n = 1  BY <2>1 DEF Services, Label
  <2>2. CASE n = 2
    <3>1. 1 .. n - 1 = {1}  BY <2>2
    <3> QED  BY <2>2, <3>1 DEF Services, Label
  <2>3. CASE n = 3
    <3>1. 1 .. n - 1 = {1, 2}  BY <2>3
    <3> QED  BY <2>3, <3>1 DEF Services, Label
  <2>4. CASE n = 4
    <3>1. 1 .. n - 1 = {1, 2, 3}  BY <2>4
    <3> QED  BY <2>4, <3>1 DEF Services, Label
  <2> QED  BY <1>1, <2>1, <2>2, <2>3, <2>4
<1>3. got \cap d.held = {}
  BY <1>1 DEF ServiceSet
<1>4. (d.held \cup got) \ got = d.held  BY <1>3
<1> HIDE DEF got
<1>5. FailedAt(d, n) = [[d EXCEPT !.held = @ \cup got] EXCEPT !.held = @ \ got]
  BY <1>2 DEF FailedAt, Acquire, Release, got
<1> QED  BY <1>4, <1>5 DEF Driver

\* InitialiseServices succeeds with a reference, or changes nothing.
LEMMA ServicesSound ==
  ASSUME NEW d, Sound(d), NEW e \in InitialiseServices(d)
  PROVE  Grown(d, e) /\ (e.refs > d.refs => e.refs > 0) /\ e.refs \in Nat /\ d.refs \in Nat
<1>1. d.refs \in Nat  BY DEF Sound, Driver
<1>2. CASE d.refs > 0
  <2>1. e = [d EXCEPT !.refs = @ + 1]  BY <1>2 DEF InitialiseServices
  <2>2. e \in Driver /\ e.held = d.held /\ e.refs = d.refs + 1
    BY <2>1, <1>1 DEF Sound, Driver
  <2>3. Founded(e) /\ Counted(e)  BY <2>2, <1>1, <1>2 DEF Sound, Founded, Counted
  <2> QED  BY <2>2, <2>3, <1>1 DEF Grown, Sound
<1>3. CASE ~(d.refs > 0)
  <2>1. ServiceSet \cap d.held = {}  BY <1>3 DEF Sound, Counted
  <2>2. CASE e = [Acquire(d, ServiceSet) EXCEPT !.refs = 1]
    <3>1. e \in Driver /\ e.held = d.held \cup ServiceSet /\ e.refs = 1
      BY <2>2, NeedsValues DEF Sound, Driver, Acquire
    <3>2. Founded(e)  BY <3>1, NeedsValues DEF Sound, Founded
    <3>3. Counted(e)  BY <3>1 DEF Counted
    <3> QED  BY <3>1, <3>2, <3>3, <1>1 DEF Grown, Sound
  <2>3. CASE \E n \in DOMAIN Services : e = FailedAt(d, n)
    <3>1. e = d  BY <2>1, <2>3, LabelsComplete DEF Sound
    <3> QED  BY <3>1, <1>1 DEF Grown
  <2> QED  BY <1>3, <2>2, <2>3 DEF InitialiseServices
<1> QED  BY <1>2, <1>3

-----------------------------------------------------------------------------
(* What a ScreenInit adds, call by call. *)

\* The options do not matter (pOMAP's accel, dri and HWCursor).
LEMMA OptionsSound ==
  ASSUME NEW d, NEW e \in Driver, Sound(d), e.held = d.held, e.refs = d.refs
  PROVE  Grown(d, e)
BY DEF Grown, Sound, Founded, Counted

\* Grown is transitive: the calls of a ScreenInit can be taken one by one.
LEMMA GrownOn ==
  ASSUME NEW d, NEW e, NEW f, Grown(d, e), Grown(e, f)
  PROVE  Grown(d, f)
BY DEF Grown

\* InitPowerVREXA keeps the driver sound, whether it fails and where.
LEMMA PowerVRSound ==
  ASSUME NEW d, Sound(d), Base \subseteq d.held, NEW f \in InitPowerVREXA(d)
  PROVE  Grown(d, f)
<1>1. CASE f \in InitialiseServices(d)  BY <1>1, ServicesSound
<1>2. ASSUME NEW e \in InitialiseServices(d), e.refs > d.refs,
             f \in {UseInit(e), Acquire(UseInit(e), {"pvr"})}
      PROVE  Grown(d, f)
  <2>1. Grown(d, e) /\ e.refs > 0  BY <1>2, ServicesSound
  <2>2. Sound(e) /\ ServiceSet \subseteq e.held /\ Base \subseteq e.held
    BY <2>1 DEF Grown, Sound, Counted
  <2>3. Grown(e, UseInit(e)) /\ UseInit(e).held = e.held \cup {"usecode"}
    <3>1. {"usecode"} \in SUBSET (Resources \ ServiceSet) /\ Needs["usecode"] \subseteq e.held
      BY <2>2, NeedsValues
    <3> QED  BY <2>2, <3>1, AcquireSound DEF UseInit
  <2>4. Grown(UseInit(e), Acquire(UseInit(e), {"pvr"}))
    <3>1. {"pvr"} \in SUBSET (Resources \ ServiceSet) /\ Needs["pvr"] \subseteq UseInit(e).held
      BY <2>2, <2>3, NeedsValues DEF Base
    <3>2. Sound(UseInit(e))  BY <2>3 DEF Grown
    <3> QED  BY <3>1, <3>2, AcquireSound
  <2>5. Grown(d, UseInit(e))  BY <2>1, <2>3, GrownOn
  <2> QED  BY <1>2, <2>4, <2>5, GrownOn
<1> QED  BY <1>1, <1>2 DEF InitPowerVREXA

\* So does InitNullEXA.
LEMMA NullSound ==
  ASSUME NEW d, Sound(d), Base \subseteq d.held, NEW f \in InitNullEXA(d)
  PROVE  Grown(d, f)
<1>1. CASE f = d  BY <1>1 DEF Grown
<1>2. CASE f = Acquire(d, {"null"})
  <2>1. {"null"} \in SUBSET (Resources \ ServiceSet) /\ Needs["null"] \subseteq d.held
    BY NeedsValues DEF Base
  <2> QED  BY <1>2, <2>1, AcquireSound
<1> QED  BY <1>1, <1>2 DEF InitNullEXA

\* So does the choice between the two (OMAPAccelInit).
LEMMA ExaSound ==
  ASSUME NEW d, Sound(d), Base \subseteq d.held, NEW f \in InitEXA(d)
  PROVE  Grown(d, f)
<1> DEFINE tried == IF d.accel THEN {[e EXCEPT !.accel = "pvr" \in e.held] : e \in InitPowerVREXA(d)}
                    ELSE {d}
<1>1. \A g \in tried : Grown(d, g)
  <2>1. ASSUME NEW e \in InitPowerVREXA(d)  PROVE Grown(d, [e EXCEPT !.accel = "pvr" \in e.held])
    <3> DEFINE works == "pvr" \in e.held
               g     == [e EXCEPT !.accel = works]
    <3>1. Grown(d, e)  BY PowerVRSound
    <3>2. g \in Driver /\ g.held = e.held /\ g.refs = e.refs
      <4>1. works \in BOOLEAN  OBVIOUS
      <4> HIDE DEF works
      <4> QED  BY <3>1, <4>1 DEF Grown, Sound, Driver
    <3>3. Grown(e, g)  BY <3>1, <3>2, OptionsSound DEF Grown
    <3> QED  BY <3>1, <3>3, GrownOn
  <2> QED  BY <2>1 DEF Grown
<1> DEFINE either(e) == IF "pvr" \in e.held THEN {e} ELSE InitNullEXA(e)
<1>0. f \in UNION {either(e) : e \in tried}  BY DEF InitEXA
<1>2. PICK g \in tried : f \in either(g)
  <2> HIDE DEF tried, either
  <2> QED  BY <1>0
<1>3. Grown(d, g)  BY <1>1
<1>4. CASE f = g  BY <1>3, <1>4
<1>5. CASE f \in InitNullEXA(g)
  <2>1. Sound(g) /\ Base \subseteq g.held  BY <1>3 DEF Grown
  <2>2. Grown(g, f)  BY <1>5, <2>1, NullSound
  <2> QED  BY <1>3, <2>2, GrownOn
<1> QED  BY <1>2, <1>4, <1>5

\* So does OMAPAccelInit with DRI2 and Xv.
LEMMA AccelSound ==
  ASSUME NEW d, Sound(d), Base \subseteq d.held, NEW f \in AccelInit(d)
  PROVE  Grown(d, f)
<1> DEFINE with(e)  == e.dri /\ e.held \cap Exa # {}
           dri2(e)  == {[e EXCEPT !.dri = FALSE]} \cup (IF with(e) THEN {Acquire(e, {"dri2"})} ELSE {})
           video(e) == IF "pvr" \in e.held THEN Acquire(e, {"xv"}) ELSE e
<1>0. PICK e \in InitEXA(d) : \E h \in dri2(e) : f = video(h)  BY DEF AccelInit
<1>1. PICK g \in dri2(e) : f = video(g)  BY <1>0
<1>2. Grown(d, e)  BY ExaSound
<1>3. Sound(e) /\ Base \subseteq e.held  BY <1>2 DEF Grown
<1>4. Grown(e, g)
  <2>1. CASE g = [e EXCEPT !.dri = FALSE]
    <3>1. g \in Driver /\ g.held = e.held /\ g.refs = e.refs  BY <1>3, <2>1 DEF Sound, Driver
    <3> QED  BY <1>3, <3>1, OptionsSound
  <2>2. CASE g = Acquire(e, {"dri2"})
    <3>1. {"dri2"} \in SUBSET (Resources \ ServiceSet) /\ Needs["dri2"] \subseteq e.held
      BY <1>3, NeedsValues DEF Base
    <3> QED  BY <1>3, <2>2, <3>1, AcquireSound
  <2> QED  BY <1>1, <2>1, <2>2
<1>5. Grown(g, f)
  <2>1. Sound(g)  BY <1>4 DEF Grown
  <2>2. CASE "pvr" \in g.held
    <3>1. {"xv"} \in SUBSET (Resources \ ServiceSet) /\ Needs["xv"] \subseteq g.held
      BY <2>2, NeedsValues
    <3> QED  BY <1>1, <2>1, <2>2, <3>1, AcquireSound
  <2>3. CASE "pvr" \notin g.held  BY <1>1, <2>1, <2>3 DEF Grown
  <2> QED  BY <2>2, <2>3
<1>6. Grown(d, g)  BY <1>2, <1>4, GrownOn
<1> QED  BY <1>5, <1>6, GrownOn

\* So does drmmode_cursor_init.
LEMMA CursorSound ==
  ASSUME NEW d, Sound(d), Base \subseteq d.held, NEW f \in CursorInit(d)
  PROVE  Grown(d, f)
<1>1. CASE f = d  BY <1>1 DEF Grown
<1>2. CASE f = [d EXCEPT !.hwcursor = FALSE]
  <2>1. f \in Driver /\ f.held = d.held /\ f.refs = d.refs  BY <1>2 DEF Sound, Driver
  <2> QED  BY <2>1, OptionsSound
<1>3. CASE f = Acquire(d, {"cursor", "hooks"})
  <2>1. /\ {"cursor", "hooks"} \in SUBSET (Resources \ ServiceSet)
        /\ \A r \in {"cursor", "hooks"} : Needs[r] \subseteq d.held \cup {"cursor", "hooks"}
    BY NeedsValues DEF Base
  <2> QED  BY <1>3, <2>1, AcquireSound
<1> QED  BY <1>1, <1>2, <1>3 DEF CursorInit

\* So does drmmode_screen_init, which installs the notify handler.
LEMMA HandlersSound ==
  ASSUME NEW d, Sound(d), Base \subseteq d.held, NEW f \in ScreenHandlers(d)
  PROVE  Grown(d, f) /\ "notify" \in f.held
<1> DEFINE n == Acquire(d, {"notify", "wraps"})
<1>1. Grown(d, n) /\ n.held = d.held \cup {"notify", "wraps"}
  <2>1. /\ {"notify", "wraps"} \in SUBSET (Resources \ ServiceSet)
        /\ \A r \in {"notify", "wraps"} : Needs[r] \subseteq d.held \cup {"notify", "wraps"}
    BY NeedsValues DEF Base
  <2> QED  BY <2>1, AcquireSound
<1>2. CASE f = n  BY <1>1, <1>2
<1>3. CASE f = [Acquire(n, {"monitor"}) EXCEPT !.uevent_handler = TRUE]
  <2> DEFINE m == Acquire(n, {"monitor"})
  <2>1. Grown(n, m) /\ m.held = n.held \cup {"monitor"}
    <3>1. {"monitor"} \in SUBSET (Resources \ ServiceSet) /\ Needs["monitor"] \subseteq n.held
      BY <1>1, NeedsValues DEF Base
    <3>2. Sound(n)  BY <1>1 DEF Grown
    <3> QED  BY <3>1, <3>2, AcquireSound
  <2>2. f \in Driver /\ f.held = m.held /\ f.refs = m.refs
    BY <1>3, <2>1 DEF Grown, Sound, Driver
  <2>3. Grown(m, f)  BY <2>1, <2>2, OptionsSound DEF Grown
  <2>4. Grown(d, m)  BY <1>1, <2>1, GrownOn
  <2> QED  BY <1>1, <2>1, <2>2, <2>3, <2>4, GrownOn
<1> QED  BY <1>2, <1>3 DEF ScreenHandlers

-----------------------------------------------------------------------------
(* The inductive invariant: the driver's record is sound until the screen  *)
(* is freed, has what the phase promises, and has a flip only while it is  *)
(* open with DRI2.                                                         *)

Kept ==
  CASE phase \in {"start", "probed", "died"} -> drv = NoDriver
    [] phase \in {"ready", "closed"}         -> {"fd", "device", "record"} \subseteq drv.held
    [] phase = "open"                        -> Base \cup {"fb", "notify"} \subseteq drv.held
    [] OTHER                                 -> TRUE

LInv ==
  /\ phase \in {"start", "probed", "ready", "open", "closed", "failed", "freed", "died"}
  /\ drv \in Driver /\ Counted(drv)
  /\ phase # "freed" => Founded(drv)
  /\ Kept
  /\ flip # "none" => phase = "open" /\ "dri2" \in drv.held

\* A driver that holds nothing is sound.
LEMMA NothingSound == Sound(NoDriver) /\ NoDriver.held = {} /\ NoDriver.refs = 0
BY DEF NoDriver, Sound, Driver, Founded, Counted

\* Where nothing but the generation, the outputs and the cursor changes, nothing is lost.
LEMMA Untouched ==
  ASSUME LInv, UNCHANGED <<phase, drv>>, flip' # "none" => phase = "open" /\ "dri2" \in drv.held
  PROVE  LInv'
BY DEF LInv, Kept

\* The end of the process keeps the invariant.
LEMMA DieKeeps == ASSUME LInv, Die PROVE LInv'
BY NothingSound DEF Die, LInv, Kept, Sound

\* The calls before the first generation keep it (OMAPProbe, OMAPPreInit).
LEMMA SetupKeeps ==
  ASSUME LInv, Probed \/ PlatformProbed \/ PreInitFails \/ PreInit
  PROVE  LInv'
<1>1. CASE Probed
  <2>1. Grown(drv, Acquire(drv, {"probefd"}))
    <3>1. drv = NoDriver  BY <1>1 DEF LInv, Kept, Probed
    <3> QED  BY <3>1, NothingSound, NeedsValues, AcquireSound
  <2> QED  BY <1>1, <2>1 DEF LInv, Kept, Probed, Elsewhere, Grown, Sound
<1>2. CASE PlatformProbed  BY <1>2 DEF LInv, Kept, PlatformProbed, Elsewhere
<1>3. CASE PreInitFails
  <2>1. drv = NoDriver /\ flip = "none"  BY <1>3 DEF LInv, Kept, PreInitFails
  <2>2. ASSUME NEW left \in {{}, {"fd", "device"}, {"fd", "device", "record"}, {"fd", "device", "kms"}}
        PROVE  Grown(drv, Acquire(drv, left))
    <3>1. left \in SUBSET (Resources \ ServiceSet) /\ \A r \in left : Needs[r] \subseteq left
      BY NeedsValues
    <3> QED  BY <2>1, <3>1, NothingSound, AcquireSound
  <2> QED  BY <1>3, <2>1, <2>2 DEF LInv, Kept, PreInitFails, Elsewhere, Grown, Sound
<1>4. CASE PreInit
  <2>1. drv = NoDriver /\ flip = "none"  BY <1>4 DEF LInv, Kept, PreInit
  <2>2. PICK a \in BOOLEAN, d \in BOOLEAN, c \in BOOLEAN, got \in SUBSET {"kms"} :
          drv' = [Acquire(drv, {"fd", "device", "record"} \cup got) EXCEPT !.accel = a, !.dri = d, !.hwcursor = c]
    BY <1>4 DEF PreInit
  <2> DEFINE rs == {"fd", "device", "record"} \cup got
             e  == Acquire(drv, rs)
  <2>3. Grown(drv, e) /\ e.held = drv.held \cup rs
    <3>1. rs \in SUBSET (Resources \ ServiceSet) /\ \A r \in rs : Needs[r] \subseteq rs
      BY NeedsValues
    <3> QED  BY <2>1, <3>1, NothingSound, AcquireSound
  <2>4. drv' \in Driver /\ drv'.held = e.held /\ drv'.refs = e.refs
    BY <2>2, <2>3 DEF Grown, Sound, Driver
  <2>5. Grown(e, drv')  BY <2>3, <2>4, OptionsSound DEF Grown
  <2> QED  BY <1>4, <2>1, <2>3, <2>4, <2>5 DEF LInv, Kept, PreInit, Grown, Sound
<1> QED  BY <1>1, <1>2, <1>3, <1>4

\* A screen that is set up again finds what it starts from (OMAPScreenInit).
LEMMA StartsSound ==
  ASSUME LInv, Started, Holds("kms"), NEW rs \in {{"scanout"}, {"scanout", "fb"}}
  PROVE  LET d == Acquire(drv, rs) IN Grown(drv, d) /\ Base \cup rs \subseteq d.held
<1>1. Sound(drv) /\ {"fd", "device", "record", "kms"} \subseteq drv.held
  BY DEF LInv, Kept, Started, Holds, Sound
<1>2. rs \in SUBSET (Resources \ ServiceSet) /\ \A r \in rs : Needs[r] \subseteq drv.held \cup rs
  BY <1>1, NeedsValues
<1>3. Grown(drv, Acquire(drv, rs)) /\ Acquire(drv, rs).held = drv.held \cup rs
  BY <1>1, <1>2, AcquireSound
<1> QED  BY <1>1, <1>3 DEF Base

\* A ScreenInit that succeeds keeps the invariant.
LEMMA ScreenInitKeeps == ASSUME LInv, ScreenInit PROVE LInv'
<1> DEFINE d == Acquire(drv, {"scanout", "fb"})
<1>1. Grown(drv, d) /\ Base \cup {"scanout", "fb"} \subseteq d.held /\ flip = "none"
  BY StartsSound DEF ScreenInit, LInv, Started
<1> HIDE DEF d
<1>2. PICK a \in AccelInit(d) : drv' \in UNION {ScreenHandlers(e) : e \in CursorInit(a)}
  BY DEF ScreenInit, d
<1>3. PICK c \in CursorInit(a) : drv' \in ScreenHandlers(c)  BY <1>2
<1>4. Grown(d, a)  BY <1>1, AccelSound DEF Grown
<1>5. Grown(a, c)  BY <1>1, <1>4, CursorSound DEF Grown
<1>6. Grown(c, drv') /\ "notify" \in drv'.held  BY <1>1, <1>3, <1>4, <1>5, HandlersSound DEF Grown
<1> QED  BY <1>1, <1>4, <1>5, <1>6 DEF ScreenInit, LInv, Kept, Grown, Sound

\* So does one that fails, wherever it does.
LEMMA ScreenInitFailsKeeps == ASSUME LInv, ScreenInitFails PROVE LInv'
<1> DEFINE d == Acquire(drv, {"scanout"})
<1>1. Grown(drv, d) /\ Base \cup {"scanout"} \subseteq d.held /\ flip = "none"
  BY StartsSound DEF ScreenInitFails, LInv, Started
<1>2. Sound(drv)  BY DEF ScreenInitFails, LInv, Started, Sound
<1> HIDE DEF d
<1>3. CASE drv' \in {drv, d}
  BY <1>1, <1>2, <1>3 DEF ScreenInitFails, Elsewhere, LInv, Kept, Grown, Sound
<1>4. ASSUME NEW a \in AccelInit(d), drv' \in UNION {{e, Acquire(e, {"fb"})} : e \in CursorInit(a)}
      PROVE  Sound(drv')
  <2>1. PICK c \in CursorInit(a) : drv' \in {c, Acquire(c, {"fb"})}  BY <1>4
  <2>2. Grown(d, a)  BY <1>1, AccelSound DEF Grown
  <2>3. Grown(a, c)  BY <1>1, <2>2, CursorSound DEF Grown
  <2>4. Grown(c, Acquire(c, {"fb"}))
    <3>1. Sound(c) /\ {"fb"} \in SUBSET (Resources \ ServiceSet) /\ Needs["fb"] \subseteq c.held
      BY <1>1, <2>2, <2>3, NeedsValues DEF Grown, Base
    <3> QED  BY <3>1, AcquireSound
  <2> QED  BY <2>1, <2>3, <2>4 DEF Grown
<1>5. CASE \E a \in AccelInit(d) : drv' \in UNION {{e, Acquire(e, {"fb"})} : e \in CursorInit(a)}
  <2>1. Sound(drv')  BY <1>4, <1>5
  <2> QED  BY <1>1, <2>1 DEF ScreenInitFails, Elsewhere, LInv, Kept, Sound
<1> QED  BY <1>3, <1>5 DEF ScreenInitFails, d

\* CloseScreen gives back nothing that what it keeps still needs.
LEMMA CloseKeeps == ASSUME LInv, CloseScreen PROVE LInv'
<1>1. Sound(drv) /\ {"fd", "device", "record"} \subseteq drv.held
  BY DEF CloseScreen, LInv, Kept, Sound, Base
<1>2. Closing \in SUBSET (Resources \ ServiceSet)  BY NeedsValues DEF Closing
<1>3. \A r \in drv.held \ Closing : Needs[r] \cap Closing = {}
  <2>1. drv.held \subseteq Resources  BY <1>1 DEF Sound, Driver
  <2> QED  BY <2>1, NeedsValues DEF Closing
<1>4. Sound(Release(drv, Closing)) /\ Release(drv, Closing).held = drv.held \ Closing
  BY <1>1, <1>2, <1>3, ReleaseSound
<1>5. {"fd", "device", "record"} \subseteq drv'.held  BY <1>1, <1>4 DEF CloseScreen, Closing
<1> QED  BY <1>4, <1>5 DEF CloseScreen, LInv, Kept, Sound

\* FreeScreen counts the services as it should, whatever else it leaves.
LEMMA FreeKeeps == ASSUME LInv, FreeScreen PROVE LInv'
<1> DEFINE u == UseDeInit(drv)
           v == DeInitialiseServices(u)
           w == IF "pvr" \in drv.held THEN v ELSE drv
<1>1. drv \in Driver /\ Counted(drv) /\ flip = "none"  BY DEF LInv, FreeScreen
<1>2. u \in Driver /\ Counted(u)
  BY <1>1, NeedsValues DEF UseDeInit, Release, Driver, Counted
<1>3. v \in Driver /\ Counted(v)
  <2>1. u.refs \in Nat  BY <1>2 DEF Driver
  <2> HIDE DEF u
  <2>2. CASE u.refs = 0  BY <1>2, <2>1, <2>2 DEF DeInitialiseServices
  <2>3. CASE u.refs = 1
    <3> DEFINE g == [u EXCEPT !.refs = @ - 1]
    <3>1. v = Release(g, ServiceSet)  BY <2>3 DEF DeInitialiseServices
    <3>2. g \in Driver /\ g.refs = 0  BY <1>2, <2>3 DEF Driver
    <3> HIDE DEF g
    <3>3. v \in Driver /\ v.refs = 0 /\ v.held = g.held \ ServiceSet
      BY <3>1, <3>2 DEF Release, Driver
    <3> QED  BY <3>3 DEF Counted
  <2>4. CASE u.refs > 1  BY <1>2, <2>1, <2>4 DEF DeInitialiseServices, Driver, Counted
  <2> QED  BY <2>1, <2>2, <2>3, <2>4
<1>4. Freed(drv) \in Driver /\ Counted(Freed(drv))
  <2>1. Freed(drv) = Release(w, {"pvr", "null", "device", "fd", "record"})  BY DEF Freed
  <2>2. w \in Driver /\ Counted(w)  BY <1>1, <1>3
  <2> HIDE DEF w
  <2> QED  BY <2>1, <2>2, NeedsValues DEF Release, Driver, Counted
<1> QED  BY <1>1, <1>4 DEF FreeScreen, Elsewhere, LInv, Kept

\* Every step keeps the invariant.
LEMMA StepKeeps == ASSUME LInv, [Next]_vars PROVE LInv'
<1>1. CASE Probed \/ PlatformProbed \/ PreInitFails \/ PreInit  BY <1>1, SetupKeeps
<1>2. CASE ScreenInitDies \/ CloseScreenDies \/ OutputDies
  BY <1>2, DieKeeps DEF ScreenInitDies, CloseScreenDies, OutputDies
<1>3. CASE ScreenInitFails  BY <1>3, ScreenInitFailsKeeps
<1>4. CASE ScreenInit  BY <1>4, ScreenInitKeeps
<1>5. CASE CloseScreen  BY <1>5, CloseKeeps
<1>6. CASE FreeScreen  BY <1>6, FreeKeeps
<1>7. CASE LeaveVT  BY <1>7, Untouched DEF LeaveVT, LInv
<1>8. CASE EnterVT
  <2>1. CASE Die  BY <2>1, DieKeeps
  <2>2. CASE ~Die  BY <1>8, <2>2, Untouched DEF EnterVT, LInv
  <2> QED  BY <2>1, <2>2
<1>9. CASE Flip  BY <1>9, Untouched DEF Flip, Open, Holds
<1>10. CASE Hotplug \/ Kernel \/ Client \/ Cursor
  BY <1>10, Untouched DEF Hotplug, Kernel, Client, Cursor, lifeVars, LInv
<1>11. CASE Ended \/ UNCHANGED vars  BY <1>11, Untouched DEF Ended, vars, lifeVars, LInv
<1> QED
  BY <1>1, <1>2, <1>3, <1>4, <1>5, <1>6, <1>7, <1>8, <1>9, <1>10, <1>11 DEF Next

\* The invariant says what the driver still uses is all there.
LEMMA KeptIsHeld == ASSUME LInv PROVE InUseIsHeld
<1>1. drv.refs \in Nat  BY DEF LInv, Driver
<1>2. Holds("connection") <=> drv.refs > 0
  BY <1>1, NeedsValues DEF LInv, Counted, Holds
<1>3. flip # "none" => {"dri2", "fb", "notify"} \subseteq drv.held  BY DEF LInv, Kept
<1> QED  BY <1>2, <1>3 DEF InUseIsHeld, LInv, Founded

\* Whichever calls fail, in however many generations, on whatever CRTCs and
\* connectors: the driver is left with nothing that has lost what it needs,
\* until the screen is freed (OMAPScreenInit, OMAPCloseScreen, OMAPFreeScreen).
THEOREM InUseIsHeldAlways == Spec => []InUseIsHeld
<1>1. Init => LInv  BY NothingSound DEF Init, LInv, Kept, Sound
<1>2. LInv /\ [Next]_vars => LInv'  BY StepKeeps
<1>3. LInv => InUseIsHeld  BY KeptIsHeld
<1> QED  BY <1>1, <1>2, <1>3, PTL DEF Spec

-----------------------------------------------------------------------------
(* Induction over the natural numbers, and what it lets one define. *)

\* Numbers, if there are any, have a least one.
LEMMA LeastNumber ==
  ASSUME NEW S \in SUBSET Nat, S # {}
  PROVE  \E m \in S : \A k \in S : m <= k
<1>1. PICK R : /\ IsWellFoundedOn(R, Nat)
               /\ \A x, y \in Nat : <<y, x>> \in R <=> y < x
  <2> DEFINE Q == OpToRel(<, Nat)
  <2>1. IsWellFoundedOn(Q, Nat)
    BY NatLessThanWellFounded
  <2>2. \A x, y \in Nat : <<y, x>> \in Q <=> y < x
    BY DEF OpToRel
  <2> HIDE DEF Q
  <2> QED  BY <2>1, <2>2
<1>2. PICK x \in S : \A y \in S : ~ (<<y, x>> \in R)
  BY <1>1, WFMin
<1>3. \A y \in S : ~ (y < x)
  BY <1>1, <1>2
<1>4. \A y \in S : x <= y
  BY <1>3
<1> QED  BY <1>4

\* A set with 0, and the successor of each of its numbers, has them all.
LEMMA NumbersInduction ==
  ASSUME NEW T, 0 \in T, \A n \in Nat : n \in T => n + 1 \in T
  PROVE  Nat \subseteq T
<1> DEFINE S == {n \in Nat : n \notin T}
<1> SUFFICES ASSUME S # {} PROVE FALSE
  OBVIOUS
<1>1. PICK m \in S : \A k \in S : m <= k
  <2>1. S \in SUBSET Nat
    OBVIOUS
  <2> HIDE DEF S
  <2> QED  BY <2>1, LeastNumber
<1>2. m # 0 /\ m - 1 \in Nat
  OBVIOUS
<1>3. m - 1 \in T
  BY <1>1, <1>2
<1> QED  BY <1>2, <1>3

\* f goes from a through n steps of g.
Steps(f, S, a, n, g) ==
  f \in [0 .. n -> S] /\ f[0] = a /\ \A i \in 1 .. n : f[i] = g[i][f[i - 1]]

\* There is such a function.
LEMMA StepsExist ==
  ASSUME NEW S, NEW a \in S, NEW n \in Nat, NEW g \in [1 .. n -> [S -> S]]
  PROVE  \E f : Steps(f, S, a, n, g)
<1> DEFINE T == {m \in Nat : m <= n => \E f : Steps(f, S, a, m, g)}
<1>1. 0 \in T
  <2>1. Steps([i \in 0 .. 0 |-> a], S, a, 0, g)
    BY DEF Steps
  <2> QED  BY <2>1
<1>2. ASSUME NEW m \in Nat, m \in T PROVE m + 1 \in T
  <2> SUFFICES ASSUME m + 1 <= n PROVE \E f : Steps(f, S, a, m + 1, g)
    OBVIOUS
  <2>1. PICK f : Steps(f, S, a, m, g)
    BY <1>2
  <2> DEFINE h == [i \in 0 .. (m + 1) |-> IF i = m + 1 THEN g[m + 1][f[m]] ELSE f[i]]
  <2>2. f[m] \in S /\ g[m + 1] \in [S -> S]
    BY <2>1 DEF Steps
  <2>3. h \in [0 .. (m + 1) -> S] /\ h[0] = a
    BY <2>1, <2>2 DEF Steps
  <2>4. ASSUME NEW i \in 1 .. (m + 1) PROVE h[i] = g[i][h[i - 1]]
    <3>1. CASE i = m + 1
      <4>1. h[i] = g[m + 1][f[m]] /\ h[i - 1] = f[m]
        BY <3>1
      <4> QED  BY <3>1, <4>1
    <3>2. CASE i \in 1 .. m
      <4>1. h[i] = f[i] /\ h[i - 1] = f[i - 1]
        BY <3>2
      <4> QED  BY <2>1, <3>2, <4>1 DEF Steps
    <3> QED  BY <3>1, <3>2
  <2> HIDE DEF h
  <2>5. Steps(h, S, a, m + 1, g)
    BY <2>3, <2>4 DEF Steps
  <2> QED  BY <2>5
<1> HIDE DEF T
<1>3. Nat \subseteq T
  BY <1>1, <1>2, NumbersInduction
<1> QED  BY <1>3 DEF T

-----------------------------------------------------------------------------
(* The cursor: every call of the server leaves a record that is Pictured.  *)

CursorStates == {s \in CursorState : Pictured(s)}

\* A CRTC shows an area of the screen.
LEMMA Areas ==
  /\ Len(Crtcs) \in Nat \ {0} /\ DOMAIN Crtcs = 1 .. Len(Crtcs)
  /\ \A c \in DOMAIN Crtcs : /\ Crtcs[c].x \in Int /\ Crtcs[c].y \in Int
                             /\ Crtcs[c].w \in Nat \ {0} /\ Crtcs[c].h \in Nat \ {0}
<1> DEFINE Area == [x : Int, y : Int, w : Nat \ {0}, h : Nat \ {0}]
<1>1. Crtcs \in Seq(Area) /\ Crtcs # <<>>
  BY CursorAssumption
<1>2. \A a \in Area : a.x \in Int /\ a.y \in Int /\ a.w \in Nat \ {0} /\ a.h \in Nat \ {0}
  OBVIOUS
<1> HIDE DEF Area
<1>3. DOMAIN Crtcs = 1 .. Len(Crtcs) /\ Len(Crtcs) \in Nat /\ Len(Crtcs) # 0
  BY <1>1
<1>4. \A c \in DOMAIN Crtcs : Crtcs[c] \in Area
  BY <1>1, <1>3
<1> QED  BY <1>2, <1>3, <1>4

\* The clipped span is the part of the cursor that lies on the CRTC, with its
\* points in their places (drmmode_show_cursor_image).
LEMMA ClipCovers ==
  ASSUME NEW p \in Int, NEW size \in Nat \ {0}, NEW limit \in Nat \ {0},
         p \in 1 - size .. limit - 1
  PROVE  LET span == ClipPlane(p, size, limit)
         IN  /\ span.len > 0 /\ span.at + span.len <= limit
             /\ span.at - span.src = p
             /\ Covers(span, p, size, limit)
<1> DEFINE span == ClipPlane(p, size, limit)
<1>1. /\ span.at \in Int /\ span.len \in Int /\ span.src \in Int
      /\ span.at = IF p < 0 THEN 0 ELSE p
      /\ span.src = IF p < 0 THEN -p ELSE 0
      /\ span.at + span.len = IF p + size > limit THEN limit ELSE p + size
  BY DEF ClipPlane
<1> HIDE DEF span
<1>2. span.len > 0 /\ span.at + span.len <= limit /\ span.at - span.src = p
  BY <1>1
<1>3. \A i \in Int : i \in p .. p + size - 1 /\ i \in 0 .. limit - 1
                       <=> i - span.at \in 0 .. span.len - 1
  BY <1>1
<1>4. Covers(span, p, size, limit)
  <2>1. ASSUME NEW k \in 0 .. span.len - 1
        PROVE  span.at + k \in p .. p + size - 1 /\ span.at + k \in 0 .. limit - 1
    <3>1. span.at + k \in Int /\ (span.at + k) - span.at = k  BY <1>1
    <3> QED  BY <1>3, <3>1
  <2>2. ASSUME NEW i \in p .. p + size - 1, i \in 0 .. limit - 1
        PROVE  i - span.at \in 0 .. span.len - 1 /\ i = span.at + (i - span.at)
    <3>1. i \in Int  OBVIOUS
    <3>2. i - span.at \in 0 .. span.len - 1  BY <1>3, <2>2, <3>1
    <3> QED  BY <1>1, <3>1, <3>2
  <2>3. {span.at + i : i \in 0 .. span.len - 1} \subseteq {i \in p .. p + size - 1 : i \in 0 .. limit - 1}
    BY <2>1
  <2>4. {i \in p .. p + size - 1 : i \in 0 .. limit - 1} \subseteq {span.at + i : i \in 0 .. span.len - 1}
    BY <2>2
  <2> QED  BY <2>3, <2>4 DEF Covers
<1> QED  BY <1>2, <1>4 DEF span

\* The picture of a cursor is of the type, wherever the cursor is.
LEMMA PictureTyped ==
  ASSUME NEW s \in CursorState, NEW c \in DOMAIN Crtcs
  PROVE  PictureAt(s, c) \in PictureType /\ PictureAt(s, c).crtc = c
<1>1. /\ Crtcs[c].w \in Int /\ Crtcs[c].h \in Int /\ CursorW \in Int /\ CursorH \in Int
      /\ s.x \in Int /\ s.y \in Int
  <2>1. s.x \in Int /\ s.y \in Int  BY DEF CursorState
  <2> QED  BY <2>1, Areas, CursorAssumption
<1>2. ASSUME NEW p \in Int, NEW size \in Int, NEW limit \in Int
      PROVE  ClipPlane(p, size, limit) \in SpanType
  BY DEF ClipPlane, SpanType
<1> QED  BY <1>1, <1>2 DEF PictureAt, PictureType

\* Showing the cursor shows it, whatever the plane showed before.
LEMMA ShowPictured ==
  ASSUME NEW s \in CursorState, NEW c \in DOMAIN Crtcs
  PROVE  Show(s, c) \in CursorStates
<1> DEFINE p == PictureAt(s, c)
           t == Show(s, c)
           m == Crtcs[c]
<1>1. p \in PictureType /\ p.crtc = c
  BY PictureTyped
<1>2. /\ p.h = ClipPlane(s.x, CursorW, m.w) /\ p.v = ClipPlane(s.y, CursorH, m.h)
  BY DEF PictureAt
<1> HIDE DEF p
<1>3. t = [s EXCEPT !.visible = TRUE, !.crtc = c, !.picture = IF Accepted(p) THEN p ELSE @]
  BY DEF Show, p
<1>4. /\ t \in CursorState /\ t.visible = TRUE /\ t.crtc = c /\ t.x = s.x /\ t.y = s.y
      /\ Accepted(p) => t.picture = p
  BY <1>1, <1>3 DEF CursorState
<1> HIDE DEF t
<1>5. m.w \in Nat \ {0} /\ m.h \in Nat \ {0} /\ CursorW \in Nat \ {0} /\ CursorH \in Nat \ {0}
  BY Areas, CursorAssumption
<1>6. ASSUME s.x \in 1 - CursorW .. m.w - 1, s.y \in 1 - CursorH .. m.h - 1
      PROVE  /\ Accepted(p) /\ p # None
             /\ Covers(p.h, s.x, CursorW, m.w) /\ p.h.at - p.h.src = s.x
             /\ Covers(p.v, s.y, CursorH, m.h) /\ p.v.at - p.v.src = s.y
  <2>1. /\ p.h.len > 0 /\ p.h.at + p.h.len <= m.w
        /\ p.h.at - p.h.src = s.x /\ Covers(p.h, s.x, CursorW, m.w)
    BY <1>2, <1>5, <1>6, ClipCovers DEF CursorState
  <2>2. /\ p.v.len > 0 /\ p.v.at + p.v.len <= m.h
        /\ p.v.at - p.v.src = s.y /\ Covers(p.v, s.y, CursorH, m.h)
    BY <1>2, <1>5, <1>6, ClipCovers DEF CursorState
  <2> QED  BY <1>1, <2>1, <2>2, PlaneOffAssumption DEF Accepted
<1>7. Pictured(t)
  BY <1>1, <1>4, <1>6 DEF Pictured
<1> QED  BY <1>4, <1>7 DEF CursorStates, t

\* The driver's calls keep the record Pictured (drmmode_hide_cursor,
\* drmmode_set_cursor_position, drmmode_load_cursor_argb).
LEMMA DriverPictured ==
  ASSUME NEW s \in CursorStates, NEW c \in DOMAIN Crtcs
  PROVE  /\ Hide(s, c) \in CursorStates
         /\ Load(s, c) \in CursorStates
         /\ \A x, y \in Int : SetPosition(s, c, x, y) \in CursorStates
<1>1. s \in CursorState /\ Pictured(s)
  BY DEF CursorStates
<1>2. Hide(s, c) \in CursorState /\ Pictured(Hide(s, c))
  BY <1>1 DEF Hide, CursorState, Pictured
<1>3. Load(s, c) \in CursorStates
  BY <1>2, ShowPictured DEF Load
<1>4. ASSUME NEW x \in Int, NEW y \in Int
      PROVE  SetPosition(s, c, x, y) \in CursorStates
  <2> DEFINE t == [s EXCEPT !.x = x, !.y = y]
  <2>1. t \in CursorState /\ t.visible = s.visible /\ t.picture = s.picture
    BY <1>1 DEF CursorState
  <2>2. SetPosition(s, c, x, y) = IF s.visible THEN Show(t, c) ELSE t
    BY DEF SetPosition
  <2> HIDE DEF t
  <2>3. ~s.visible => Pictured(t)
    BY <1>1, <2>1 DEF Pictured
  <2> QED  BY <2>1, <2>2, <2>3, ShowPictured DEF CursorStates
<1> QED  BY <1>2, <1>3, <1>4 DEF CursorStates

\* What the server remembers does not matter to the plane.
LEMMA ServerPictured ==
  ASSUME NEW s \in CursorStates, NEW c \in DOMAIN Crtcs, NEW b \in BOOLEAN
  PROVE  [s EXCEPT !.shown[c] = b] \in CursorStates /\ [s EXCEPT !.inRange[c] = b] \in CursorStates
<1> DEFINE t == [s EXCEPT !.shown[c] = b]
           u == [s EXCEPT !.inRange[c] = b]
<1>0. s \in CursorState /\ Pictured(s)
  BY DEF CursorStates
<1>1. /\ t \in CursorState /\ t.visible = s.visible /\ t.picture = s.picture
      /\ t.x = s.x /\ t.y = s.y /\ t.crtc = s.crtc
  BY <1>0 DEF CursorState
<1>2. /\ u \in CursorState /\ u.visible = s.visible /\ u.picture = s.picture
      /\ u.x = s.x /\ u.y = s.y /\ u.crtc = s.crtc
  BY <1>0 DEF CursorState
<1> HIDE DEF t, u
<1>3. Pictured(t) /\ Pictured(u)
  BY <1>0, <1>1, <1>2 DEF Pictured
<1> QED  BY <1>1, <1>2, <1>3 DEF CursorStates, t, u

\* The server's calls for one CRTC keep the record Pictured.
LEMMA OneCrtcPictured ==
  ASSUME NEW s \in CursorStates, NEW c \in DOMAIN Crtcs
  PROVE  /\ HideOn(s, c) \in CursorStates
         /\ ShowOn(s, c) \in CursorStates
         /\ \A p \in Pointers : MoveOn(p, s, c) \in CursorStates
<1>1. HideOn(s, c) \in CursorStates
  <2>1. [s EXCEPT !.shown[c] = FALSE] \in CursorStates  BY ServerPictured
  <2> QED  BY <2>1, DriverPictured DEF HideOn
<1>2. ASSUME NEW t \in CursorStates PROVE ShowOn(t, c) \in CursorStates
  <2>1. [t EXCEPT !.shown[c] = TRUE] \in CursorState  BY ServerPictured DEF CursorStates
  <2> QED  BY <2>1, ShowPictured DEF ShowOn
<1>3. ASSUME NEW t \in CursorStates PROVE HideOn(t, c) \in CursorStates
  <2>1. [t EXCEPT !.shown[c] = FALSE] \in CursorStates  BY ServerPictured
  <2> QED  BY <2>1, DriverPictured DEF HideOn
<1>4. ASSUME NEW p \in Pointers PROVE MoveOn(p, s, c) \in CursorStates
  <2> DEFINE x  == p.x - Crtcs[c].x
             y  == p.y - Crtcs[c].y
             in == x > -CursorW /\ x < Crtcs[c].w /\ y > -CursorH /\ y < Crtcs[c].h
             t  == [s EXCEPT !.inRange[c] = in]
  <2>1. x \in Int /\ y \in Int
    <3>1. p.x \in Int /\ p.y \in Int
      <4>1. p \in [x : Int, y : Int]  BY CursorAssumption
      <4> QED  BY <4>1
    <3>2. Crtcs[c].x \in Int /\ Crtcs[c].y \in Int  BY Areas
    <3> QED  BY <3>1, <3>2
  <2>2. in \in BOOLEAN  OBVIOUS
  <2>3. MoveOn(p, s, c) = IF in THEN ShowOn(SetPosition(t, c, x, y), c) ELSE HideOn(t, c)
    BY DEF MoveOn
  <2> HIDE DEF x, y, in
  <2>4. t \in CursorStates  BY <2>2, ServerPictured
  <2> HIDE DEF t
  <2>5. SetPosition(t, c, x, y) \in CursorStates  BY <2>1, <2>4, DriverPictured
  <2> QED  BY <1>2, <1>3, <2>3, <2>4, <2>5
<1> QED  BY <1>1, <1>2, <1>4

\* What holds at first and is kept by each of n steps holds at the end.
LEMMA EveryStep ==
  ASSUME NEW f, NEW S, NEW n \in Nat, f[0] \in S,
         \A i \in 1 .. n : f[i - 1] \in S => f[i] \in S
  PROVE  f[n] \in S
<1> DEFINE T == {m \in Nat : m <= n => f[m] \in S}
<1>1. 0 \in T  OBVIOUS
<1>2. ASSUME NEW m \in Nat, m \in T PROVE m + 1 \in T
  <2> SUFFICES ASSUME m + 1 <= n PROVE f[m + 1] \in S  OBVIOUS
  <2>1. m + 1 \in 1 .. n /\ (m + 1) - 1 = m /\ f[m] \in S  BY <1>2
  <2> QED  BY <2>1
<1> HIDE DEF T
<1>3. n \in T  BY <1>1, <1>2, NumbersInduction
<1> QED  BY <1>3 DEF T

\* Calling every CRTC in turn keeps the record Pictured: to hide the cursor,
LEMMA HideAllPictured ==
  ASSUME NEW s \in CursorStates
  PROVE  HideAll(s) \in CursorStates
<1> DEFINE n == Len(Crtcs)
           Op(t, i) == HideOn(t, i)
           F(f) == [i \in 0 .. n |-> IF i = 0 THEN s ELSE Op(f[i - 1], i)]
           c == CHOOSE f : f = F(f)
           g == [i \in 1 .. n |-> [t \in CursorStates |-> Op(t, i)]]
<1>1. HideAll(s) = c[n]
  BY DEF HideAll, EachCrtc
<1>2. n \in Nat /\ \A i \in 1 .. n, t \in CursorStates : Op(t, i) \in CursorStates
  BY Areas, OneCrtcPictured
<1> HIDE DEF c, n, Op
<1>3. /\ g \in [1 .. n -> [CursorStates -> CursorStates]]
      /\ \A i \in 1 .. n, t \in CursorStates : g[i][t] = Op(t, i)
  BY <1>2
<1> HIDE DEF g
<1>4. PICK h : Steps(h, CursorStates, s, n, g)
  BY <1>2, <1>3, StepsExist
<1>5. h = F(h)
  <2>1. h = [i \in 0 .. n |-> h[i]] /\ h[0] = s /\ \A i \in 0 .. n : h[i] \in CursorStates
    BY <1>4 DEF Steps
  <2>2. ASSUME NEW i \in 1 .. n PROVE i \in 0 .. n /\ i # 0 /\ h[i] = Op(h[i - 1], i)
    <3>1. i - 1 \in 0 .. n /\ i # 0 /\ i \in 0 .. n  BY <1>2
    <3> QED  BY <1>3, <1>4, <2>1, <3>1 DEF Steps
  <2>3. \A i \in 0 .. n : i = 0 \/ i \in 1 .. n  BY <1>2
  <2>4. \A i \in 0 .. n : h[i] = IF i = 0 THEN s ELSE Op(h[i - 1], i)  BY <2>1, <2>2, <2>3
  <2> QED  BY <2>1, <2>4
<1>6. c = F(c)  BY <1>5 DEF c
<1>7. c[0] = s /\ \A i \in 1 .. n : c[i] = Op(c[i - 1], i)
  <2>1. 0 \in 0 .. n /\ \A i \in 1 .. n : i \in 0 .. n /\ i # 0  BY <1>2
  <2>2. \A i \in 0 .. n : c[i] = IF i = 0 THEN s ELSE Op(c[i - 1], i)  BY <1>6
  <2> QED  BY <2>1, <2>2
<1>8. \A i \in 1 .. n : c[i - 1] \in CursorStates => c[i] \in CursorStates  BY <1>2, <1>7
<1>9. c[n] \in CursorStates  BY <1>2, <1>7, <1>8, EveryStep
<1> QED  BY <1>1, <1>9

\* to move it,
LEMMA MoveAllPictured ==
  ASSUME NEW s \in CursorStates, NEW p \in Pointers
  PROVE  MoveAll(s, p) \in CursorStates
<1> DEFINE n == Len(Crtcs)
           Op(t, i) == MoveOn(p, t, i)
           F(f) == [i \in 0 .. n |-> IF i = 0 THEN s ELSE Op(f[i - 1], i)]
           c == CHOOSE f : f = F(f)
           g == [i \in 1 .. n |-> [t \in CursorStates |-> Op(t, i)]]
<1>1. MoveAll(s, p) = c[n]
  BY DEF MoveAll, EachCrtc
<1>2. n \in Nat /\ \A i \in 1 .. n, t \in CursorStates : Op(t, i) \in CursorStates
  BY Areas, OneCrtcPictured
<1> HIDE DEF c, n, Op
<1>3. /\ g \in [1 .. n -> [CursorStates -> CursorStates]]
      /\ \A i \in 1 .. n, t \in CursorStates : g[i][t] = Op(t, i)
  BY <1>2
<1> HIDE DEF g
<1>4. PICK h : Steps(h, CursorStates, s, n, g)
  BY <1>2, <1>3, StepsExist
<1>5. h = F(h)
  <2>1. h = [i \in 0 .. n |-> h[i]] /\ h[0] = s /\ \A i \in 0 .. n : h[i] \in CursorStates
    BY <1>4 DEF Steps
  <2>2. ASSUME NEW i \in 1 .. n PROVE i \in 0 .. n /\ i # 0 /\ h[i] = Op(h[i - 1], i)
    <3>1. i - 1 \in 0 .. n /\ i # 0 /\ i \in 0 .. n  BY <1>2
    <3> QED  BY <1>3, <1>4, <2>1, <3>1 DEF Steps
  <2>3. \A i \in 0 .. n : i = 0 \/ i \in 1 .. n  BY <1>2
  <2>4. \A i \in 0 .. n : h[i] = IF i = 0 THEN s ELSE Op(h[i - 1], i)  BY <2>1, <2>2, <2>3
  <2> QED  BY <2>1, <2>4
<1>6. c = F(c)  BY <1>5 DEF c
<1>7. c[0] = s /\ \A i \in 1 .. n : c[i] = Op(c[i - 1], i)
  <2>1. 0 \in 0 .. n /\ \A i \in 1 .. n : i \in 0 .. n /\ i # 0  BY <1>2
  <2>2. \A i \in 0 .. n : c[i] = IF i = 0 THEN s ELSE Op(c[i - 1], i)  BY <1>6
  <2> QED  BY <2>1, <2>2
<1>8. \A i \in 1 .. n : c[i - 1] \in CursorStates => c[i] \in CursorStates  BY <1>2, <1>7
<1>9. c[n] \in CursorStates  BY <1>2, <1>7, <1>8, EveryStep
<1> QED  BY <1>1, <1>9

\* to load its image,
LEMMA LoadAllPictured ==
  ASSUME NEW s \in CursorStates
  PROVE  LoadAll(s) \in CursorStates
<1> DEFINE n == Len(Crtcs)
           Op(t, i) == Load(t, i)
           F(f) == [i \in 0 .. n |-> IF i = 0 THEN s ELSE Op(f[i - 1], i)]
           c == CHOOSE f : f = F(f)
           g == [i \in 1 .. n |-> [t \in CursorStates |-> Op(t, i)]]
<1>1. LoadAll(s) = c[n]
  BY DEF LoadAll, EachCrtc
<1>2. n \in Nat /\ \A i \in 1 .. n, t \in CursorStates : Op(t, i) \in CursorStates
  BY Areas, DriverPictured
<1> HIDE DEF c, n, Op
<1>3. /\ g \in [1 .. n -> [CursorStates -> CursorStates]]
      /\ \A i \in 1 .. n, t \in CursorStates : g[i][t] = Op(t, i)
  BY <1>2
<1> HIDE DEF g
<1>4. PICK h : Steps(h, CursorStates, s, n, g)
  BY <1>2, <1>3, StepsExist
<1>5. h = F(h)
  <2>1. h = [i \in 0 .. n |-> h[i]] /\ h[0] = s /\ \A i \in 0 .. n : h[i] \in CursorStates
    BY <1>4 DEF Steps
  <2>2. ASSUME NEW i \in 1 .. n PROVE i \in 0 .. n /\ i # 0 /\ h[i] = Op(h[i - 1], i)
    <3>1. i - 1 \in 0 .. n /\ i # 0 /\ i \in 0 .. n  BY <1>2
    <3> QED  BY <1>3, <1>4, <2>1, <3>1 DEF Steps
  <2>3. \A i \in 0 .. n : i = 0 \/ i \in 1 .. n  BY <1>2
  <2>4. \A i \in 0 .. n : h[i] = IF i = 0 THEN s ELSE Op(h[i - 1], i)  BY <2>1, <2>2, <2>3
  <2> QED  BY <2>1, <2>4
<1>6. c = F(c)  BY <1>5 DEF c
<1>7. c[0] = s /\ \A i \in 1 .. n : c[i] = Op(c[i - 1], i)
  <2>1. 0 \in 0 .. n /\ \A i \in 1 .. n : i \in 0 .. n /\ i # 0  BY <1>2
  <2>2. \A i \in 0 .. n : c[i] = IF i = 0 THEN s ELSE Op(c[i - 1], i)  BY <1>6
  <2> QED  BY <2>1, <2>2
<1>8. \A i \in 1 .. n : c[i - 1] \in CursorStates => c[i] \in CursorStates  BY <1>2, <1>7
<1>9. c[n] \in CursorStates  BY <1>2, <1>7, <1>8, EveryStep
<1> QED  BY <1>1, <1>9

\* to show it.
LEMMA ShowAllPictured ==
  ASSUME NEW s \in CursorStates
  PROVE  ShowAll(s) \in CursorStates
<1> DEFINE n == Len(Crtcs)
           Op(t, i) == ShowOn(t, i)
           F(f) == [i \in 0 .. n |-> IF i = 0 THEN s ELSE Op(f[i - 1], i)]
           c == CHOOSE f : f = F(f)
           g == [i \in 1 .. n |-> [t \in CursorStates |-> Op(t, i)]]
<1>1. ShowAll(s) = c[n]
  BY DEF ShowAll, EachCrtc
<1>2. n \in Nat /\ \A i \in 1 .. n, t \in CursorStates : Op(t, i) \in CursorStates
  BY Areas, OneCrtcPictured
<1> HIDE DEF c, n, Op
<1>3. /\ g \in [1 .. n -> [CursorStates -> CursorStates]]
      /\ \A i \in 1 .. n, t \in CursorStates : g[i][t] = Op(t, i)
  BY <1>2
<1> HIDE DEF g
<1>4. PICK h : Steps(h, CursorStates, s, n, g)
  BY <1>2, <1>3, StepsExist
<1>5. h = F(h)
  <2>1. h = [i \in 0 .. n |-> h[i]] /\ h[0] = s /\ \A i \in 0 .. n : h[i] \in CursorStates
    BY <1>4 DEF Steps
  <2>2. ASSUME NEW i \in 1 .. n PROVE i \in 0 .. n /\ i # 0 /\ h[i] = Op(h[i - 1], i)
    <3>1. i - 1 \in 0 .. n /\ i # 0 /\ i \in 0 .. n  BY <1>2
    <3> QED  BY <1>3, <1>4, <2>1, <3>1 DEF Steps
  <2>3. \A i \in 0 .. n : i = 0 \/ i \in 1 .. n  BY <1>2
  <2>4. \A i \in 0 .. n : h[i] = IF i = 0 THEN s ELSE Op(h[i - 1], i)  BY <2>1, <2>2, <2>3
  <2> QED  BY <2>1, <2>4
<1>6. c = F(c)  BY <1>5 DEF c
<1>7. c[0] = s /\ \A i \in 1 .. n : c[i] = Op(c[i - 1], i)
  <2>1. 0 \in 0 .. n /\ \A i \in 1 .. n : i \in 0 .. n /\ i # 0  BY <1>2
  <2>2. \A i \in 0 .. n : c[i] = IF i = 0 THEN s ELSE Op(c[i - 1], i)  BY <1>6
  <2> QED  BY <2>1, <2>2
<1>8. \A i \in 1 .. n : c[i - 1] \in CursorStates => c[i] \in CursorStates  BY <1>2, <1>7
<1>9. c[n] \in CursorStates  BY <1>2, <1>7, <1>8, EveryStep
<1> QED  BY <1>1, <1>9

\* So does whatever the server does with the cursor.
LEMMA UseCursorPictured ==
  ASSUME cursor \in CursorStates, UseCursor
  PROVE  cursor' \in CursorStates
<1>1. PICK p \in Pointers : cursor' \in {MoveAll(cursor, p), NewImage(cursor, p),
                                         Reload(cursor, p), HideAll(cursor)}
  BY DEF UseCursor
<1>2. ASSUME NEW s \in CursorStates PROVE ShowAll(MoveAll(LoadAll(s), p)) \in CursorStates
  BY LoadAllPictured, MoveAllPictured, ShowAllPictured
<1>3. NewImage(cursor, p) \in CursorStates /\ Reload(cursor, p) \in CursorStates
  BY <1>2, HideAllPictured DEF NewImage, Reload
<1> QED  BY <1>1, <1>3, MoveAllPictured, HideAllPictured

\* The cursor starts off.
LEMMA NoCursorPictured == NoCursor \in CursorStates
BY Areas DEF NoCursor, CursorStates, CursorState, Pictured

\* Every step leaves the cursor Pictured.
LEMMA StepPictured ==
  ASSUME cursor \in CursorStates, [Next]_vars
  PROVE  cursor' \in CursorStates
<1>1. CASE Die  BY <1>1, NoCursorPictured DEF Die
<1>2. CASE UNCHANGED cursor  BY <1>2
<1>3. CASE Probed \/ PlatformProbed \/ PreInitFails \/ PreInit \/ ScreenInitFails \/ FreeScreen
  BY <1>3 DEF Probed, PlatformProbed, PreInitFails, PreInit, ScreenInitFails, FreeScreen, Elsewhere
<1>4. CASE ScreenInitDies \/ CloseScreenDies \/ OutputDies
  BY <1>1, <1>4 DEF ScreenInitDies, CloseScreenDies, OutputDies
<1>5. CASE ScreenInit \/ CloseScreen \/ Flip \/ Hotplug \/ Kernel \/ Client
  BY <1>5 DEF ScreenInit, CloseScreen, Flip, Hotplug, Kernel, Client
<1>6. CASE LeaveVT  BY <1>6, HideAllPictured DEF LeaveVT
<1>7. CASE EnterVT  BY <1>1, <1>7 DEF EnterVT
<1>8. CASE Cursor  BY <1>8, UseCursorPictured DEF Cursor
<1>9. CASE Ended \/ UNCHANGED vars  BY <1>9 DEF Ended, vars
<1> QED  BY <1>3, <1>4, <1>5, <1>6, <1>7, <1>8, <1>9 DEF Next

\* Wherever the pointer goes, on whatever CRTCs: the plane shows the cursor as
\* the driver last said, and nothing while it is hidden (drmmode_show_cursor,
\* drmmode_hide_cursor, drmmode_set_cursor_position).
THEOREM CursorAlwaysShown == Spec => []CursorShown
<1>1. Init => cursor \in CursorStates  BY NoCursorPictured DEF Init
<1>2. cursor \in CursorStates /\ [Next]_vars => (cursor \in CursorStates)'  BY StepPictured
<1>3. cursor \in CursorStates => CursorShown  BY DEF CursorStates, CursorShown
<1> QED  BY <1>1, <1>2, <1>3, PTL DEF Spec

-----------------------------------------------------------------------------
(* The types: the services are counted at most once in a generation, and   *)
(* every snapshot RandR is told of is one the kernel gave.                 *)

\* Acquire leaves all but what is held.
LEMMA AcquireCounts ==
  ASSUME NEW d \in Driver, NEW rs \in SUBSET Resources
  PROVE  Acquire(d, rs) \in Driver /\ Acquire(d, rs).refs = d.refs
BY DEF Acquire, Driver

\* A ScreenInit takes at most one reference to the services.
LEMMA AccelCounts ==
  ASSUME NEW d, Sound(d), Base \subseteq d.held, NEW f \in AccelInit(d)
  PROVE  f.refs <= d.refs + 1
<1>0. d \in Driver /\ d.refs \in Nat  BY DEF Sound, Driver
<1>1. ASSUME NEW e \in InitialiseServices(d) PROVE e \in Driver /\ e.refs \in Nat /\ e.refs <= d.refs + 1
  <2>1. e \in Driver /\ e.refs \in Nat  BY ServicesSound DEF Grown, Sound
  <2>2. CASE d.refs > 0
    <3>1. e = [d EXCEPT !.refs = @ + 1]  BY <2>2 DEF InitialiseServices
    <3> QED  BY <1>0, <2>1, <3>1 DEF Driver
  <2>3. CASE ~(d.refs > 0)
    <3>1. ServiceSet \cap d.held = {}  BY <2>3 DEF Sound, Counted
    <3>2. CASE e = [Acquire(d, ServiceSet) EXCEPT !.refs = 1]
      <4>1. Acquire(d, ServiceSet) \in Driver  BY <1>0, NeedsValues, AcquireCounts
      <4>2. e.refs = 1  BY <3>2, <4>1 DEF Driver
      <4> QED  BY <1>0, <2>1, <4>2
    <3>3. CASE \E n \in DOMAIN Services : e = FailedAt(d, n)
      <4>1. e = d  BY <1>0, <3>1, <3>3, LabelsComplete
      <4> QED  BY <1>0, <4>1
    <3> QED  BY <2>3, <3>2, <3>3 DEF InitialiseServices
  <2> QED  BY <2>1, <2>2, <2>3
<1>2. ASSUME NEW e \in InitPowerVREXA(d) PROVE e \in Driver /\ e.refs <= d.refs + 1
  <2>1. CASE e \in InitialiseServices(d)  BY <1>1, <2>1
  <2>2. CASE \E g \in InitialiseServices(d) : e \in {UseInit(g), Acquire(UseInit(g), {"pvr"})}
    <3>1. PICK g \in InitialiseServices(d) : e \in {UseInit(g), Acquire(UseInit(g), {"pvr"})}
      BY <2>2
    <3>2. UseInit(g) \in Driver /\ UseInit(g).refs = g.refs
      BY <1>1, NeedsValues, AcquireCounts DEF UseInit
    <3>3. Acquire(UseInit(g), {"pvr"}) \in Driver /\ Acquire(UseInit(g), {"pvr"}).refs = g.refs
      BY <3>2, NeedsValues, AcquireCounts
    <3> QED  BY <1>1, <3>1, <3>2, <3>3
  <2> QED  BY <2>1, <2>2 DEF InitPowerVREXA
<1>3. ASSUME NEW e \in InitEXA(d) PROVE e \in Driver /\ e.refs <= d.refs + 1
  <2> DEFINE tried == IF d.accel THEN {[g EXCEPT !.accel = "pvr" \in g.held] : g \in InitPowerVREXA(d)}
                      ELSE {d}
             either(g) == IF "pvr" \in g.held THEN {g} ELSE InitNullEXA(g)
  <2>1. \A g \in tried : g \in Driver /\ g.refs <= d.refs + 1
    <3>1. ASSUME NEW g \in InitPowerVREXA(d), NEW b \in BOOLEAN
          PROVE  [g EXCEPT !.accel = b] \in Driver /\ [g EXCEPT !.accel = b].refs = g.refs
      BY <1>2 DEF Driver
    <3>2. ASSUME NEW g \in InitPowerVREXA(d)
          PROVE  /\ [g EXCEPT !.accel = "pvr" \in g.held] \in Driver
                 /\ [g EXCEPT !.accel = "pvr" \in g.held].refs <= d.refs + 1
      <4> DEFINE b == "pvr" \in g.held
      <4>1. b \in BOOLEAN  OBVIOUS
      <4> HIDE DEF b
      <4>2. [g EXCEPT !.accel = b] \in Driver /\ [g EXCEPT !.accel = b].refs = g.refs  BY <3>1, <4>1
      <4>3. [g EXCEPT !.accel = b] \in Driver /\ [g EXCEPT !.accel = b].refs <= d.refs + 1
        BY <1>2, <4>2
      <4> QED  BY <4>3 DEF b
    <3> DEFINE Fine(g) == g \in Driver /\ g.refs <= d.refs + 1
    <3>3. Fine(d)  BY <1>0
    <3>4. \A g \in InitPowerVREXA(d) : Fine([g EXCEPT !.accel = "pvr" \in g.held])  BY <3>2
    <3> HIDE DEF Fine
    <3>5. \A g \in tried : Fine(g)  BY <3>3, <3>4
    <3> QED  BY <3>5 DEF Fine
  <2>2. e \in UNION {either(g) : g \in tried}  BY DEF InitEXA
  <2>3. PICK g \in tried : e \in either(g)
    <3> HIDE DEF tried, either
    <3> QED  BY <2>2
  <2>4. CASE e = g  BY <2>1, <2>4
  <2>5. CASE e \in InitNullEXA(g)
    <3>1. Acquire(g, {"null"}) \in Driver /\ Acquire(g, {"null"}).refs = g.refs
      BY <2>1, NeedsValues, AcquireCounts
    <3> QED  BY <2>1, <2>5, <3>1 DEF InitNullEXA
  <2> QED  BY <2>3, <2>4, <2>5
<1> DEFINE with(e)  == e.dri /\ e.held \cap Exa # {}
           dri2(e)  == {[e EXCEPT !.dri = FALSE]} \cup (IF with(e) THEN {Acquire(e, {"dri2"})} ELSE {})
           video(e) == IF "pvr" \in e.held THEN Acquire(e, {"xv"}) ELSE e
<1>4. PICK e \in InitEXA(d) : \E h \in dri2(e) : f = video(h)  BY DEF AccelInit
<1>5. PICK h \in dri2(e) : f = video(h)  BY <1>4
<1>6. h \in Driver /\ h.refs = e.refs
  <2>1. CASE h = [e EXCEPT !.dri = FALSE]  BY <1>3, <2>1 DEF Driver
  <2>2. CASE h = Acquire(e, {"dri2"})  BY <1>3, <2>2, NeedsValues, AcquireCounts
  <2> QED  BY <1>5, <2>1, <2>2
<1>7. f.refs = h.refs  BY <1>5, <1>6, NeedsValues, AcquireCounts
<1> QED  BY <1>3, <1>6, <1>7

\* The cursor and the handlers take none.
LEMMA RestCounts ==
  ASSUME NEW d \in Driver
  PROVE  /\ \A f \in CursorInit(d) : f \in Driver /\ f.refs = d.refs
         /\ \A f \in ScreenHandlers(d) : f.refs = d.refs
<1>1. ASSUME NEW f \in CursorInit(d) PROVE f \in Driver /\ f.refs = d.refs
  <2>1. CASE f = [d EXCEPT !.hwcursor = FALSE]  BY <2>1 DEF Driver
  <2>2. CASE f = Acquire(d, {"cursor", "hooks"})  BY <2>2, NeedsValues, AcquireCounts
  <2> QED  BY <2>1, <2>2 DEF CursorInit
<1>2. ASSUME NEW f \in ScreenHandlers(d) PROVE f.refs = d.refs
  <2> DEFINE n == Acquire(d, {"notify", "wraps"})
             m == Acquire(n, {"monitor"})
  <2>1. n \in Driver /\ n.refs = d.refs  BY NeedsValues, AcquireCounts
  <2>2. m \in Driver /\ m.refs = d.refs  BY <2>1, NeedsValues, AcquireCounts
  <2>3. f = n \/ f = [m EXCEPT !.uevent_handler = TRUE]  BY DEF ScreenHandlers
  <2> HIDE DEF n, m
  <2> QED  BY <2>1, <2>2, <2>3 DEF Driver
<1> QED  BY <1>1, <1>2

CountsKept == generation \in 0 .. MaxGenerations /\ drv.refs <= generation

\* No generation takes more than one reference.
LEMMA StepCounts ==
  ASSUME LInv, CountsKept, [Next]_vars
  PROVE  CountsKept'
<1>0. drv \in Driver /\ drv.refs \in Nat /\ generation \in Nat /\ drv.refs <= generation
      /\ MaxGenerations \in Nat /\ generation <= MaxGenerations
  BY GenerationsAssumption DEF LInv, Driver, CountsKept
<1>1. CASE generation' = generation /\ drv'.refs = drv.refs  BY <1>0, <1>1 DEF CountsKept
<1>2. CASE Die  BY <1>0, <1>2 DEF Die, NoDriver, CountsKept
<1>3. CASE Probed \/ PlatformProbed
  <2>1. Acquire(drv, {"probefd"}).refs = drv.refs  BY <1>0, NeedsValues, AcquireCounts
  <2> QED  BY <1>1, <1>3, <2>1 DEF Probed, PlatformProbed
<1>4. CASE PreInitFails
  <2>1. PICK left \in {{}, {"fd", "device"}, {"fd", "device", "record"}, {"fd", "device", "kms"}} :
          drv' = Acquire(drv, left) /\ generation' = generation
    BY <1>4 DEF PreInitFails
  <2>2. left \in SUBSET Resources  BY NeedsValues
  <2> QED  BY <1>0, <1>1, <2>1, <2>2, AcquireCounts
<1>5. CASE PreInit
  <2>1. PICK a \in BOOLEAN, d \in BOOLEAN, c \in BOOLEAN, got \in SUBSET {"kms"} :
          drv' = [Acquire(drv, {"fd", "device", "record"} \cup got) EXCEPT !.accel = a, !.dri = d, !.hwcursor = c]
    BY <1>5 DEF PreInit
  <2> DEFINE e == Acquire(drv, {"fd", "device", "record"} \cup got)
  <2>2. e \in Driver /\ e.refs = drv.refs
    <3>1. {"fd", "device", "record"} \cup got \in SUBSET Resources  BY NeedsValues
    <3> QED  BY <1>0, <3>1, AcquireCounts
  <2> HIDE DEF e
  <2>3. drv'.refs = drv.refs  BY <2>1, <2>2 DEF Driver, e
  <2> QED  BY <1>1, <1>5, <2>3 DEF PreInit
<1>6. ASSUME NEW rs \in {{"scanout"}, {"scanout", "fb"}}, Started, Holds("kms")
      PROVE  LET d == Acquire(drv, rs)
             IN  /\ d \in Driver /\ d.refs = drv.refs
                 /\ \A a \in AccelInit(d) : \A c \in CursorInit(a) :
                      c \in Driver /\ c.refs <= drv.refs + 1
  <2> DEFINE d == Acquire(drv, rs)
  <2>1. Grown(drv, d) /\ Base \subseteq d.held  BY <1>6, StartsSound
  <2>2. rs \in SUBSET Resources  BY NeedsValues
  <2>3. d \in Driver /\ d.refs = drv.refs  BY <1>0, <2>2, AcquireCounts
  <2> HIDE DEF d
  <2>4. ASSUME NEW a \in AccelInit(d), NEW c \in CursorInit(a)
        PROVE  c \in Driver /\ c.refs <= drv.refs + 1
    <3>1. a.refs <= drv.refs + 1  BY <2>1, <2>3, AccelCounts DEF Grown
    <3>2. a \in Driver  BY <2>1, AccelSound DEF Grown, Sound
    <3>3. c \in Driver /\ c.refs = a.refs  BY <3>2, RestCounts
    <3> QED  BY <3>1, <3>3
  <2> QED  BY <2>3, <2>4 DEF d
<1>7. CASE ScreenInit
  <2> DEFINE d == Acquire(drv, {"scanout", "fb"})
  <2>1. PICK a \in AccelInit(d) : \E c \in CursorInit(a) : drv' \in ScreenHandlers(c)
    BY <1>7 DEF ScreenInit
  <2>2. PICK c \in CursorInit(a) : drv' \in ScreenHandlers(c)  BY <2>1
  <2>3. c \in Driver /\ c.refs <= drv.refs + 1  BY <1>6, <1>7 DEF ScreenInit
  <2>4. drv'.refs = c.refs  BY <2>2, <2>3, RestCounts
  <2>5. generation < MaxGenerations /\ generation' = generation + 1
    BY <1>7 DEF ScreenInit, Started
  <2>6. c.refs \in Nat  BY <2>3 DEF Driver
  <2> QED  BY <1>0, <2>3, <2>4, <2>5, <2>6 DEF CountsKept
<1>8. CASE ScreenInitFails
  <2> DEFINE d == Acquire(drv, {"scanout"})
  <2>1. d \in Driver /\ d.refs = drv.refs
        /\ \A a \in AccelInit(d) : \A c \in CursorInit(a) : c \in Driver /\ c.refs <= drv.refs + 1
    BY <1>6, <1>8 DEF ScreenInitFails
  <2>2. \/ drv' \in {drv, d}
        \/ \E a \in AccelInit(d) : \E c \in CursorInit(a) : drv' \in {c, Acquire(c, {"fb"})}
    BY <1>8 DEF ScreenInitFails
  <2> HIDE DEF d
  <2>3. drv'.refs \in Nat /\ drv'.refs <= drv.refs + 1
    <3>1. CASE drv' \in {drv, d}  BY <1>0, <2>1, <3>1
    <3>2. ASSUME NEW a \in AccelInit(d), NEW c \in CursorInit(a), drv' \in {c, Acquire(c, {"fb"})}
          PROVE  drv'.refs \in Nat /\ drv'.refs <= drv.refs + 1
      <4>1. c \in Driver /\ c.refs <= drv.refs + 1  BY <2>1
      <4>2. c.refs \in Nat  BY <4>1 DEF Driver
      <4>3. Acquire(c, {"fb"}).refs = c.refs  BY <4>1, NeedsValues, AcquireCounts
      <4> QED  BY <3>2, <4>1, <4>2, <4>3
    <3> QED  BY <2>2, <3>1, <3>2
  <2>4. generation < MaxGenerations /\ generation' = generation + 1
    BY <1>8 DEF ScreenInitFails, Started
  <2> QED  BY <1>0, <2>3, <2>4 DEF CountsKept
<1>9. CASE CloseScreen
  <2>1. drv'.refs = drv.refs  BY <1>0, <1>9 DEF CloseScreen, Release, Driver
  <2> QED  BY <1>1, <1>9, <2>1 DEF CloseScreen
<1>10. CASE FreeScreen
  <2> DEFINE u == UseDeInit(drv)
             v == DeInitialiseServices(u)
             w == IF "pvr" \in drv.held THEN v ELSE drv
  <2>1. u \in Driver /\ u.refs = drv.refs  BY <1>0 DEF UseDeInit, Release, Driver
  <2>2. v \in Driver /\ v.refs <= drv.refs
    <3>1. u.refs \in Nat  BY <2>1 DEF Driver
    <3> HIDE DEF u
    <3> DEFINE g == IF u.refs > 0 THEN [u EXCEPT !.refs = @ - 1] ELSE u
    <3>2. g \in Driver /\ g.refs <= u.refs  BY <2>1, <3>1 DEF Driver
    <3>3. v = IF u.refs = 1 THEN Release(g, ServiceSet) ELSE g  BY DEF DeInitialiseServices
    <3> HIDE DEF g
    <3>4. Release(g, ServiceSet) \in Driver /\ Release(g, ServiceSet).refs = g.refs
      BY <3>2 DEF Release, Driver
    <3> QED  BY <2>1, <3>2, <3>3, <3>4
  <2>3. w \in Driver /\ w.refs <= drv.refs  BY <1>0, <2>2
  <2>4. Freed(drv) = Release(w, {"pvr", "null", "device", "fd", "record"})  BY DEF Freed
  <2> HIDE DEF w
  <2>5. Freed(drv).refs = w.refs  BY <2>3, <2>4 DEF Release, Driver
  <2>6. w.refs \in Nat  BY <2>3 DEF Driver
  <2>7. drv'.refs \in Nat /\ drv'.refs <= drv.refs /\ generation' = generation
    BY <1>0, <1>10, <2>3, <2>5, <2>6 DEF FreeScreen
  <2> QED  BY <1>0, <2>7 DEF CountsKept
<1>11. CASE ScreenInitDies \/ CloseScreenDies \/ OutputDies
  BY <1>2, <1>11 DEF ScreenInitDies, CloseScreenDies, OutputDies
<1>12. CASE LeaveVT \/ Flip \/ Hotplug \/ Kernel \/ Client \/ Cursor
  BY <1>1, <1>12 DEF LeaveVT, Flip, Hotplug, Kernel, Client, Cursor, lifeVars
<1>13. CASE EnterVT  BY <1>1, <1>2, <1>13 DEF EnterVT
<1>14. CASE Ended \/ UNCHANGED vars  BY <1>1, <1>14 DEF Ended, vars, lifeVars
<1> QED
  BY <1>3, <1>4, <1>5, <1>7, <1>8, <1>9, <1>10, <1>11, <1>12, <1>13, <1>14 DEF Next

\* A state is a connection and a value, and NULL is none.
LEMMA States ==
  /\ \A a \in State : a.connected \in BOOLEAN /\ a.value \in Values
  /\ \A a \in State : \A b \in BOOLEAN : [a EXCEPT !.connected = b] \in State
  /\ \A a \in State : \A v \in Values : [a EXCEPT !.value = v] \in State
  /\ NoSnapshot \notin State
<1>1. \A a \in State : a.connected \in BOOLEAN /\ a.value \in Values  BY DEF State
<1>2. \A a \in State : \A b \in BOOLEAN : [a EXCEPT !.connected = b] \in State  BY DEF State
<1>3. \A a \in State : \A v \in Values : [a EXCEPT !.value = v] \in State  BY DEF State
<1> QED  BY <1>1, <1>2, <1>3, OutputsAssumption

\* What waits in the socket of the monitor may be read, and more may come.
LEMMA UeventsTyped ==
  ASSUME uevents \in Seq({"ours", "other"}), Len(uevents) <= MaxUevents
  PROVE  /\ \A e \in {"ours", "other"} :
              Len(uevents) < MaxUevents =>
                Append(uevents, e) \in Seq({"ours", "other"}) /\ Len(Append(uevents, e)) <= MaxUevents
         /\ uevents # <<>> =>
              Tail(uevents) \in Seq({"ours", "other"}) /\ Len(Tail(uevents)) <= MaxUevents
<1>1. MaxUevents \in Nat  BY OutputsAssumption
<1>2. ASSUME NEW e \in {"ours", "other"}, Len(uevents) < MaxUevents
      PROVE  Append(uevents, e) \in Seq({"ours", "other"}) /\ Len(Append(uevents, e)) <= MaxUevents
  <2>1. Len(Append(uevents, e)) = Len(uevents) + 1 /\ Len(uevents) \in Nat  OBVIOUS
  <2>2. Append(uevents, e) \in Seq({"ours", "other"})  OBVIOUS
  <2> QED  BY <1>1, <1>2, <2>1, <2>2
<1>3. ASSUME uevents # <<>>
      PROVE  Tail(uevents) \in Seq({"ours", "other"}) /\ Len(Tail(uevents)) <= MaxUevents
  <2>1. Len(Tail(uevents)) = Len(uevents) - 1 /\ Len(uevents) \in Nat  BY <1>3
  <2>2. Tail(uevents) \in Seq({"ours", "other"})  BY <1>3
  <2> QED  BY <1>1, <2>1, <2>2
<1> QED  BY <1>2, <1>3

\* A driver without outputs is of the type.
LEMMA NoOutputsTyped ==
  ASSUME connector \in [Connector -> State],
         mode_output = << >>, randr = << >>, uevents = << >>, missed = {}
  PROVE  OutputsType
<1>1. Outputs = {}  BY DEF Outputs
<1>2. randr \in [{} -> State]  OBVIOUS
<1>3. uevents \in Seq({"ours", "other"}) /\ Len(uevents) = 0 /\ MaxUevents \in Nat
  BY OutputsAssumption
<1> QED  BY <1>1, <1>2, <1>3 DEF OutputsType

\* A probe tells RandR of the connectors as they are.
LEMMA ProbeTyped ==
  ASSUME OutputsType, Probe(Outputs), UNCHANGED connector
  PROVE  /\ Outputs' = Outputs /\ \A o \in Outputs : mode_output'[o] \in State
         /\ randr' \in [Outputs -> State] /\ missed' \subseteq Connector
<1>1. \A o \in Outputs : connector[o] \in State /\ connector[o].connected \in BOOLEAN
  BY States DEF OutputsType
<1>2. \A o \in Outputs : randr[o] \in State  BY DEF OutputsType
<1>3. Outputs' = Outputs  BY DEF Probe, Outputs
<1>4. \A o \in Outputs : mode_output'[o] \in State  BY <1>1 DEF Probe
<1>5. randr' = [o \in Outputs |-> [randr[o] EXCEPT !.connected = connector[o].connected]]
  BY DEF Probe
<1>6. randr' \in [Outputs -> State]
  <2>1. \A o \in Outputs : [randr[o] EXCEPT !.connected = connector[o].connected] \in State
    BY <1>1, <1>2, States
  <2> QED  BY <1>5, <2>1
<1> QED  BY <1>3, <1>4, <1>6 DEF Probe, OutputsType

\* Every step keeps the type of the outputs.
LEMMA StepOutputs ==
  ASSUME OutputsType, [Next]_vars
  PROVE  OutputsType'
<1>0. /\ connector \in [Connector -> State] /\ Outputs \subseteq Connector
      /\ \A o \in Outputs : mode_output[o] \in State \cup {NoSnapshot}
      /\ randr \in [Outputs -> State] /\ missed \subseteq Connector
      /\ uevents \in Seq({"ours", "other"}) /\ Len(uevents) <= MaxUevents
  BY DEF OutputsType
<1>1. CASE UNCHANGED outputVars  BY <1>1 DEF outputVars, OutputsType, Outputs
<1>2. CASE Die
  <2>1. /\ connector' \in [Connector -> State] /\ mode_output' = << >> /\ randr' = << >>
        /\ uevents' = << >> /\ missed' = {}
    BY <1>0, <1>2 DEF Die
  <2>2. Outputs' = {}  BY <2>1 DEF Outputs
  <2>3. randr' \in [{} -> State]  BY <2>1
  <2>4. uevents' \in Seq({"ours", "other"}) /\ Len(uevents') = 0 /\ MaxUevents \in Nat
    BY <2>1, OutputsAssumption
  <2> QED  BY <2>1, <2>2, <2>3, <2>4 DEF OutputsType
<1>3. CASE CreateOutputs
  <2>1. PICK created \in SUBSET Connector :
          /\ mode_output' = [o \in created |-> connector[o]]
          /\ randr' = mode_output' /\ UNCHANGED <<connector, uevents, missed>>
    BY <1>3 DEF CreateOutputs
  <2>2. Outputs' = created /\ \A o \in created : mode_output'[o] \in State
    BY <1>0, <2>1 DEF Outputs
  <2>3. randr' \in [created -> State]  BY <1>0, <2>1
  <2> QED  BY <1>0, <2>1, <2>2, <2>3 DEF OutputsType
<1>4. CASE ScreenInit
  <2>1. /\ \A o \in Outputs : mode_output[o] # NoSnapshot /\ mode_output[o] \in State
        /\ randr' = [o \in Outputs |-> [randr[o] EXCEPT !.value = mode_output[o].value]]
        /\ UNCHANGED <<connector, mode_output, uevents, missed>>
    BY <1>0, <1>4 DEF ScreenInit, CreateResources
  <2>2. \A o \in Outputs : [randr[o] EXCEPT !.value = mode_output[o].value] \in State
    <3> SUFFICES ASSUME NEW o \in Outputs
                 PROVE  [randr[o] EXCEPT !.value = mode_output[o].value] \in State
      OBVIOUS
    <3>1. randr[o] \in State /\ mode_output[o].value \in Values  BY <1>0, <2>1, States
    <3> QED  BY <3>1, States
  <2>3. randr' \in [Outputs -> State]  BY <2>1, <2>2
  <2> QED  BY <1>0, <2>1, <2>3 DEF OutputsType, Outputs
<1>5. CASE CloseScreen
  <2>1. uevents' = << >> /\ missed' \subseteq Outputs /\ UNCHANGED <<connector, mode_output, randr>>
    BY <1>5 DEF CloseScreen
  <2>2. uevents' \in Seq({"ours", "other"}) /\ Len(uevents') = 0 /\ MaxUevents \in Nat
    BY <2>1, OutputsAssumption
  <2> QED  BY <1>0, <2>1, <2>2 DEF OutputsType, Outputs
<1>6. CASE Hotplug
  <2>1. /\ uevents # << >> /\ uevents' = Tail(uevents) /\ UNCHANGED connector
        /\ \/ Probe(Outputs)
           \/ missed' \subseteq missed \cup Outputs /\ UNCHANGED <<mode_output, randr>>
    BY <1>6 DEF Hotplug, HandleUevents
  <2>2. uevents' \in Seq({"ours", "other"}) /\ Len(uevents') <= MaxUevents
    BY <1>0, <2>1, UeventsTyped
  <2>3. CASE Probe(Outputs)
    BY <1>0, <2>1, <2>2, <2>3, ProbeTyped DEF OutputsType
  <2>4. CASE missed' \subseteq missed \cup Outputs /\ UNCHANGED <<mode_output, randr>>
    BY <1>0, <2>1, <2>2, <2>4 DEF OutputsType, Outputs
  <2> QED  BY <2>1, <2>3, <2>4
<1>7. CASE Kernel
  <2>1. ASSUME NEW o \in Connector, NEW listening \in BOOLEAN, Plug(o, listening)
        PROVE  OutputsType'
    <3>1. connector' \in [Connector -> State]
      <4>1. connector[o] \in State  BY <1>0
      <4>2. [connector[o] EXCEPT !.connected = ~@] \in State  BY <4>1 DEF State
      <4> QED  BY <1>0, <2>1, <4>2 DEF Plug
    <3>2. uevents' \in Seq({"ours", "other"}) /\ Len(uevents') <= MaxUevents
      BY <1>0, <2>1, UeventsTyped DEF Plug
    <3> QED  BY <1>0, <2>1, <3>1, <3>2 DEF OutputsType, Outputs, Plug
  <2>2. ASSUME NEW listening \in BOOLEAN, OtherUevent(listening) PROVE OutputsType'
    <3>1. uevents' \in Seq({"ours", "other"}) /\ Len(uevents') <= MaxUevents
      BY <1>0, <2>2, UeventsTyped DEF OtherUevent
    <3> QED  BY <1>0, <2>2, <3>1 DEF OutputsType, Outputs, OtherUevent
  <2> DEFINE b == Open /\ Holds("monitor")
  <2>3. b \in BOOLEAN  OBVIOUS
  <2>4. (\E o \in Connector : Plug(o, b)) \/ OtherUevent(b)  BY <1>7 DEF Kernel
  <2> HIDE DEF b
  <2> QED  BY <2>1, <2>2, <2>3, <2>4
<1>8. CASE Client
  <2>1. CASE Query(vtSema)
    BY <1>0, <2>1, ProbeTyped DEF Query, OutputsType
  <2>2. ASSUME NEW o \in Outputs, NEW v \in Values, SetProperty(o, v, master)
        PROVE  OutputsType'
    <3>1. connector' \in [Connector -> State]
      <4>1. [connector[o] EXCEPT !.value = v] \in State  BY <1>0, States
      <4> QED  BY <1>0, <2>2, <4>1 DEF SetProperty
    <3>2. randr' \in [Outputs -> State]
      <4>1. [randr[o] EXCEPT !.value = v] \in State  BY <1>0, States
      <4> QED  BY <1>0, <2>2, <4>1 DEF SetProperty
    <3> QED  BY <1>0, <2>2, <3>1, <3>2 DEF SetProperty, OutputsType, Outputs
  <2>3. ASSUME NEW o \in Outputs, NEW known \in BOOLEAN, GetProperty(o, known, vtSema)
        PROVE  OutputsType'
    <3>1. PICK snapshot \in (IF vtSema THEN {connector[o], NoSnapshot} ELSE {mode_output[o]}) :
            /\ mode_output' = [mode_output EXCEPT ![o] = snapshot]
            /\ known => snapshot # NoSnapshot
            /\ randr' = IF known THEN [randr EXCEPT ![o].value = snapshot.value] ELSE randr
            /\ UNCHANGED <<connector, uevents, missed>>
      BY <2>3 DEF GetProperty
    <3>2. snapshot \in State \cup {NoSnapshot}  BY <1>0
    <3>3. Outputs' = Outputs /\ \A q \in Outputs : mode_output'[q] \in State \cup {NoSnapshot}
      BY <1>0, <3>1, <3>2 DEF Outputs
    <3>4. randr' \in [Outputs -> State]
      <4>1. CASE ~known  BY <1>0, <3>1, <4>1
      <4>2. CASE known
        <5>1. randr[o] \in State /\ snapshot.value \in Values  BY <1>0, <3>1, <3>2, <4>2, States
        <5>2. [randr[o] EXCEPT !.value = snapshot.value] \in State  BY <5>1, States
        <5> QED  BY <1>0, <3>1, <4>2, <5>2
      <4> QED  BY <4>1, <4>2
    <3> QED  BY <1>0, <3>1, <3>3, <3>4 DEF OutputsType
  <2> QED  BY <1>8, <2>1, <2>2, <2>3 DEF Client
<1>9. CASE PreInit  BY <1>1, <1>3, <1>9 DEF PreInit
<1>10. CASE Probed \/ PlatformProbed \/ PreInitFails \/ ScreenInitFails \/ FreeScreen
  BY <1>1, <1>10 DEF Probed, PlatformProbed, PreInitFails, ScreenInitFails, FreeScreen, Elsewhere
<1>11. CASE ScreenInitDies \/ CloseScreenDies \/ OutputDies
  BY <1>2, <1>11 DEF ScreenInitDies, CloseScreenDies, OutputDies
<1>12. CASE LeaveVT \/ Flip \/ Cursor  BY <1>1, <1>12 DEF LeaveVT, Flip, Cursor
<1>13. CASE EnterVT  BY <1>1, <1>2, <1>13 DEF EnterVT
<1>14. CASE Ended \/ UNCHANGED vars  BY <1>1, <1>14 DEF Ended, vars
<1> QED
  BY <1>4, <1>5, <1>6, <1>7, <1>8, <1>9, <1>10, <1>11, <1>12, <1>13, <1>14 DEF Next

FlagsTyped ==
  vtSema \in BOOLEAN /\ master \in BOOLEAN /\ flip \in {"none", "plain", "mapped"}

\* Every step keeps the terminal, the master and the flip of their types.
LEMMA StepFlags == ASSUME FlagsTyped, [Next]_vars PROVE FlagsTyped'
<1>1. CASE Die  BY <1>1 DEF Die, FlagsTyped
<1>2. CASE Probed \/ PlatformProbed \/ PreInitFails \/ PreInit
  BY <1>2 DEF FlagsTyped, Probed, PlatformProbed, PreInitFails, PreInit, Elsewhere
<1>3. CASE ScreenInit \/ ScreenInitFails
  BY <1>3 DEF FlagsTyped, ScreenInit, ScreenInitFails, Elsewhere
<1>4. CASE CloseScreen  BY <1>4 DEF FlagsTyped, CloseScreen
<1>5. CASE FreeScreen
  <2>1. master' = (master /\ ~Holds("record")) /\ UNCHANGED <<vtSema, flip>>
    BY <1>5 DEF FreeScreen, Elsewhere
  <2> QED  BY <2>1 DEF FlagsTyped
<1>6. CASE LeaveVT  BY <1>6 DEF FlagsTyped, LeaveVT
<1>7. CASE EnterVT  BY <1>1, <1>7 DEF FlagsTyped, EnterVT
<1>8. CASE Flip  BY <1>8 DEF FlagsTyped, Flip
<1>9. CASE Hotplug \/ Kernel \/ Client \/ Cursor
  BY <1>9 DEF FlagsTyped, Hotplug, Kernel, Client, Cursor, lifeVars
<1>10. CASE Ended \/ UNCHANGED vars  BY <1>10 DEF FlagsTyped, Ended, vars, lifeVars
<1>11. CASE ScreenInitDies \/ CloseScreenDies \/ OutputDies
  BY <1>1, <1>11 DEF ScreenInitDies, CloseScreenDies, OutputDies
<1> QED  BY <1>2, <1>3, <1>4, <1>5, <1>6, <1>7, <1>8, <1>9, <1>10, <1>11 DEF Next

TypeInv ==
  LInv /\ CountsKept /\ OutputsType /\ FlagsTyped /\ cursor \in CursorStates

\* The type invariant holds: the services are never counted more often than the
\* server has started a generation, RandR never reports a value of a snapshot
\* the kernel refused, and every picture of the cursor is of the screen
\* (InitialiseServices, drmmode_output_create_resources, drmmode_output_get_property).
THEOREM TypeOKAlways == Spec => []TypeOK
<1>1. Init => TypeInv
  <2> SUFFICES ASSUME Init PROVE TypeInv  OBVIOUS
  <2>1. LInv  BY NothingSound DEF Init, LInv, Kept, Sound
  <2>2. CountsKept  BY NothingSound, GenerationsAssumption DEF Init, CountsKept
  <2>3. OutputsType  BY NoOutputsTyped DEF Init, OutputsInit
  <2>4. FlagsTyped  BY DEF Init, FlagsTyped
  <2>5. cursor \in CursorStates  BY NoCursorPictured DEF Init
  <2> QED  BY <2>1, <2>2, <2>3, <2>4, <2>5 DEF TypeInv
<1>2. TypeInv /\ [Next]_vars => TypeInv'
  <2> SUFFICES ASSUME TypeInv, [Next]_vars PROVE TypeInv'  OBVIOUS
  <2>1. LInv /\ CountsKept /\ OutputsType /\ FlagsTyped /\ cursor \in CursorStates  BY DEF TypeInv
  <2>2. LInv'  BY <2>1, StepKeeps
  <2>3. CountsKept'  BY <2>1, StepCounts
  <2>4. OutputsType'  BY <2>1, StepOutputs
  <2>5. FlagsTyped'  BY <2>1, StepFlags
  <2>6. cursor' \in CursorStates  BY <2>1, StepPictured
  <2>7. (cursor \in CursorStates)'  BY <2>6 DEF CursorStates, CursorState, Pictured, Covers
  <2> QED  BY <2>2, <2>3, <2>4, <2>5, <2>7 DEF TypeInv
<1>3. TypeInv => TypeOK
  <2> SUFFICES ASSUME TypeInv PROVE TypeOK  OBVIOUS
  <2>1. drv \in DriverType
    <3>1. drv \in Driver /\ drv.refs \in Nat /\ generation \in Nat /\ MaxGenerations \in Nat
          /\ drv.refs <= generation /\ generation <= MaxGenerations
      BY GenerationsAssumption DEF TypeInv, LInv, CountsKept, Driver
    <3>2. drv.refs \in 0 .. MaxGenerations  BY <3>1
    <3> QED  BY <3>1, <3>2 DEF Driver, DriverType
  <2> QED
    BY <2>1 DEF TypeInv, LInv, CountsKept, FlagsTyped, CursorStates, CursorType, TypeOK
<1> QED  BY <1>1, <1>2, <1>3, PTL DEF Spec
=============================================================================
