-------------------------- MODULE Dri2OrderProofs --------------------------
(***************************************************************************)
(* Theorems about the order of swaps in Dri2Swap: where no window XID is   *)
(* reused while a flip of its old self pends, the driver's count of a      *)
(* window's swaps is exact; where no client leaves with swaps pending, no  *)
(* command is lost but with its window; where neither happens, the DRI2    *)
(* module's throttle agrees and every step implements SwapOrder.           *)
(***************************************************************************)
EXTENDS Dri2FlipProofs

\* The drawable a flip under way is for.
Owner(p) == cmd[flip[p].priv].draw_id

\* Some flip of window d is under way.
Busy(d) == \E p \in Live : Owner(p) = d

-----------------------------------------------------------------------------
(* The invariant *)

\* GetDrawable callocs the private record of a window on first use.
DeadClear == \A d \in Window \ alive : pending_swaps[d] = 0 /\ queued[d] = None

\* A window has one flip under way at most.
OneFlipEach == \A p, q \in Live : Owner(p) = Owner(q) => p = q

\* The swaps of a window that are pending: one under way, one in the queue.
SwapsCounted ==
  \A d \in alive :
    pending_swaps[d] = (IF Busy(d) THEN 1 ELSE 0) + (IF queued[d] = None THEN 0 ELSE 1)

OrderInv == DeadClear /\ OneFlipEach /\ SwapsCounted

-----------------------------------------------------------------------------
(* Who owns the flips after a step *)

\* The flip at q stays that of the same command, of the same window.
FlipKept(q) == flip'[q].priv = flip[q].priv /\ Owner(q)' = Owner(q)

\* The flips under way stay under way.
SameFlips == Live' = Live /\ \A q \in Live : FlipKept(q)

\* Commands that are allocated keep their drawable, and flips are left alone.
LEMMA SameFlipsIf ==
  ASSUME IInv, UNCHANGED flip, \A c \in Allocated : cmd'[c].draw_id = cmd[c].draw_id
  PROVE  SameFlips
<1>1. \A q \in Live : flip[q].priv \in Allocated
  BY LastFlip
<1> QED
  BY <1>1 DEF SameFlips, FlipKept, Owner, Live

\* OMAPDRI2SwapComplete leaves the commands it does not complete to their windows.
LEMMA RetireDraws ==
  ASSUME IInv, NEW done \in SUBSET Allocated, NEW flipped \in SUBSET Allocated,
         Retire(done, flipped)
  PROVE  \A c \in Allocated \ done : cmd'[c].draw_id = cmd[c].draw_id
<1>1. \A r \in CmdRec : [r EXCEPT !.type = "flip"].draw_id = r.draw_id
  BY DEF CmdRec
<1>2. \A c \in Allocated : cmd[c] \in CmdRec
  BY DEF IInv, TypeOK, Allocated
<1> QED
  BY <1>1, <1>2 DEF Retire, Allocated

\* What a step does that completes the flip p of window d.
FlipGone(p) == Live' = Live \ {p} /\ \A q \in Live \ {p} : FlipKept(q)

FlipReplaced(p, d, n, w) ==
  /\ n \in Flip \ Live
  /\ Live' = (Live \ {p}) \cup {n}
  /\ flip'[n].priv = w
  /\ Owner(n)' = d
  /\ \A q \in Live \ {p} : FlipKept(q)

\* The flip is freed and its command, with perhaps a queued one, is retired.
LEMMA FlipGoneIf ==
  ASSUME IInv, NEW p \in Live, NEW done \in SUBSET Allocated, Retire(done, {}),
         FreeFlipdata({p}), \A q \in Live \ {p} : flip[q].priv \notin done
  PROVE  FlipGone(p)
<1>1. Live' = Live \ {p} /\ \A q \in Live \ {p} : flip'[q] = flip[q]
  BY FreeFlipdataLive
<1>2. \A q \in Live : flip[q].priv \in Allocated
  BY LastFlip
<1>3. {} \in SUBSET Allocated
  OBVIOUS
<1>4. \A c \in Allocated \ done : cmd'[c].draw_id = cmd[c].draw_id
  BY <1>3, RetireDraws
<1> QED
  BY <1>1, <1>2, <1>4 DEF FlipGone, FlipKept, Owner

\* Another window has no flip in common with the one of p.
LEMMA OtherFlips ==
  ASSUME IInv, NEW p \in Live
  PROVE  /\ flip[p].priv \in Allocated /\ Owner(p) \in Window /\ p \in Flip
         /\ \A q \in Live \ {p} : flip[q].priv # flip[p].priv
BY LastFlip DEF Owner, IInv, Ownership, CommandsOwned

LEMMA CompleteOrphanFlips ==
  ASSUME IInv, NEW p \in Live, CompleteOrphan(flip[p].priv, {p})
  PROVE  FlipGone(p) /\ Owner(p) \notin alive /\ UNCHANGED <<driVars, swapsPending>>
<1>1. Retire({flip[p].priv}, {}) /\ FreeFlipdata({p})
  BY DEF CompleteOrphan, Finish
<1>2. {flip[p].priv} \in SUBSET Allocated /\ \A q \in Live \ {p} : flip[q].priv \notin {flip[p].priv}
  BY OtherFlips
<1>3. FlipGone(p)
  BY <1>1, <1>2, FlipGoneIf
<1> QED
  BY <1>3 DEF CompleteOrphan, Owner

LEMMA CompleteLastFlips ==
  ASSUME IInv, NEW p \in Live, CompleteLast(flip[p].priv, {p})
  PROVE  /\ FlipGone(p) /\ Owner(p) \in alive
         /\ queued[Owner(p)] = None /\ UNCHANGED queued /\ Report(Owner(p), 1)
<1>1. Retire({flip[p].priv}, {}) /\ FreeFlipdata({p})
  BY DEF CompleteLast, Finish
<1>2. {flip[p].priv} \in SUBSET Allocated /\ \A q \in Live \ {p} : flip[q].priv \notin {flip[p].priv}
  BY OtherFlips
<1>3. FlipGone(p)
  BY <1>1, <1>2, FlipGoneIf
<1> QED
  BY <1>3 DEF CompleteLast, Owner

LEMMA CompleteBothFlips ==
  ASSUME IInv, NEW p \in Live, CompleteBoth(flip[p].priv, {p})
  PROVE  FlipGone(p) /\ Owner(p) \in alive /\ Unqueue(Owner(p)) /\ Report(Owner(p), 2)
<1> DEFINE c == flip[p].priv
           w == queued[Owner(p)]
<1>1. Retire({c, w}, {}) /\ FreeFlipdata({p}) /\ Unqueue(Owner(p))
  BY DEF CompleteBoth, Finish, NoPageFlip, Owner
<1>2. w \in Allocated /\ \A q \in Live : flip[q].priv # w
  BY <1>1, QueuedCommand DEF Owner
<1>3. {c, w} \in SUBSET Allocated /\ \A q \in Live \ {p} : flip[q].priv \notin {c, w}
  BY <1>2, OtherFlips
<1>4. FlipGone(p)
  <2> HIDE DEF c, w
  <2> QED
    BY <1>1, <1>3, FlipGoneIf
<1> QED
  BY <1>1, <1>4 DEF CompleteBoth, Owner

LEMMA CompleteThenFlipFlips ==
  ASSUME IInv, NEW p \in Live, CompleteThenFlip(flip[p].priv, {p})
  PROVE  /\ \E n : FlipReplaced(p, Owner(p), n, queued[Owner(p)])
         /\ Owner(p) \in alive /\ Unqueue(Owner(p)) /\ Report(Owner(p), 1)
<1> DEFINE c == flip[p].priv
           w == queued[Owner(p)]
<1>1. Retire({c}, {w}) /\ PageFlip(w, {p}) /\ Unqueue(Owner(p)) /\ Owner(p) \in alive
  BY DEF CompleteThenFlip, Owner
<1>2. /\ w \in Cmd /\ w \in Allocated /\ w # c /\ cmd[w].draw_id = Owner(p)
      /\ \A q \in Live : flip[q].priv # w
  <2>1. w \in Cmd /\ w \in Allocated /\ w # c /\ \A q \in Live : flip[q].priv # w
    BY <1>1, QueuedCommand DEF Owner
  <2>2. Owner(p) \in Window /\ w # None
    BY <1>1, OtherFlips DEF Unqueue
  <2> QED
    BY <2>1, <2>2 DEF IInv, Ownership, CommandsOwned
<1>3. PICK n \in Flip \ Live :
        /\ Live' = (Live \ {p}) \cup {n}
        /\ flip'[n].priv = w
        /\ \A q \in Live \ {p} : flip'[q] = flip[q]
  <2>1. {p} \in SUBSET Live
    OBVIOUS
  <2> HIDE DEF w
  <2> QED
    BY <1>1, <1>2, <2>1, PageFlipLive
<1>4. \A x \in Allocated \ {c} : cmd'[x].draw_id = cmd[x].draw_id
  <2>1. {c} \in SUBSET Allocated /\ {w} \in SUBSET Allocated
    BY <1>2, OtherFlips
  <2> HIDE DEF c, w
  <2> QED
    BY <1>1, <2>1, RetireDraws
<1>5. \A q \in Live \ {p} : flip[q].priv \in Allocated \ {c}
  BY OtherFlips
<1>6. FlipReplaced(p, Owner(p), n, w)
  BY <1>2, <1>3, <1>4, <1>5 DEF FlipReplaced, FlipKept, Owner
<1> QED
  BY <1>1, <1>6 DEF CompleteThenFlip, Owner

\* A swap that is dispatched as a flip at once.
LEMMA ScheduleFlipFlips ==
  ASSUME IInv, NEW d \in Window, NEW c \in Cmd, ScheduleFlip(d, c)
  PROVE  /\ c \notin Allocated
         /\ \E n \in Flip \ Live :
              /\ Live' = Live \cup {n}
              /\ flip'[n].priv = c
              /\ Owner(n)' = d
              /\ \A q \in Live : FlipKept(q)
<1>1. MayRequest(d) /\ Allocate(c, d, "flip") /\ PageFlip(c, {})
  BY DEF ScheduleFlip
<1>2. c \notin Allocated /\ \A x \in Allocated : cmd'[x] = cmd[x]
  BY <1>1, AllocatedType
<1>3. cmd'[c].draw_id = d
  BY <1>1 DEF Allocate, NewCmd, IInv, TypeOK
<1>4. PICK n \in Flip \ Live :
        /\ Live' = (Live \ {}) \cup {n}
        /\ flip'[n].priv = c
        /\ \A q \in Live \ {} : flip'[q] = flip[q]
  BY <1>1, PageFlipLive
<1>5. \A q \in Live : flip[q].priv \in Allocated
  BY LastFlip
<1>6. \A q \in Live : FlipKept(q)
  BY <1>2, <1>4, <1>5 DEF FlipKept, Owner
<1>7. Owner(n)' = d
  BY <1>3, <1>4 DEF Owner
<1> QED
  BY <1>2, <1>4, <1>6, <1>7

\* The steps that neither begin nor end a flip.
LEMMA OtherStepsFlips ==
  ASSUME IInv, [Next]_vars, ~HandleLast,
         \A d \in Window : \A c \in Cmd : ~ScheduleFlip(d, c)
  PROVE  SameFlips
<1> USE DEF flipVars, heapVars
<1>1. ASSUME UNCHANGED <<cmd, flip>> PROVE SameFlips
  BY <1>1, SameFlipsIf
<1>2. ASSUME NEW d \in Window, ScheduleSwap(d) PROVE SameFlips
  <2>1. CASE ScheduleCopy(d)
    BY <1>1, <2>1, FreeNothing DEF ScheduleCopy, NoPageFlip
  <2>2. ASSUME NEW c \in Cmd, ScheduleQueued(d, c) \/ ScheduleRefused(d, c) PROVE SameFlips
    <3>1. MayRequest(d) /\ Allocate(c, d, "none") /\ UNCHANGED flip
      BY <2>2 DEF ScheduleQueued, ScheduleRefused
    <3>2. \A x \in Allocated : cmd'[x] = cmd[x]
      BY <3>1, AllocatedType
    <3> QED
      BY <3>1, <3>2, SameFlipsIf
  <2> QED
    BY <1>2, <2>1, <2>2 DEF ScheduleSwap
<1>3. ASSUME NEW d \in Window,
             \/ Detach(d) \/ DestroyWindow(d) \/ CreateWindow(d)
             \/ \E f, b \in Buf : GetBuffers(d, f, b)
      PROVE  SameFlips
  BY <1>1, <1>3 DEF Detach, DestroyWindow, CreateWindow, GetBuffers
<1>4. CASE RandR \/ Kernel
  BY <1>1, <1>4 DEF RandR, Kernel, SetCrtc, Rotate, Resize, DisableCrtc, Vblank
<1>5. CASE HandleCounted
  <2>1. Live' = Live /\ (\A q \in Live : flip'[q].priv = flip[q].priv) /\ UNCHANGED cmd
    BY <1>5, CountedFlips DEF HandleCounted
  <2> QED
    BY <2>1 DEF SameFlips, FlipKept, Owner
<1>6. CASE HandleFreed \/ BeginClose \/ FinishClose \/ Stopped \/ UNCHANGED vars
  BY <1>1, <1>6 DEF HandleFreed, BeginClose, FinishClose, MoveTo, Stopped, vars
<1>7. CASE Client
  BY <1>2, <1>3, <1>7 DEF Client
<1> QED
  BY <1>4, <1>5, <1>6, <1>7 DEF Next, HandleEvent

-----------------------------------------------------------------------------
(* The count of a window's swaps is exact *)

\* Only window d is given another count or queue, or comes or goes.
OnlyWindow(d) ==
  /\ \A e \in Window \ {d} : pending_swaps'[e] = pending_swaps[e] /\ queued'[e] = queued[e]
  /\ alive' \subseteq Window
  /\ \A e \in Window \ {d} : e \in alive' <=> e \in alive

\* The other windows keep their flips.
OthersBusy(d) == \A e \in Window \ {d} : Busy(e)' <=> Busy(e)

\* What remains to be shown is the count of the window the step is about.
LEMMA OrderKept ==
  ASSUME OrderInv, NEW d \in Window, OnlyWindow(d), OthersBusy(d), OneFlipEach',
         d \notin alive' => pending_swaps'[d] = 0 /\ queued'[d] = None,
         d \in alive' => pending_swaps'[d] = (IF Busy(d)' THEN 1 ELSE 0)
                                             + (IF queued'[d] = None THEN 0 ELSE 1)
  PROVE  OrderInv'
<1>1. DeadClear'
  BY DEF OrderInv, DeadClear, OnlyWindow
<1>2. SwapsCounted'
  <2> SUFFICES ASSUME NEW e \in alive'
               PROVE  pending_swaps'[e] = (IF Busy(e)' THEN 1 ELSE 0)
                                          + (IF queued'[e] = None THEN 0 ELSE 1)
    BY DEF SwapsCounted
  <2>1. CASE e = d
    BY <2>1
  <2>2. CASE e # d
    <3>1. e \in Window \ {d} /\ e \in alive
      BY <2>2 DEF OnlyWindow
    <3>2. pending_swaps[e] = (IF Busy(e) THEN 1 ELSE 0) + (IF queued[e] = None THEN 0 ELSE 1)
      BY <3>1 DEF OrderInv, SwapsCounted
    <3>3. pending_swaps'[e] = pending_swaps[e] /\ queued'[e] = queued[e]
      BY <3>1 DEF OnlyWindow
    <3>4. Busy(e)' <=> Busy(e)
      BY <3>1 DEF OthersBusy
    <3> QED
      BY <3>2, <3>3, <3>4
  <2> QED
    BY <2>1, <2>2
<1> QED
  BY <1>1, <1>2 DEF OrderInv

\* With the same flips under way, the same windows are busy.
LEMMA SameFlipsBusy ==
  ASSUME SameFlips
  PROVE  (\A d : Busy(d)' <=> Busy(d)) /\ (OneFlipEach => OneFlipEach')
<1>1. \A q \in Live : Owner(q)' = Owner(q)
  BY DEF SameFlips, FlipKept
<1>2. Live' = Live
  BY DEF SameFlips
<1> QED
  BY <1>1, <1>2 DEF Busy, OneFlipEach

\* A step that changes neither flips nor counts keeps the invariant.
LEMMA CountsKept ==
  ASSUME OrderInv, SameFlips, UNCHANGED <<pending_swaps, queued, alive>>
  PROVE  OrderInv'
BY SameFlipsBusy DEF OrderInv, DeadClear, SwapsCounted

\* The flip of a window ends: the window has none, and the others have theirs.
LEMMA FlipGoneBusy ==
  ASSUME OneFlipEach, NEW p \in Live, NEW d, d = Owner(p), FlipGone(p)
  PROVE  OneFlipEach' /\ ~(Busy(d)') /\ OthersBusy(d)
<1>1. Live' = Live \ {p} /\ \A q \in Live \ {p} : Owner(q)' = Owner(q)
  BY DEF FlipGone, FlipKept
<1>2. \A q \in Live \ {p} : Owner(q) # d
  BY DEF OneFlipEach
<1> QED
  BY <1>1, <1>2 DEF OneFlipEach, Busy, OthersBusy

\* Another flip of the same window takes its place.
LEMMA FlipReplacedBusy ==
  ASSUME OneFlipEach, NEW p \in Live, NEW d, d = Owner(p), NEW n, NEW w,
         FlipReplaced(p, d, n, w)
  PROVE  OneFlipEach' /\ Busy(d)' /\ OthersBusy(d)
<1>1. /\ Live' = (Live \ {p}) \cup {n} /\ n \notin Live
      /\ Owner(n)' = d
      /\ \A q \in Live \ {p} : Owner(q)' = Owner(q)
  BY DEF FlipReplaced, FlipKept
<1>2. \A q \in Live \ {p} : Owner(q) # d
  BY DEF OneFlipEach
<1>3. OneFlipEach'
  BY <1>1, <1>2 DEF OneFlipEach
<1>4. Busy(d)'
  BY <1>1 DEF Busy
<1>5. OthersBusy(d)
  BY <1>1, <1>2 DEF OthersBusy, Busy
<1> QED
  BY <1>3, <1>4, <1>5

\* The counts after n swaps of d are reported.
LEMMA ReportCounts ==
  ASSUME IInv, NEW d \in Window, NEW n \in Nat, Report(d, n)
  PROVE  /\ pending_swaps[d] \in Int /\ pending_swaps'[d] = pending_swaps[d] - n
         /\ \A e \in Window \ {d} : pending_swaps'[e] = pending_swaps[e]
         /\ swapsPending[d] \in Int
         /\ swapsPending'[d] = IF front[d] = None THEN swapsPending[d] ELSE swapsPending[d] - n
         /\ \A e \in Window \ {d} : swapsPending'[e] = swapsPending[e]
BY DEF Report, IInv, TypeOK

LEMMA UnqueueCounts ==
  ASSUME IInv, NEW d \in Window, Unqueue(d)
  PROVE  /\ queued[d] # None /\ queued'[d] = None
         /\ \A e \in Window \ {d} : queued'[e] = queued[e]
BY DEF Unqueue, IInv, TypeOK

\* A completion keeps the counts exact.
LEMMA HandleLastOrder ==
  ASSUME IInv, OrderInv, HandleLast
  PROVE  OrderInv'
<1>1. PICK p \in Live : SwapComplete(flip[p].priv, {p}) /\ UNCHANGED alive
  BY DEF HandleLast
<1> DEFINE c == flip[p].priv
<1>2. PICK d \in Window : d = Owner(p)
  BY OtherFlips
<1>3. /\ OneFlipEach /\ alive \subseteq Window /\ Busy(d)
      /\ d \notin alive => pending_swaps[d] = 0 /\ queued[d] = None
      /\ d \in alive => pending_swaps[d] = 1 + (IF queued[d] = None THEN 0 ELSE 1)
  BY <1>2 DEF OrderInv, IInv, TypeOK, DeadClear, SwapsCounted, Busy
<1>4. CASE CompleteOrphan(c, {p})
  <2>1. FlipGone(p) /\ d \notin alive /\ UNCHANGED <<pending_swaps, queued>>
    BY <1>2, <1>4, CompleteOrphanFlips DEF driVars
  <2>2. OneFlipEach' /\ OthersBusy(d)
    BY <1>2, <1>3, <2>1, FlipGoneBusy
  <2>3. OnlyWindow(d)
    BY <1>1, <1>3, <2>1 DEF OnlyWindow
  <2> QED
    BY <1>1, <1>3, <2>1, <2>2, <2>3, OrderKept
<1>5. CASE CompleteLast(c, {p})
  <2>1. FlipGone(p) /\ d \in alive /\ queued[d] = None /\ UNCHANGED queued /\ Report(d, 1)
    BY <1>2, <1>5, CompleteLastFlips
  <2>2. OneFlipEach' /\ OthersBusy(d) /\ ~(Busy(d)')
    BY <1>2, <1>3, <2>1, FlipGoneBusy
  <2>3. /\ pending_swaps'[d] = pending_swaps[d] - 1
        /\ \A e \in Window \ {d} : pending_swaps'[e] = pending_swaps[e]
    BY <2>1, ReportCounts
  <2>4. OnlyWindow(d)
    BY <1>1, <1>3, <2>1, <2>3 DEF OnlyWindow
  <2>5. pending_swaps'[d] = 0
    BY <1>3, <2>1, <2>3
  <2> QED
    BY <1>1, <2>1, <2>2, <2>4, <2>5, OrderKept
<1>6. CASE CompleteThenFlip(c, {p})
  <2>1. PICK n : FlipReplaced(p, d, n, queued[d])
    BY <1>2, <1>6, CompleteThenFlipFlips
  <2>2. d \in alive /\ Unqueue(d) /\ Report(d, 1)
    BY <1>2, <1>6, CompleteThenFlipFlips
  <2>3. OneFlipEach' /\ OthersBusy(d) /\ Busy(d)'
    BY <1>2, <1>3, <2>1, FlipReplacedBusy
  <2>4. /\ pending_swaps'[d] = pending_swaps[d] - 1 /\ queued[d] # None /\ queued'[d] = None
        /\ \A e \in Window \ {d} : pending_swaps'[e] = pending_swaps[e] /\ queued'[e] = queued[e]
    BY <2>2, ReportCounts, UnqueueCounts
  <2>5. OnlyWindow(d)
    BY <1>1, <1>3, <2>4 DEF OnlyWindow
  <2>6. pending_swaps'[d] = 1
    BY <1>3, <2>2, <2>4
  <2> QED
    BY <1>1, <2>2, <2>3, <2>4, <2>5, <2>6, OrderKept
<1>7. CASE CompleteBoth(c, {p})
  <2>1. FlipGone(p) /\ d \in alive /\ Unqueue(d) /\ Report(d, 2)
    BY <1>2, <1>7, CompleteBothFlips
  <2>2. OneFlipEach' /\ OthersBusy(d) /\ ~(Busy(d)')
    BY <1>2, <1>3, <2>1, FlipGoneBusy
  <2>3. /\ pending_swaps'[d] = pending_swaps[d] - 2 /\ queued[d] # None /\ queued'[d] = None
        /\ \A e \in Window \ {d} : pending_swaps'[e] = pending_swaps[e] /\ queued'[e] = queued[e]
    BY <2>1, ReportCounts, UnqueueCounts
  <2>4. OnlyWindow(d)
    BY <1>1, <1>3, <2>3 DEF OnlyWindow
  <2>5. pending_swaps'[d] = 0
    BY <1>3, <2>1, <2>3
  <2> QED
    BY <1>1, <2>1, <2>2, <2>3, <2>4, <2>5, OrderKept
<1> QED
  BY <1>1, <1>4, <1>5, <1>6, <1>7 DEF SwapComplete

\* A swap that waits for another keeps the counts exact,
LEMMA ScheduleQueuedOrder ==
  ASSUME IInv, OrderInv, NEW d \in Window, NEW c \in Cmd, ScheduleQueued(d, c), SameFlips
  PROVE  OrderInv'
<1>1. /\ d \in alive /\ queued[d] = None /\ c # None
      /\ queued' = [queued EXCEPT ![d] = c] /\ CountSwap(d) /\ UNCHANGED alive
  BY SetsAssumption DEF ScheduleQueued, MayRequest
<1>2. /\ pending_swaps'[d] = pending_swaps[d] + 1 /\ queued'[d] = c
      /\ \A e \in Window \ {d} : pending_swaps'[e] = pending_swaps[e] /\ queued'[e] = queued[e]
  BY <1>1 DEF CountSwap, IInv, TypeOK
<1>3. OneFlipEach' /\ OthersBusy(d) /\ (Busy(d)' <=> Busy(d))
  BY SameFlipsBusy DEF OthersBusy, OrderInv
<1>4. OnlyWindow(d)
  BY <1>1, <1>2 DEF OnlyWindow, IInv, TypeOK
<1>5. pending_swaps[d] = (IF Busy(d) THEN 1 ELSE 0) + 0
  BY <1>1 DEF OrderInv, SwapsCounted
<1> QED
  BY <1>1, <1>2, <1>3, <1>4, <1>5, OrderKept

\* and so does one that flips at once: the window had no flip under way.
LEMMA ScheduleFlipOrder ==
  ASSUME IInv, OrderInv, NEW d \in Window, NEW c \in Cmd, ScheduleFlip(d, c)
  PROVE  OrderInv'
<1>1. PICK n \in Flip \ Live :
        /\ Live' = Live \cup {n}
        /\ Owner(n)' = d
        /\ \A q \in Live : Owner(q)' = Owner(q)
  BY ScheduleFlipFlips DEF FlipKept
<1>2. /\ d \in alive /\ pending_swaps[d] + 1 <= 1 /\ CountSwap(d) /\ UNCHANGED <<alive, queued>>
  BY DEF ScheduleFlip, MayRequest
<1>3. /\ pending_swaps'[d] = pending_swaps[d] + 1
      /\ \A e \in Window \ {d} : pending_swaps'[e] = pending_swaps[e]
  BY <1>2 DEF CountSwap, IInv, TypeOK
<1>4. pending_swaps[d] = (IF Busy(d) THEN 1 ELSE 0) + (IF queued[d] = None THEN 0 ELSE 1)
  BY <1>2 DEF OrderInv, SwapsCounted
<1>5. ~Busy(d) /\ queued[d] = None /\ pending_swaps'[d] = 1
  BY <1>2, <1>3, <1>4
<1>6. \A q \in Live : Owner(q) # d
  BY <1>5 DEF Busy
<1>7. OneFlipEach'
  BY <1>1, <1>6 DEF OrderInv, OneFlipEach
<1>8. Busy(d)' /\ OthersBusy(d)
  BY <1>1 DEF Busy, OthersBusy
<1>9. OnlyWindow(d)
  BY <1>2, <1>3 DEF OnlyWindow, IInv, TypeOK
<1> QED
  BY <1>2, <1>5, <1>7, <1>8, <1>9, OrderKept

\* A window that goes takes its counts with it.
LEMMA DestroyWindowOrder ==
  ASSUME IInv, OrderInv, NEW d \in Window, DestroyWindow(d), SameFlips
  PROVE  OrderInv'
<1>1. /\ alive' = alive \ {d} /\ pending_swaps'[d] = 0 /\ queued'[d] = None
      /\ \A e \in Window \ {d} : pending_swaps'[e] = pending_swaps[e] /\ queued'[e] = queued[e]
  BY DEF DestroyWindow, IInv, TypeOK
<1>2. OnlyWindow(d)
  BY <1>1 DEF OnlyWindow, IInv, TypeOK
<1>3. OneFlipEach' /\ OthersBusy(d)
  BY SameFlipsBusy DEF OthersBusy, OrderInv
<1> QED
  BY <1>1, <1>2, <1>3, OrderKept

\* A window that comes has no flip of an old window of its XID,
LEMMA NewWindowIdle ==
  ASSUME ~MayReuseXid, NEW d \in Window, CreateWindow(d)
  PROVE  ~Busy(d)
BY DEF CreateWindow, Busy, Owner, InFlight

\* and no swap pending.
LEMMA CreateWindowOrder ==
  ASSUME ~MayReuseXid, IInv, OrderInv, NEW d \in Window, CreateWindow(d), SameFlips
  PROVE  OrderInv'
<1>1. /\ d \notin alive /\ alive' = alive \cup {d} /\ UNCHANGED <<pending_swaps, queued>>
  BY DEF CreateWindow, driVars
<1>2. ~Busy(d)
  BY NewWindowIdle
<1>3. pending_swaps[d] = 0 /\ queued[d] = None
  BY <1>1 DEF OrderInv, DeadClear
<1>4. OnlyWindow(d)
  BY <1>1 DEF OnlyWindow, IInv, TypeOK
<1>5. OneFlipEach' /\ OthersBusy(d) /\ ~(Busy(d)')
  BY <1>2, SameFlipsBusy DEF OthersBusy, OrderInv
<1> QED
  BY <1>1, <1>3, <1>4, <1>5, OrderKept

\* Every step keeps the counts exact, if XIDs of pending flips are not reused.
LEMMA OrderStep == ~MayReuseXid /\ IInv /\ OrderInv /\ [Next]_vars => OrderInv'
<1> SUFFICES ASSUME ~MayReuseXid, IInv, OrderInv, [Next]_vars PROVE OrderInv'
  OBVIOUS
<1> USE DEF driVars, coreVars
<1>1. CASE HandleLast
  BY <1>1, HandleLastOrder
<1>2. ASSUME NEW d \in Window, NEW c \in Cmd, ScheduleFlip(d, c) PROVE OrderInv'
  BY <1>2, ScheduleFlipOrder
<1>3. CASE ~HandleLast /\ \A d \in Window : \A c \in Cmd : ~ScheduleFlip(d, c)
  <2>1. SameFlips
    BY <1>3, OtherStepsFlips
  <2>2. ASSUME UNCHANGED <<pending_swaps, queued, alive>> PROVE OrderInv'
    BY <2>1, <2>2, CountsKept
  <2>3. ASSUME NEW d \in Window, ScheduleSwap(d) PROVE OrderInv'
    <3>1. CASE ScheduleCopy(d)
      BY <2>2, <3>1 DEF ScheduleCopy
    <3>2. ASSUME NEW c \in Cmd, ScheduleQueued(d, c) PROVE OrderInv'
      BY <2>1, <3>2, ScheduleQueuedOrder
    <3>3. ASSUME NEW c \in Cmd, ScheduleRefused(d, c) PROVE OrderInv'
      BY <2>2, <3>3 DEF ScheduleRefused
    <3> QED
      BY <1>2, <2>3, <3>1, <3>2, <3>3 DEF ScheduleSwap
  <2>4. CASE Client
    BY <2>1, <2>2, <2>3, <2>4, DestroyWindowOrder, CreateWindowOrder
       DEF Client, GetBuffers, Detach
  <2>5. CASE RandR \/ Kernel \/ HandleCounted \/ HandleFreed
    BY <2>2, <2>5 DEF RandR, Kernel, SetCrtc, Rotate, Resize, DisableCrtc, Vblank,
                      HandleCounted, HandleFreed
  <2>6. CASE BeginClose \/ FinishClose \/ Stopped \/ UNCHANGED vars
    BY <2>2, <2>6 DEF BeginClose, FinishClose, MoveTo, Stopped, vars
  <2> QED
    BY <1>3, <2>4, <2>5, <2>6 DEF Next, HandleEvent
<1> QED
  BY <1>1, <1>2, <1>3

\* At first nothing is pending.
LEMMA OrderBase == Init => OrderInv
BY DEF Init, OrderInv, DeadClear, OneFlipEach, SwapsCounted, Live

\* With no XID reused while a flip pends, what is pending is what is counted.
LEMMA OrderInvariant == ~MayReuseXid => (Spec => [](IInv /\ OrderInv))
<1> SUFFICES ASSUME ~MayReuseXid PROVE Spec => [](IInv /\ OrderInv)
  OBVIOUS
<1>1. IInv /\ OrderInv /\ [Next]_vars => OrderInv'
  BY OrderStep
<1> QED
  BY <1>1, Base, Step, OrderBase, PTL DEF Spec

\* A window whose queue is not empty has a flip under way to empty it.
LEMMA QueueFollowsFlip ==
  ASSUME IInv, OrderInv, NEW d \in alive, queued[d] # None
  PROVE  Busy(d)
<1>1. d \in Window
  BY DEF IInv, TypeOK
<1>2. pending_swaps[d] >= 2
  BY <1>1 DEF IInv, Ownership, QueueNeedsTwo
<1>3. pending_swaps[d] = (IF Busy(d) THEN 1 ELSE 0) + 1
  BY DEF OrderInv, SwapsCounted
<1> QED
  BY <1>2, <1>3

\* The commands of a window: those of its flips, and the one in its queue.
LEMMA CommandsOf ==
  ASSUME IInv, NEW d \in alive, NEW c
  PROVE  /\ c \in InFlight /\ cmd[c].draw_id = d <=> \E p \in Live : Owner(p) = d /\ c = flip[p].priv
         /\ c \in Waiting /\ cmd[c].draw_id = d <=> queued[d] # None /\ c = queued[d]
<1>1. d \in Window
  BY DEF IInv, TypeOK
<1>2. c \in InFlight /\ cmd[c].draw_id = d <=> \E p \in Live : Owner(p) = d /\ c = flip[p].priv
  BY DEF InFlight, Owner
<1>3. \A e \in Window : queued[e] # None => cmd[queued[e]].draw_id = e
  BY DEF IInv, Ownership, CommandsOwned
<1>4. c \in Waiting /\ cmd[c].draw_id = d <=> queued[d] # None /\ c = queued[d]
  BY <1>1, <1>3 DEF Waiting
<1> QED
  BY <1>2, <1>4

\* pending_swaps is the number of the window's commands that are under way or
\* queued: OMAPDRI2ScheduleSwap and OMAPDRI2SwapComplete count each once, through
\* every nesting, provided that the XID is not reused while a flip of an old
\* window pends: its completion would leave the count of the new one.
THEOREM PendingSwapsExact == ~MayReuseXid => (Spec => []PendingSwapsCounted)
<1> SUFFICES ASSUME ~MayReuseXid PROVE Spec => []PendingSwapsCounted
  OBVIOUS
<1>1. IInv /\ OrderInv => PendingSwapsCounted
  <2> SUFFICES ASSUME IInv, OrderInv, NEW d \in alive
               PROVE  pending_swaps[d]
                        = Cardinality({c \in InFlight \cup Waiting : cmd[c].draw_id = d})
    BY DEF PendingSwapsCounted
  <2> DEFINE S == {c \in InFlight \cup Waiting : cmd[c].draw_id = d}
  <2>1. pending_swaps[d] = (IF Busy(d) THEN 1 ELSE 0) + (IF queued[d] = None THEN 0 ELSE 1)
    BY DEF OrderInv, SwapsCounted
  <2>2. \A c : c \in S <=> \/ \E p \in Live : Owner(p) = d /\ c = flip[p].priv
                           \/ queued[d] # None /\ c = queued[d]
    BY CommandsOf
  <2>3. CASE ~Busy(d)
    <3>1. queued[d] = None
      BY <2>3, QueueFollowsFlip
    <3>2. S = {}
      <4> HIDE DEF S
      <4> QED
        BY <2>2, <2>3, <3>1 DEF Busy
    <3> QED
      BY <2>1, <2>3, <3>1, <3>2, FS_EmptySet
  <2>4. CASE Busy(d)
    <3>1. PICK p \in Live : Owner(p) = d
      BY <2>4 DEF Busy
    <3>2. \A q \in Live : Owner(q) = d => q = p
      BY <3>1 DEF OrderInv, OneFlipEach
    <3> DEFINE a == flip[p].priv
               b == queued[d]
    <3>3. CASE b = None
      <4>1. S = {a}
        <5> HIDE DEF S
        <5> QED
          BY <2>2, <3>1, <3>2, <3>3
      <4>2. Cardinality({a}) = 1
        BY FS_Singleton
      <4>3. pending_swaps[d] = 1
        BY <2>1, <2>4, <3>3
      <4> QED
        BY <4>1, <4>2, <4>3
    <3>4. CASE b # None
      <4>1. S = {a, b}
        <5> HIDE DEF S
        <5> QED
          BY <2>2, <3>1, <3>2, <3>4
      <4>2. a # b
        BY <3>4, LastFlip DEF IInv, TypeOK, Ownership, CommandsOwned
      <4>3. pending_swaps[d] = 2
        BY <2>1, <2>4, <3>4
      <4> HIDE DEF S, a, b
      <4>4. /\ IsFiniteSet({a}) /\ Cardinality({a}) = 1 /\ b \notin {a}
            /\ {a} \cup {b} = {a, b}
        BY <4>2, FS_Singleton
      <4>5. Cardinality({a, b}) = 2
        BY <4>4, FS_AddElement
      <4> QED
        BY <4>1, <4>3, <4>5 DEF S
    <3> QED
      BY <3>3, <3>4
  <2> QED
    BY <2>3, <2>4
<1> QED
  BY <1>1, OrderInvariant, PTL

-----------------------------------------------------------------------------
(* The DRI2 module's throttle *)

\* The two counts of a window's swaps agree, and a window without buffers has
\* no swap pending.
InStep ==
  \A d \in Window :
    /\ swapsPending[d] = pending_swaps[d]
    /\ swapsPending[d] <= SwapLimit
    /\ front[d] = None => pending_swaps[d] = 0

\* What one step does to the counts of window d, and to no other's.
LEMMA InStepKept ==
  ASSUME InStep, NEW d \in Window,
         \A e \in Window \ {d} : /\ pending_swaps'[e] = pending_swaps[e]
                                 /\ swapsPending'[e] = swapsPending[e]
                                 /\ front'[e] = front[e],
         swapsPending'[d] = pending_swaps'[d], swapsPending'[d] <= SwapLimit,
         front'[d] = None => pending_swaps'[d] = 0
  PROVE  InStep'
BY DEF InStep

\* A completion reports to the DRI2 module exactly what leaves pending_swaps:
\* a window with a flip under way has its buffers.
LEMMA ReportInStep ==
  ASSUME IInv, OrderInv, InStep, NEW p \in Live, Owner(p) \in alive, NEW n \in {1, 2},
         Report(Owner(p), n), UNCHANGED front
  PROVE  InStep'
<1>1. PICK d \in Window : d = Owner(p)
  BY OtherFlips
<1>2. pending_swaps[d] >= 1
  BY <1>1 DEF OrderInv, SwapsCounted, Busy
<1>3. front[d] # None /\ swapsPending[d] = pending_swaps[d] /\ swapsPending[d] <= SwapLimit
  BY <1>2 DEF InStep
<1>4. /\ pending_swaps[d] \in Int /\ pending_swaps'[d] = pending_swaps[d] - n
      /\ swapsPending'[d] = swapsPending[d] - n
      /\ \A e \in Window \ {d} : /\ pending_swaps'[e] = pending_swaps[e]
                                 /\ swapsPending'[e] = swapsPending[e]
  BY <1>1, <1>3, ReportCounts
<1>5. swapsPending'[d] = pending_swaps'[d] /\ swapsPending'[d] <= SwapLimit
  BY <1>3, <1>4, NumbersAssumption
<1> QED
  BY <1>3, <1>4, <1>5, InStepKept

\* A request passes the throttle and is counted on both sides.
LEMMA CountInStep ==
  ASSUME IInv, InStep, NEW d \in Window, MayRequest(d), CountSwap(d), UNCHANGED front
  PROVE  InStep'
<1>1. /\ front[d] # None /\ swapsPending[d] < SwapLimit
      /\ swapsPending[d] = pending_swaps[d] /\ swapsPending[d] \in Int
  BY DEF MayRequest, InStep, IInv, TypeOK
<1>2. /\ pending_swaps'[d] = pending_swaps[d] + 1 /\ swapsPending'[d] = swapsPending[d] + 1
      /\ \A e \in Window \ {d} : /\ pending_swaps'[e] = pending_swaps[e]
                                 /\ swapsPending'[e] = swapsPending[e]
  BY DEF CountSwap, IInv, TypeOK
<1>3. swapsPending'[d] <= SwapLimit
  BY <1>1, <1>2, NumbersAssumption
<1> QED
  BY <1>1, <1>2, <1>3, InStepKept

\* Every step keeps the counts in step, if no client leaves with swaps pending.
LEMMA InStepStep ==
  ~MayDetach /\ IInv /\ OrderInv /\ InStep /\ [Next]_vars => InStep'
<1> SUFFICES ASSUME ~MayDetach, IInv, OrderInv, InStep, [Next]_vars PROVE InStep'
  OBVIOUS
<1> USE DEF driVars, coreVars
<1>1. ASSUME UNCHANGED <<pending_swaps, swapsPending, front>> PROVE InStep'
  BY <1>1 DEF InStep
<1>2. ASSUME NEW d \in Window, ScheduleSwap(d) PROVE InStep'
  <2>1. CASE ScheduleCopy(d)
    BY <1>1, <2>1 DEF ScheduleCopy
  <2>2. ASSUME NEW c \in Cmd, ScheduleRefused(d, c) PROVE InStep'
    BY <1>1, <2>2 DEF ScheduleRefused
  <2>3. ASSUME NEW c \in Cmd, ScheduleQueued(d, c) \/ ScheduleFlip(d, c) PROVE InStep'
    BY <2>3, CountInStep DEF ScheduleQueued, ScheduleFlip
  <2> QED
    BY <1>2, <2>1, <2>2, <2>3 DEF ScheduleSwap
<1>3. ASSUME NEW d \in Window, NEW f \in Buf, NEW b \in Buf, GetBuffers(d, f, b) PROVE InStep'
  <2>1. f # None /\ front' = [front EXCEPT ![d] = f] /\ UNCHANGED <<pending_swaps, swapsPending>>
    BY <1>3, SetsAssumption DEF GetBuffers
  <2> QED
    BY <2>1 DEF InStep, IInv, TypeOK
<1>4. ASSUME NEW d \in Window, Detach(d) PROVE InStep'
  <2>1. /\ pending_swaps[d] = 0 /\ UNCHANGED pending_swaps
        /\ front' = [front EXCEPT ![d] = None]
        /\ swapsPending' = [swapsPending EXCEPT ![d] = 0]
    BY <1>4 DEF Detach
  <2> QED
    BY <2>1, NumbersAssumption DEF InStep, IInv, TypeOK
<1>5. ASSUME NEW d \in Window, DestroyWindow(d) PROVE InStep'
  <2>1. /\ pending_swaps' = [pending_swaps EXCEPT ![d] = 0]
        /\ front' = [front EXCEPT ![d] = None]
        /\ swapsPending' = [swapsPending EXCEPT ![d] = 0]
    BY <1>5 DEF DestroyWindow
  <2> QED
    BY <2>1, NumbersAssumption DEF InStep, IInv, TypeOK
<1>6. CASE HandleLast
  <2>1. PICK p \in Live : SwapComplete(flip[p].priv, {p}) /\ UNCHANGED front
    BY <1>6 DEF HandleLast
  <2>2. CASE CompleteOrphan(flip[p].priv, {p})
    BY <1>1, <2>1, <2>2, CompleteOrphanFlips
  <2>3. CASE CompleteLast(flip[p].priv, {p}) \/ CompleteThenFlip(flip[p].priv, {p})
    BY <2>1, <2>3, CompleteLastFlips, CompleteThenFlipFlips, ReportInStep
  <2>4. CASE CompleteBoth(flip[p].priv, {p})
    BY <2>1, <2>4, CompleteBothFlips, ReportInStep
  <2> QED
    BY <2>1, <2>2, <2>3, <2>4 DEF SwapComplete
<1>7. CASE RandR \/ Kernel \/ HandleCounted \/ HandleFreed
  BY <1>1, <1>7 DEF RandR, Kernel, SetCrtc, Rotate, Resize, DisableCrtc, Vblank,
                    HandleCounted, HandleFreed
<1>8. CASE BeginClose \/ FinishClose \/ Stopped \/ UNCHANGED vars
  BY <1>1, <1>8 DEF BeginClose, FinishClose, MoveTo, Stopped, vars
<1>9. CASE Client
  BY <1>1, <1>2, <1>3, <1>4, <1>5, <1>9 DEF Client, CreateWindow
<1> QED
  BY <1>6, <1>7, <1>8, <1>9 DEF Next, HandleEvent

LEMMA InStepBase == Init => InStep
BY NumbersAssumption DEF Init, InStep

\* All there is to know of the counts where the environment is tame.
TameInv == IInv /\ OrderInv /\ InStep

LEMMA TameInvariant == ~MayReuseXid /\ ~MayDetach => (Spec => []TameInv)
<1> SUFFICES ASSUME ~MayReuseXid, ~MayDetach PROVE Spec => []TameInv
  OBVIOUS
<1>1. Init => TameInv
  BY Base, OrderBase, InStepBase DEF TameInv
<1>2. TameInv /\ [Next]_vars => TameInv'
  BY Step, OrderStep, InStepStep DEF TameInv
<1> QED
  BY <1>1, <1>2, PTL DEF Spec

\* The DRI2 module's count of a window's swaps and the driver's agree and stay
\* within the swap limit, so the module stops the client before the one-deep
\* queue of OMAPDRI2ScheduleSwap overflows.
THEOREM ThrottleHolds == ~MayReuseXid /\ ~MayDetach => (Spec => []ThrottleInStep)
<1>1. TameInv => ThrottleInStep
  BY DEF TameInv, InStep, ThrottleInStep
<1> QED
  BY <1>1, TameInvariant, PTL

\* The driver never counts more swaps of a window than the DRI2 module does. Where
\* an XID is reused it may count fewer: the completion of an old window's flip
\* then leaves the new one's count, whether or not the module knows of it.
DriverBehind == \A d \in Window : pending_swaps[d] <= swapsPending[d]

\* Every step keeps that, if no client leaves with swaps pending.
LEMMA DriverBehindStep ==
  ~MayDetach /\ IInv /\ DriverBehind /\ [Next]_vars => DriverBehind'
<1> SUFFICES ASSUME ~MayDetach, IInv, DriverBehind, [Next]_vars PROVE DriverBehind'
  OBVIOUS
<1> USE DEF driVars, coreVars
<1>1. ASSUME UNCHANGED <<pending_swaps, swapsPending>> PROVE DriverBehind'
  BY <1>1 DEF DriverBehind
<1>2. /\ pending_swaps \in [Window -> Int] /\ swapsPending \in [Window -> Int]
  BY DEF IInv, TypeOK
<1>3. ASSUME NEW d \in Window, CountSwap(d) PROVE DriverBehind'
  BY <1>2, <1>3 DEF CountSwap, DriverBehind
<1>4. ASSUME NEW d, NEW n \in {1, 2}, Report(d, n) PROVE DriverBehind'
  BY <1>2, <1>4 DEF Report, DriverBehind
<1>5. ASSUME NEW d \in Window, Detach(d) \/ DestroyWindow(d) PROVE DriverBehind'
  BY <1>2, <1>5 DEF Detach, DestroyWindow, DriverBehind
<1>6. ASSUME NEW d \in Window, ScheduleSwap(d) PROVE DriverBehind'
  BY <1>1, <1>3, <1>6
     DEF ScheduleSwap, ScheduleCopy, ScheduleRefused, ScheduleQueued, ScheduleFlip
<1>7. CASE HandleLast
  <2>1. PICK p \in Live : SwapComplete(flip[p].priv, {p})
    BY <1>7 DEF HandleLast
  <2> QED
    BY <1>1, <1>4, <2>1 DEF SwapComplete, CompleteOrphan, CompleteLast, CompleteThenFlip, CompleteBoth
<1>8. CASE RandR \/ Kernel \/ HandleCounted \/ HandleFreed
  BY <1>1, <1>8 DEF RandR, Kernel, SetCrtc, Rotate, Resize, DisableCrtc, Vblank,
                    HandleCounted, HandleFreed
<1>9. CASE BeginClose \/ FinishClose \/ Stopped \/ UNCHANGED vars
  BY <1>1, <1>9 DEF BeginClose, FinishClose, MoveTo, Stopped, vars
<1>10. CASE Client
  BY <1>1, <1>5, <1>6, <1>10 DEF Client, GetBuffers, CreateWindow
<1> QED
  BY <1>7, <1>8, <1>9, <1>10 DEF Next, HandleEvent

LEMMA DriverBehindInvariant == ~MayDetach => (Spec => [](IInv /\ DriverBehind))
<1> SUFFICES ASSUME ~MayDetach PROVE Spec => [](IInv /\ DriverBehind)
  OBVIOUS
<1>1. Init => IInv /\ DriverBehind
  BY Base DEF Init, DriverBehind
<1>2. IInv /\ DriverBehind /\ [Next]_vars => (IInv /\ DriverBehind)'
  BY Step, DriverBehindStep
<1> QED
  BY <1>1, <1>2, PTL DEF Spec

\* A request that passes the throttle never finds the queue taken.
LEMMA NeverRefused ==
  ASSUME IInv, DriverBehind, NEW d \in Window, NEW c \in Cmd
  PROVE  ~ScheduleRefused(d, c)
<1> SUFFICES ASSUME ScheduleRefused(d, c) PROVE FALSE
  OBVIOUS
<1>1. swapsPending[d] < SwapLimit /\ queued[d] # None
  BY DEF ScheduleRefused, MayRequest
<1>2. pending_swaps[d] >= 2 /\ pending_swaps[d] \in Int /\ swapsPending[d] \in Int
  BY <1>1 DEF IInv, TypeOK, Ownership, QueueNeedsTwo
<1>3. pending_swaps[d] <= swapsPending[d]
  BY DEF DriverBehind
<1> QED
  BY <1>1, <1>2, <1>3, NumbersAssumption

-----------------------------------------------------------------------------
(* No command is lost but with its window *)

\* What OMAPDRI2SwapComplete frees is no longer allocated, and nothing else is new.
LEMMA RetireAllocated ==
  ASSUME IInv, NEW done \in SUBSET Allocated, NEW flipped \in SUBSET Allocated,
         Retire(done, flipped)
  PROVE  Allocated' \subseteq Allocated \ done
BY DEF Retire, Allocated

\* A completion hands on or frees each command it touches.
LEMMA HandleLastLosesNone ==
  ASSUME IInv, HandleLast, NEW c \in Allocated'
  PROVE  c \in InFlight' \cup Waiting' \/ c \in Allocated \ (InFlight \cup Waiting)
<1>1. PICK p \in Live : SwapComplete(flip[p].priv, {p})
  BY DEF HandleLast
<1> DEFINE a == flip[p].priv
<1>2. PICK d \in Window : d = Owner(p)
  BY OtherFlips
<1> DEFINE w == queued[d]
<1>3. a \in Allocated
  BY OtherFlips
<1>4. Unqueue(d) => w \in Allocated
  BY <1>2, QueuedCommand DEF Owner
<1>5. ASSUME c \in Allocated, c # a, \A q \in Live \ {p} : q \in Live' /\ FlipKept(q),
             c \in Waiting => c \in InFlight' \cup Waiting'
      PROVE  c \in InFlight' \cup Waiting' \/ c \in Allocated \ (InFlight \cup Waiting)
  <2>1. c \in InFlight => c \in InFlight'
    BY <1>5 DEF InFlight, FlipKept
  <2> QED
    BY <1>5, <2>1
<1>6. ASSUME NEW done \in SUBSET Allocated, NEW flipped \in SUBSET Allocated,
             Retire(done, flipped), a \in done
      PROVE  c \in Allocated /\ c \notin done
  BY <1>6, RetireAllocated
<1>7. {a} \in SUBSET Allocated /\ {} \in SUBSET Allocated
  BY <1>3
<1>8. CASE CompleteOrphan(a, {p}) \/ CompleteLast(a, {p})
  <2>1. FlipGone(p) /\ UNCHANGED queued
    BY <1>8, CompleteOrphanFlips, CompleteLastFlips DEF driVars
  <2>2. Retire({a}, {})
    BY <1>8 DEF CompleteOrphan, CompleteLast, Finish
  <2>3. c \in Allocated /\ c # a
    <3> HIDE DEF a
    <3> QED
      BY <1>6, <1>7, <2>2
  <2>4. Waiting' = Waiting
    BY <2>1 DEF Waiting
  <2> QED
    BY <1>5, <2>1, <2>3, <2>4 DEF FlipGone
<1>9. CASE CompleteThenFlip(a, {p})
  <2>1. PICK n : FlipReplaced(p, d, n, w)
    BY <1>2, <1>9, CompleteThenFlipFlips
  <2>2. Retire({a}, {w}) /\ Unqueue(d)
    BY <1>2, <1>9 DEF CompleteThenFlip, Owner
  <2>3. c \in Allocated /\ c # a
    <3>1. {w} \in SUBSET Allocated
      BY <1>4, <2>2
    <3> HIDE DEF a, w
    <3> QED
      BY <1>6, <1>7, <2>2, <3>1
  <2>4. w \in InFlight'
    BY <2>1 DEF FlipReplaced, InFlight
  <2>5. \A e \in Window \ {d} : queued'[e] = queued[e]
    BY <2>2, UnqueueCounts
  <2>6. c \in Waiting => c = w \/ c \in Waiting'
    BY <2>5 DEF Waiting
  <2> QED
    BY <1>5, <2>1, <2>3, <2>4, <2>6 DEF FlipReplaced
<1>10. CASE CompleteBoth(a, {p})
  <2>1. FlipGone(p)
    BY <1>10, CompleteBothFlips
  <2>2. Retire({a, w}, {}) /\ Unqueue(d)
    BY <1>2, <1>10 DEF CompleteBoth, Finish, Owner
  <2>3. c \in Allocated /\ c # a /\ c # w
    <3>1. {a, w} \in SUBSET Allocated
      BY <1>3, <1>4, <2>2
    <3> HIDE DEF a, w
    <3> QED
      BY <1>6, <1>7, <2>2, <3>1
  <2>4. \A e \in Window \ {d} : queued'[e] = queued[e]
    BY <2>2, UnqueueCounts
  <2>5. c \in Waiting => c \in Waiting'
    BY <2>3, <2>4 DEF Waiting
  <2> QED
    BY <1>5, <2>1, <2>3, <2>5 DEF FlipGone
<1> QED
  BY <1>1, <1>8, <1>9, <1>10 DEF SwapComplete

\* Where no client leaves with swaps pending, a command stops being under way or
\* queued without being freed only when its window is destroyed: OMAPDRI2DrawableGone frees the
\* record that points to it (omap_dri2.c), and no request is ever refused.
THEOREM OrphansFromDestroyOnly ==
  ~MayDetach => (Spec => OnlyDestroyOrphans)
<1> SUFFICES ASSUME ~MayDetach PROVE Spec => OnlyDestroyOrphans
  OBVIOUS
<1> DEFINE Lost(c) == cmd'[c].draw_id \in alive \ alive'
           Explained(c) ==
             \/ c \in InFlight' \cup Waiting'
             \/ c \in Allocated \ (InFlight \cup Waiting)
             \/ Lost(c)
<1>1. ASSUME IInv, DriverBehind, [Next]_vars, NEW c \in Allocated' PROVE Explained(c)
  <2> USE DEF driVars, heapVars
  <2>1. IInv
    BY <1>1
  <2>2. CASE HandleLast
    BY <1>1, <2>1, <2>2, HandleLastLosesNone
  <2>3. ASSUME NEW d \in Window, NEW x \in Cmd, ScheduleFlip(d, x) PROVE Explained(c)
    <3>1. PICK n \in Flip \ Live :
            Live' = Live \cup {n} /\ flip'[n].priv = x /\ \A q \in Live : FlipKept(q)
      BY <2>1, <2>3, ScheduleFlipFlips
    <3>2. UNCHANGED queued /\ (c = x \/ c \in Allocated)
      BY <2>1, <2>3 DEF ScheduleFlip, Allocate, Allocated, IInv, TypeOK
    <3>3. x \in InFlight' /\ InFlight \subseteq InFlight' /\ Waiting' = Waiting
      BY <3>1, <3>2 DEF InFlight, FlipKept, Waiting
    <3> QED
      BY <3>2, <3>3
  <2>4. CASE ~HandleLast /\ \A d \in Window : \A x \in Cmd : ~ScheduleFlip(d, x)
    <3>1. InFlight' = InFlight
      <4>1. SameFlips
        BY <1>1, <2>1, <2>4, OtherStepsFlips
      <4> QED
        BY <4>1 DEF SameFlips, FlipKept, InFlight
    <3>2. ASSUME UNCHANGED <<cmd, queued>> PROVE Explained(c)
      BY <3>1, <3>2 DEF Waiting, Allocated
    <3>3. ASSUME NEW d \in Window, ScheduleSwap(d) PROVE Explained(c)
      <4>1. CASE ScheduleCopy(d)
        BY <3>2, <4>1 DEF ScheduleCopy
      <4>2. ASSUME NEW x \in Cmd, ScheduleQueued(d, x) PROVE Explained(c)
        <5>1. /\ queued' = [queued EXCEPT ![d] = x] /\ queued[d] = None
              /\ c = x \/ c \in Allocated
          BY <2>1, <4>2 DEF ScheduleQueued, Allocate, Allocated, IInv, TypeOK
        <5>2. queued'[d] = x /\ x # None /\ \A e \in Window \ {d} : queued'[e] = queued[e]
          BY <2>1, <5>1, SetsAssumption DEF IInv, TypeOK
        <5>3. x \in Waiting' /\ Waiting \subseteq Waiting'
          BY <5>1, <5>2 DEF Waiting
        <5> QED
          BY <3>1, <5>1, <5>3
      <4> QED
        BY <1>1, <2>4, <3>3, <4>1, <4>2, NeverRefused DEF ScheduleSwap
    <3>4. ASSUME NEW d \in Window, DestroyWindow(d) PROVE Explained(c)
      <4>1. /\ queued' = [queued EXCEPT ![d] = None] /\ UNCHANGED cmd
            /\ d \in alive /\ alive' = alive \ {d}
        BY <3>4 DEF DestroyWindow
      <4>2. \A e \in Window \ {d} : queued'[e] = queued[e]
        BY <2>1, <4>1 DEF IInv, TypeOK
      <4>3. c \in Waiting => c \in Waiting' \/ (c = queued[d] /\ c # None)
        BY <4>2 DEF Waiting
      <4>4. c = queued[d] /\ c # None => cmd'[c].draw_id = d
        BY <2>1, <4>1 DEF IInv, Ownership, CommandsOwned
      <4>5. c \in Allocated
        BY <4>1 DEF Allocated
      <4> QED
        BY <3>1, <4>1, <4>3, <4>4, <4>5
    <3>5. CASE Client
      BY <3>2, <3>3, <3>4, <3>5 DEF Client, GetBuffers, Detach, CreateWindow
    <3>6. CASE RandR \/ Kernel \/ HandleCounted \/ HandleFreed
      BY <3>2, <3>6 DEF RandR, Kernel, SetCrtc, Rotate, Resize, DisableCrtc, Vblank,
                        HandleCounted, HandleFreed
    <3>7. CASE BeginClose \/ FinishClose \/ Stopped \/ UNCHANGED vars
      BY <3>2, <3>7 DEF BeginClose, FinishClose, MoveTo, Stopped, vars
    <3> QED
      BY <1>1, <2>4, <3>5, <3>6, <3>7 DEF Next, HandleEvent
  <2> QED
    BY <2>2, <2>3, <2>4
<1>2. IInv /\ DriverBehind /\ [Next]_vars => [\A c \in Allocated' : Explained(c)]_vars
  BY <1>1
<1> QED
  BY <1>2, DriverBehindInvariant, PTL DEF Spec, OnlyDestroyOrphans

-----------------------------------------------------------------------------
(* The swap engine implements SwapOrder *)

\* Two sequences of one.
LEMMA JoinOnes ==
  ASSUME NEW a \in Cmd, NEW b \in Cmd
  PROVE  <<a>> \o <<b>> = <<a, b>>
<1> DEFINE s == <<a>>
           t == <<b>>
           u == <<a, b>>
<1>1. /\ Len(s) = 1 /\ s[1] = a /\ s \in Seq(Cmd)
      /\ Len(t) = 1 /\ t[1] = b /\ t \in Seq(Cmd)
  OBVIOUS
<1>2. Len(u) = 2 /\ u[1] = a /\ u[2] = b /\ u \in Seq(Cmd)
  OBVIOUS
<1> HIDE DEF s, t, u
<1>3. /\ s \o t \in Seq(Cmd) /\ Len(s \o t) = Len(s) + Len(t)
      /\ \A i \in 1 .. Len(s) + Len(t) : (s \o t)[i] = IF i <= Len(s) THEN s[i] ELSE t[i - Len(s)]
  BY <1>1, ConcatProperties
<1>4. Len(s \o t) = Len(u) /\ \A i \in 1 .. Len(s \o t) : (s \o t)[i] = u[i]
  BY <1>1, <1>2, <1>3
<1> QED
  BY <1>2, <1>3, <1>4, SeqEqual DEF s, t, u

\* The last of a sequence of two.
LEMMA SecondOfTwo ==
  ASSUME NEW a \in Cmd, NEW b \in Cmd
  PROVE  SubSeq(<<a, b>>, 2, 2) = <<b>>
<1> DEFINE t == <<b>>
           u == <<a, b>>
           v == SubSeq(u, 2, 2)
<1>1. /\ Len(t) = 1 /\ t[1] = b /\ t \in Seq(Cmd)
      /\ Len(u) = 2 /\ u[1] = a /\ u[2] = b /\ u \in Seq(Cmd)
  OBVIOUS
<1>2. v \in Seq(Cmd) /\ Len(v) = 1 /\ v[1] = u[2]
  <2> HIDE DEF u
  <2>1. v \in Seq(Cmd) /\ Len(v) = 1 /\ \A i \in 1 .. 1 : v[i] = u[i + 1]
    BY <1>1, SubSeqProperties
  <2> QED
    BY <2>1
<1> HIDE DEF t, u, v
<1>3. Len(v) = Len(t) /\ \A i \in 1 .. Len(v) : v[i] = t[i]
  BY <1>1, <1>2
<1> QED
  BY <1>1, <1>2, <1>3, SeqEqual DEF t, u, v

\* The sequences of at most two commands, and what becomes of them.
LEMMA ShortSeqs ==
  ASSUME NEW a \in Cmd, NEW b \in Cmd
  PROVE  /\ Len(<<a>>) = 1 /\ <<a>>[1] = a
         /\ Len(<<a, b>>) = 2 /\ <<a, b>>[1] = a /\ <<a, b>>[2] = b
         /\ <<a>> \o <<>> = <<a>> /\ <<a>> \o <<b>> = <<a, b>>
         /\ Append(<<>>, a) = <<a>> /\ Append(<<a>>, b) = <<a, b>>
         /\ SubSeq(<<a>>, 2, 1) = <<>>
         /\ SubSeq(<<a, b>>, 2, 2) = <<b>> /\ SubSeq(<<a, b>>, 3, 2) = <<>>
<1>1. /\ Len(<<a>>) = 1 /\ <<a>>[1] = a /\ <<a>> \in Seq(Cmd)
      /\ Len(<<a, b>>) = 2 /\ <<a, b>>[1] = a /\ <<a, b>>[2] = b
  OBVIOUS
<1>2. <<a>> \o <<>> = <<a>> /\ <<>> \in Seq(Cmd) /\ <<>> \o <<a>> = <<a>>
  BY <1>1, ConcatEmptySeq
<1>3. Append(<<>>, a) = <<a>>
  BY <1>2, AppendIsConcat
<1>4. Append(<<a>>, b) = <<a, b>>
  BY <1>1, JoinOnes, AppendIsConcat
<1>5. SubSeq(<<a>>, 2, 1) = <<>> /\ SubSeq(<<a, b>>, 3, 2) = <<>>
  OBVIOUS
<1> QED
  BY <1>1, <1>2, <1>3, <1>4, <1>5, JoinOnes, SecondOfTwo

\* The swaps of window d, by its flip and its queue.
SwapsSeen(d) ==
  /\ d \notin alive \/ ~Busy(d) => SwapsOf[d] = <<>>
  /\ \A p \in Live :
       d \in alive /\ Owner(p) = d =>
         SwapsOf[d] = IF queued[d] = None THEN <<flip[p].priv>>
                      ELSE <<flip[p].priv, queued[d]>>

AllSwapsSeen == \A d \in Window : SwapsSeen(d)

\* SwapsOf is what the flip and the queue of each window say.
LEMMA SwapsAre == IInv /\ OrderInv => AllSwapsSeen
<1> SUFFICES ASSUME IInv, OrderInv, NEW d \in Window PROVE SwapsSeen(d)
  BY DEF AllSwapsSeen
<1>1. SwapsOf[d] = IF d \notin alive THEN <<>>
                   ELSE (IF InFlightOf(d) = {} THEN <<>>
                         ELSE <<CHOOSE c \in InFlightOf(d) : TRUE>>)
                          \o (IF queued[d] = None THEN <<>> ELSE <<queued[d]>>)
  BY DEF SwapsOf
<1>2. CASE d \notin alive
  BY <1>1, <1>2 DEF SwapsSeen
<1>3. CASE d \in alive /\ ~Busy(d)
  <2>1. queued[d] = None /\ InFlightOf(d) = {}
    BY <1>3, QueueFollowsFlip DEF InFlightOf, InFlight, Busy, Owner
  <2> QED
    BY <1>1, <1>3, <2>1 DEF SwapsSeen, Busy
<1>4. ASSUME d \in alive, NEW p \in Live, Owner(p) = d
      PROVE  SwapsOf[d] = IF queued[d] = None THEN <<flip[p].priv>>
                          ELSE <<flip[p].priv, queued[d]>>
  <2> DEFINE a == flip[p].priv
             b == queued[d]
  <2>1. \A q \in Live : Owner(q) = d => q = p
    BY <1>4 DEF OrderInv, OneFlipEach
  <2>2. InFlightOf(d) = {a}
    BY <1>4, <2>1 DEF InFlightOf, InFlight, Owner
  <2>3. (CHOOSE c \in InFlightOf(d) : TRUE) = a
    BY <2>2
  <2>4. a \in Cmd /\ b \in Cmd \cup {None}
    BY LastFlip DEF IInv, TypeOK
  <2>5. SwapsOf[d] = <<a>> \o (IF b = None THEN <<>> ELSE <<b>>)
    BY <1>1, <1>4, <2>2, <2>3
  <2> HIDE DEF a, b
  <2>6. CASE b = None
    <3>1. <<a>> \o <<>> = <<a>>
      BY <2>4, ShortSeqs
    <3> QED
      BY <2>5, <2>6, <3>1 DEF a, b
  <2>7. CASE b # None
    <3>1. <<a>> \o <<b>> = <<a, b>>
      BY <2>4, <2>7, ShortSeqs
    <3> QED
      BY <2>5, <2>7, <3>1 DEF a, b
  <2> QED
    BY <2>6, <2>7
<1> QED
  BY <1>2, <1>3, <1>4 DEF SwapsSeen, Busy

\* The same of the state a step leads to.
LEMMA SwapsAreNext == (IInv /\ OrderInv)' => AllSwapsSeen'
BY SwapsAre, PTL

\* The three shapes the swaps of a window can have.
LEMMA SwapsShape ==
  ASSUME IInv, OrderInv, NEW d \in Window
  PROVE  \/ SwapsOf[d] = <<>> /\ (d \in alive => ~Busy(d) /\ queued[d] = None)
         \/ \E p \in Live :
              /\ d \in alive /\ Owner(p) = d /\ queued[d] = None
              /\ SwapsOf[d] = <<flip[p].priv>>
         \/ \E p \in Live :
              /\ d \in alive /\ Owner(p) = d /\ queued[d] # None
              /\ SwapsOf[d] = <<flip[p].priv, queued[d]>>
<1>1. SwapsSeen(d)
  BY SwapsAre DEF AllSwapsSeen
<1>2. CASE d \notin alive
  BY <1>1, <1>2 DEF SwapsSeen
<1>3. CASE d \in alive /\ ~Busy(d)
  BY <1>1, <1>3, QueueFollowsFlip DEF SwapsSeen
<1>4. CASE d \in alive /\ Busy(d)
  BY <1>1, <1>4 DEF SwapsSeen, Busy
<1> QED
  BY <1>2, <1>3, <1>4

\* Every swap of a window is a command that is allocated,
LEMMA SwapsAllocated ==
  ASSUME IInv, OrderInv, NEW d \in Window, NEW i \in 1 .. Len(SwapsOf[d])
  PROVE  SwapsOf[d][i] \in Allocated
<1>1. \A p \in Live : flip[p].priv \in Allocated /\ flip[p].priv \in Cmd
  BY LastFlip
<1>2. queued[d] # None => queued[d] \in Allocated /\ queued[d] \in Cmd
  BY DEF IInv, TypeOK, Ownership, CommandsOwned
<1> DEFINE s == SwapsOf[d]
<1>3. CASE s = <<>>
  BY <1>3
<1>4. ASSUME NEW a \in Allocated, a \in Cmd, s = <<a>> PROVE s[i] \in Allocated
  <2>1. Len(<<a>>) = 1 /\ <<a>>[1] = a
    BY <1>4, ShortSeqs
  <2>2. Len(s) = 1 /\ s[1] = a /\ i \in 1 .. Len(s)
    BY <1>4, <2>1
  <2> HIDE DEF s
  <2> QED
    BY <1>4, <2>2
<1>5. ASSUME NEW a \in Allocated, a \in Cmd, NEW b \in Allocated, b \in Cmd, s = <<a, b>>
      PROVE  s[i] \in Allocated
  <2>1. Len(<<a, b>>) = 2 /\ <<a, b>>[1] = a /\ <<a, b>>[2] = b
    BY <1>5, ShortSeqs
  <2>2. Len(s) = 2 /\ s[1] = a /\ s[2] = b /\ i \in 1 .. Len(s)
    BY <1>5, <2>1
  <2> HIDE DEF s
  <2> QED
    BY <1>5, <2>2
<1> QED
  BY <1>1, <1>2, <1>3, <1>4, <1>5, SwapsShape

\* and their number is the driver's count.
LEMMA SwapsLength ==
  ASSUME IInv, OrderInv, NEW d \in alive
  PROVE  Len(SwapsOf[d]) = pending_swaps[d]
<1>1. d \in Window
  BY DEF IInv, TypeOK
<1>2. pending_swaps[d] = (IF Busy(d) THEN 1 ELSE 0) + (IF queued[d] = None THEN 0 ELSE 1)
  BY DEF OrderInv, SwapsCounted
<1>3. \A p \in Live : flip[p].priv \in Cmd
  BY LastFlip
<1>4. queued[d] # None => queued[d] \in Cmd
  BY <1>1 DEF IInv, TypeOK
<1>5. CASE SwapsOf[d] = <<>> /\ ~Busy(d) /\ queued[d] = None
  <2>1. Len(SwapsOf[d]) = 0
    BY <1>5
  <2> QED
    BY <1>2, <1>5, <2>1
<1>6. ASSUME NEW p \in Live, Owner(p) = d, queued[d] = None, SwapsOf[d] = <<flip[p].priv>>
      PROVE  Len(SwapsOf[d]) = pending_swaps[d]
  <2>1. Len(SwapsOf[d]) = 1
    BY <1>3, <1>6, ShortSeqs
  <2>2. Busy(d)
    BY <1>6 DEF Busy
  <2> QED
    BY <1>2, <1>6, <2>1, <2>2
<1>7. ASSUME NEW p \in Live, Owner(p) = d, queued[d] # None,
             SwapsOf[d] = <<flip[p].priv, queued[d]>>
      PROVE  Len(SwapsOf[d]) = pending_swaps[d]
  <2>1. Len(SwapsOf[d]) = 2
    BY <1>3, <1>4, <1>7, ShortSeqs
  <2>2. Busy(d)
    BY <1>7 DEF Busy
  <2> QED
    BY <1>2, <1>7, <2>1, <2>2
<1> QED
  BY <1>1, <1>5, <1>6, <1>7, SwapsShape

\* The flips of other windows than d stay.
KeepsFlips(d) == \A q \in Live : Owner(q) # d => q \in Live' /\ FlipKept(q)

\* A window the step is not about keeps its swaps.
LEMMA SwapsSame ==
  ASSUME IInv, OrderInv, AllSwapsSeen', NEW e \in Window,
         e \in alive' <=> e \in alive, queued'[e] = queued[e], Busy(e)' <=> Busy(e),
         \A q \in Live : Owner(q) = e => q \in Live' /\ FlipKept(q)
  PROVE  SwapsOf'[e] = SwapsOf[e]
<1>1. SwapsSeen(e) /\ SwapsSeen(e)'
  BY SwapsAre DEF AllSwapsSeen
<1>2. CASE e \notin alive \/ ~Busy(e)
  BY <1>1, <1>2 DEF SwapsSeen
<1>3. CASE e \in alive /\ Busy(e)
  <2>1. PICK p \in Live : Owner(p) = e
    BY <1>3 DEF Busy
  <2>2. p \in Live' /\ flip'[p].priv = flip[p].priv /\ Owner(p)' = e
    BY <2>1 DEF FlipKept
  <2>3. SwapsOf[e] = IF queued[e] = None THEN <<flip[p].priv>> ELSE <<flip[p].priv, queued[e]>>
    BY <1>1, <1>3, <2>1 DEF SwapsSeen
  <2>4. SwapsOf'[e] = IF queued'[e] = None THEN <<flip'[p].priv>>
                      ELSE <<flip'[p].priv, queued'[e]>>
    BY <1>1, <1>3, <2>2 DEF SwapsSeen
  <2> QED
    BY <2>2, <2>3, <2>4
<1> QED
  BY <1>2, <1>3

\* The swaps of d become s, and the others stay.
LEMMA SwapsBecome ==
  ASSUME IInv, OrderInv, AllSwapsSeen', NEW d \in Window,
         OnlyWindow(d), OthersBusy(d), KeepsFlips(d), NEW s, SwapsOf'[d] = s
  PROVE  SwapsOf' = [SwapsOf EXCEPT ![d] = s]
<1>1. \A e \in Window \ {d} : SwapsOf'[e] = SwapsOf[e]
  BY SwapsSame DEF OnlyWindow, OthersBusy, KeepsFlips
<1>2. /\ SwapsOf' = [e \in Window |-> SwapsOf'[e]]
      /\ SwapsOf = [e \in Window |-> SwapsOf[e]]
  BY DEF SwapsOf
<1> HIDE DEF SwapsOf
<1>3. \A e \in Window : SwapsOf'[e] = [SwapsOf EXCEPT ![d] = s][e]
  BY <1>1, <1>2
<1> QED
  BY <1>2, <1>3

\* A step that changes no flip, no queue and no window changes no swaps.
LEMMA SwapsKept ==
  ASSUME IInv, OrderInv, AllSwapsSeen', SameFlips, UNCHANGED <<queued, alive>>
  PROVE  SwapsOf' = SwapsOf
<1>1. \A e \in Window : SwapsOf'[e] = SwapsOf[e]
  BY SwapsSame, SameFlipsBusy DEF SameFlips
<1>2. /\ SwapsOf' = [e \in Window |-> SwapsOf'[e]]
      /\ SwapsOf = [e \in Window |-> SwapsOf[e]]
  BY DEF SwapsOf
<1> HIDE DEF SwapsOf
<1> QED
  BY <1>1, <1>2

\* A swap that stays is scheduled last.
LEMMA ScheduleImplements ==
  ASSUME TameInv, AllSwapsSeen', NEW d \in Window, NEW c \in Cmd,
         (ScheduleQueued(d, c) /\ SameFlips) \/ ScheduleFlip(d, c)
  PROVE  Order!Schedule(d)
<1>1. /\ d \in alive /\ swapsPending[d] < SwapLimit /\ UNCHANGED alive /\ alive \subseteq Window
      /\ CountSwap(d) /\ IInv /\ OrderInv
      /\ c \notin Allocated
  BY ScheduleFlipFlips, AllocatedType
     DEF ScheduleQueued, ScheduleFlip, MayRequest, TameInv, IInv, TypeOK, Allocate, Fresh
<1>2. swapsPending' = [swapsPending EXCEPT ![d] = @ + 1]
  BY <1>1 DEF CountSwap
<1>3. Len(SwapsOf[d]) < SwapLimit
  BY <1>1, SwapsLength DEF TameInv, InStep
<1>4. \A e \in Window : \A i \in 1 .. Len(SwapsOf[e]) : SwapsOf[e][i] # c
  BY <1>1, SwapsAllocated
<1>5. \A e \in Window \ {d} : pending_swaps'[e] = pending_swaps[e]
  BY <1>1 DEF CountSwap, IInv, TypeOK
<1>6. SwapsSeen(d) /\ SwapsSeen(d)'
  BY <1>1, SwapsAre DEF AllSwapsSeen
<1>7. CASE ScheduleQueued(d, c) /\ SameFlips
  <2>1. queued[d] = None /\ queued' = [queued EXCEPT ![d] = c] /\ pending_swaps[d] + 1 > 1 /\ c # None
    BY <1>7, SetsAssumption DEF ScheduleQueued
  <2>2. queued'[d] = c /\ \A e \in Window \ {d} : queued'[e] = queued[e]
    BY <1>1, <2>1 DEF IInv, TypeOK
  <2>3. Busy(d)
    BY <1>1, <2>1 DEF OrderInv, SwapsCounted
  <2>4. PICK p \in Live : Owner(p) = d
    BY <2>3 DEF Busy
  <2> DEFINE a == flip[p].priv
  <2>5. SwapsOf[d] = <<a>>
    BY <1>1, <1>6, <2>1, <2>4 DEF SwapsSeen
  <2>6. p \in Live' /\ Owner(p)' = d /\ flip'[p].priv = a
    BY <1>7, <2>4 DEF SameFlips, FlipKept
  <2>7. SwapsOf'[d] = <<a, c>>
    BY <1>1, <1>6, <2>1, <2>2, <2>6 DEF SwapsSeen
  <2>8. a \in Cmd
    BY <1>1, LastFlip
  <2> HIDE DEF a
  <2>9. SwapsOf'[d] = Append(SwapsOf[d], c)
    BY <2>5, <2>7, <2>8, ShortSeqs
  <2>10. OnlyWindow(d) /\ OthersBusy(d) /\ KeepsFlips(d)
    BY <1>1, <1>5, <1>7, <2>2, SameFlipsBusy DEF OnlyWindow, OthersBusy, KeepsFlips, SameFlips
  <2>11. SwapsOf' = [SwapsOf EXCEPT ![d] = Append(SwapsOf[d], c)]
    <3> DEFINE s == Append(SwapsOf[d], c)
    <3>1. SwapsOf'[d] = s
      BY <2>9
    <3> HIDE DEF s
    <3>2. SwapsOf' = [SwapsOf EXCEPT ![d] = s]
      BY <1>1, <2>10, <3>1, SwapsBecome
    <3> QED
      BY <3>2 DEF s
  <2> QED
    BY <1>1, <1>2, <1>3, <1>4, <2>11 DEF Order!Schedule
<1>8. CASE ScheduleFlip(d, c)
  <2>1. PICK n \in Flip \ Live :
          /\ Live' = Live \cup {n} /\ flip'[n].priv = c /\ Owner(n)' = d
          /\ \A q \in Live : FlipKept(q)
    BY <1>1, <1>8, ScheduleFlipFlips
  <2>2. UNCHANGED queued /\ pending_swaps[d] + 1 <= 1
    BY <1>8 DEF ScheduleFlip
  <2>3. ~Busy(d) /\ queued[d] = None
    BY <1>1, <2>2 DEF OrderInv, SwapsCounted
  <2>4. SwapsOf[d] = <<>>
    BY <1>6, <2>3 DEF SwapsSeen
  <2>5. SwapsOf'[d] = <<c>>
    BY <1>1, <1>6, <2>1, <2>2, <2>3 DEF SwapsSeen
  <2>6. SwapsOf'[d] = Append(SwapsOf[d], c)
    BY <2>4, <2>5, ShortSeqs
  <2>7. OnlyWindow(d) /\ KeepsFlips(d)
    BY <1>1, <1>5, <2>1, <2>2 DEF OnlyWindow, KeepsFlips
  <2>8. OthersBusy(d)
    BY <2>1 DEF OthersBusy, Busy, FlipKept
  <2>9. SwapsOf' = [SwapsOf EXCEPT ![d] = Append(SwapsOf[d], c)]
    <3> DEFINE s == Append(SwapsOf[d], c)
    <3>1. SwapsOf'[d] = s
      BY <2>6
    <3> HIDE DEF s
    <3>2. SwapsOf' = [SwapsOf EXCEPT ![d] = s]
      BY <1>1, <2>7, <2>8, <3>1, SwapsBecome
    <3> QED
      BY <3>2 DEF s
  <2> QED
    BY <1>1, <1>2, <1>3, <1>4, <2>9 DEF Order!Schedule
<1> QED
  BY <1>7, <1>8

\* The n oldest swaps of d leave, and both counts with them.
LEMMA CompleteImplementsIf ==
  ASSUME TameInv, AllSwapsSeen', NEW d \in alive, Busy(d), NEW n \in 1 .. Len(SwapsOf[d]),
         Report(d, n), UNCHANGED <<alive, front>>,
         OnlyWindow(d), OthersBusy(d), KeepsFlips(d),
         SwapsOf'[d] = SubSeq(SwapsOf[d], n + 1, Len(SwapsOf[d]))
  PROVE  Order!Complete(d)
<1>1. d \in Window /\ IInv /\ OrderInv
  BY DEF TameInv, IInv, TypeOK
<1>2. front[d] # None
  BY <1>1 DEF TameInv, OrderInv, SwapsCounted, InStep
<1>3. swapsPending' = [swapsPending EXCEPT ![d] = @ - n]
  BY <1>2 DEF Report
<1> DEFINE s == SubSeq(SwapsOf[d], n + 1, Len(SwapsOf[d]))
<1>4. SwapsOf'[d] = s
  OBVIOUS
<1>5. SwapsOf' = [SwapsOf EXCEPT ![d] = s]
  <2> HIDE DEF s
  <2> QED
    BY <1>1, <1>4, SwapsBecome
<1> QED
  BY <1>3, <1>5 DEF Order!Complete

\* A page-flip event reports the swaps that end with it, oldest first, or those
\* of nobody, when the window has gone.
LEMMA CompleteImplements ==
  ASSUME TameInv, AllSwapsSeen', NEW p \in Live, SwapComplete(flip[p].priv, {p}),
         UNCHANGED <<alive, front>>
  PROVE  (\E d \in Window : Order!Complete(d)) \/ UNCHANGED <<alive, SwapsOf, swapsPending>>
<1> DEFINE a == flip[p].priv
<1>1. PICK d \in Window : d = Owner(p)
  BY OtherFlips DEF TameInv
<1> DEFINE b == queued[d]
<1>2. /\ IInv /\ OrderInv /\ OneFlipEach /\ Busy(d) /\ alive \subseteq Window
      /\ \A q \in Live : Owner(q) # d => q # p
  BY <1>1 DEF TameInv, OrderInv, Busy, IInv, TypeOK
<1>3. SwapsSeen(d) /\ SwapsSeen(d)'
  BY <1>2, SwapsAre DEF AllSwapsSeen
<1>4. d \in alive => SwapsOf[d] = IF b = None THEN <<a>> ELSE <<a, b>>
  BY <1>1, <1>3 DEF SwapsSeen
<1>5. a \in Cmd /\ (b # None => b \in Cmd)
  BY <1>2, LastFlip DEF IInv, TypeOK
<1>6. ASSUME FlipGone(p) PROVE OthersBusy(d) /\ KeepsFlips(d) /\ SwapsOf'[d] = <<>>
  <2>1. OthersBusy(d) /\ ~(Busy(d)')
    BY <1>1, <1>2, <1>6, FlipGoneBusy
  <2>2. KeepsFlips(d)
    BY <1>2, <1>6 DEF FlipGone, KeepsFlips
  <2> QED
    BY <1>3, <2>1, <2>2 DEF SwapsSeen
<1>7. CASE CompleteOrphan(a, {p})
  <2>1. FlipGone(p) /\ d \notin alive /\ UNCHANGED <<pending_swaps, queued, swapsPending>>
    BY <1>1, <1>2, <1>7, CompleteOrphanFlips DEF driVars
  <2>2. OnlyWindow(d)
    BY <1>2, <2>1 DEF OnlyWindow
  <2>3. \A e \in Window : SwapsOf'[e] = SwapsOf[e]
    <3>1. SwapsOf[d] = <<>> /\ SwapsOf'[d] = <<>>
      BY <1>3, <1>6, <2>1 DEF SwapsSeen
    <3>2. \A e \in Window \ {d} : SwapsOf'[e] = SwapsOf[e]
      BY <1>2, <1>6, <2>1, <2>2, SwapsSame DEF OnlyWindow, OthersBusy, KeepsFlips
    <3> QED
      BY <3>1, <3>2
  <2>4. SwapsOf' = SwapsOf
    <3>1. /\ SwapsOf' = [e \in Window |-> SwapsOf'[e]]
          /\ SwapsOf = [e \in Window |-> SwapsOf[e]]
      BY DEF SwapsOf
    <3> HIDE DEF SwapsOf
    <3> QED
      BY <2>3, <3>1
  <2> QED
    BY <2>1, <2>4
<1>8. CASE CompleteLast(a, {p})
  <2>1. /\ FlipGone(p) /\ d \in alive /\ b = None /\ UNCHANGED queued /\ Report(d, 1)
    BY <1>1, <1>2, <1>8, CompleteLastFlips
  <2>2. \A e \in Window \ {d} : pending_swaps'[e] = pending_swaps[e]
    BY <1>2, <2>1, ReportCounts
  <2>3. OnlyWindow(d)
    BY <1>2, <2>1, <2>2 DEF OnlyWindow
  <2>4. SwapsOf[d] = <<a>> /\ Len(<<a>>) = 1 /\ SubSeq(<<a>>, 2, 1) = <<>>
    BY <1>4, <1>5, <2>1, ShortSeqs
  <2>5. 1 \in 1 .. Len(SwapsOf[d]) /\ SwapsOf'[d] = SubSeq(SwapsOf[d], 1 + 1, Len(SwapsOf[d]))
    <3>1. SwapsOf'[d] = <<>>
      BY <1>6, <2>1
    <3> HIDE DEF a
    <3> QED
      BY <2>4, <3>1
  <2> QED
    BY <1>2, <1>6, <2>1, <2>3, <2>5, CompleteImplementsIf
<1>9. CASE CompleteThenFlip(a, {p})
  <2>1. PICK n : FlipReplaced(p, d, n, b)
    BY <1>1, <1>2, <1>9, CompleteThenFlipFlips
  <2>2. d \in alive /\ Unqueue(d) /\ Report(d, 1)
    BY <1>1, <1>2, <1>9, CompleteThenFlipFlips
  <2>3. /\ b # None /\ queued'[d] = None
        /\ \A e \in Window \ {d} : pending_swaps'[e] = pending_swaps[e] /\ queued'[e] = queued[e]
    BY <1>2, <2>2, ReportCounts, UnqueueCounts
  <2>4. OnlyWindow(d)
    BY <1>2, <2>3 DEF OnlyWindow
  <2>5. OthersBusy(d)
    BY <1>1, <1>2, <2>1, FlipReplacedBusy
  <2>6. KeepsFlips(d)
    BY <1>2, <2>1 DEF FlipReplaced, KeepsFlips
  <2>7. SwapsOf'[d] = <<b>>
    BY <1>3, <2>1, <2>2, <2>3 DEF SwapsSeen, FlipReplaced
  <2>8. /\ SwapsOf[d] = <<a, b>> /\ Len(<<a, b>>) = 2
        /\ SubSeq(<<a, b>>, 2, 2) = <<b>>
    BY <1>4, <1>5, <2>2, <2>3, ShortSeqs
  <2>9. 1 \in 1 .. Len(SwapsOf[d]) /\ SwapsOf'[d] = SubSeq(SwapsOf[d], 1 + 1, Len(SwapsOf[d]))
    <3> HIDE DEF a, b
    <3> QED
      BY <2>7, <2>8
  <2> QED
    BY <1>2, <2>2, <2>4, <2>5, <2>6, <2>9, CompleteImplementsIf
<1>10. CASE CompleteBoth(a, {p})
  <2>1. FlipGone(p) /\ d \in alive /\ Unqueue(d) /\ Report(d, 2)
    BY <1>1, <1>2, <1>10, CompleteBothFlips
  <2>2. /\ b # None
        /\ \A e \in Window \ {d} : pending_swaps'[e] = pending_swaps[e] /\ queued'[e] = queued[e]
    BY <1>2, <2>1, ReportCounts, UnqueueCounts
  <2>3. OnlyWindow(d)
    BY <1>2, <2>2 DEF OnlyWindow
  <2>4. /\ SwapsOf[d] = <<a, b>> /\ Len(<<a, b>>) = 2
        /\ SubSeq(<<a, b>>, 3, 2) = <<>>
    BY <1>4, <1>5, <2>1, <2>2, ShortSeqs
  <2>5. 2 \in 1 .. Len(SwapsOf[d]) /\ SwapsOf'[d] = SubSeq(SwapsOf[d], 2 + 1, Len(SwapsOf[d]))
    <3>1. SwapsOf'[d] = <<>>
      BY <1>6, <2>1
    <3> HIDE DEF a, b
    <3> QED
      BY <2>4, <3>1
  <2> QED
    BY <1>2, <1>6, <2>1, <2>3, <2>5, CompleteImplementsIf
<1> QED
  BY <1>7, <1>8, <1>9, <1>10 DEF SwapComplete

\* A window comes without swaps, and takes its swaps with it when it goes.
LEMMA WindowsImplement ==
  ASSUME ~MayReuseXid, TameInv, AllSwapsSeen', NEW d \in Window, SameFlips,
         CreateWindow(d) \/ DestroyWindow(d)
  PROVE  Order!Create(d) \/ Order!Destroy(d)
<1>1. IInv /\ OrderInv /\ SwapsSeen(d) /\ SwapsSeen(d)'
  BY SwapsAre DEF TameInv, AllSwapsSeen
<1>2. OthersBusy(d) /\ KeepsFlips(d) /\ (Busy(d)' <=> Busy(d))
  BY SameFlipsBusy DEF OthersBusy, KeepsFlips, SameFlips
<1>3. CASE CreateWindow(d)
  <2>1. /\ d \notin alive /\ alive' = alive \cup {d}
        /\ UNCHANGED <<pending_swaps, queued, swapsPending>>
    BY <1>3 DEF CreateWindow, driVars
  <2>2. OnlyWindow(d)
    BY <1>1, <2>1 DEF OnlyWindow, IInv, TypeOK
  <2>3. SwapsOf[d] = <<>>
    BY <1>1, <2>1 DEF SwapsSeen
  <2>4. SwapsOf'[d] = <<>>
    BY <1>1, <1>2, <1>3, NewWindowIdle DEF SwapsSeen
  <2>5. SwapsOf' = [SwapsOf EXCEPT ![d] = <<>>]
    BY <1>1, <1>2, <2>2, <2>4, SwapsBecome
  <2>6. SwapsOf' = SwapsOf
    <3>1. SwapsOf = [e \in Window |-> SwapsOf[e]]
      BY DEF SwapsOf
    <3> HIDE DEF SwapsOf
    <3> QED
      BY <2>3, <2>5, <3>1
  <2> QED
    BY <2>1, <2>6 DEF Order!Create
<1>4. CASE DestroyWindow(d)
  <2>1. /\ alive' = alive \ {d}
        /\ pending_swaps' = [pending_swaps EXCEPT ![d] = 0]
        /\ queued' = [queued EXCEPT ![d] = None]
        /\ swapsPending' = [swapsPending EXCEPT ![d] = 0]
    BY <1>4 DEF DestroyWindow
  <2>2. OnlyWindow(d)
    BY <1>1, <2>1 DEF OnlyWindow, IInv, TypeOK
  <2>3. SwapsOf'[d] = <<>>
    BY <1>1, <2>1 DEF SwapsSeen
  <2>4. SwapsOf' = [SwapsOf EXCEPT ![d] = <<>>]
    BY <1>1, <1>2, <2>2, <2>3, SwapsBecome
  <2> QED
    BY <2>1, <2>4 DEF Order!Destroy
<1> QED
  BY <1>3, <1>4

\* Every step is one of SwapOrder, or none.
LEMMA StepImplements ==
  ASSUME ~MayReuseXid, ~MayDetach, TameInv, AllSwapsSeen', [Next]_vars
  PROVE  [Order!Next]_(Order!vars)
<1> USE DEF driVars, coreVars
<1>1. ASSUME NEW d \in Window,
             Order!Schedule(d) \/ Order!Complete(d) \/ Order!Create(d) \/ Order!Destroy(d)
      PROVE  [Order!Next]_(Order!vars)
  BY <1>1 DEF Order!Next
<1>2. ASSUME UNCHANGED <<alive, SwapsOf, swapsPending>> PROVE [Order!Next]_(Order!vars)
  BY <1>2 DEF Order!vars
<1> HIDE DEF Order!Next, Order!vars
<1>3. IInv /\ OrderInv
  BY DEF TameInv
<1>4. CASE HandleLast
  <2>1. PICK p \in Live : SwapComplete(flip[p].priv, {p}) /\ UNCHANGED <<alive, front>>
    BY <1>4 DEF HandleLast
  <2> QED
    BY <1>1, <1>2, <2>1, CompleteImplements
<1>5. ASSUME NEW d \in Window, NEW c \in Cmd, ScheduleFlip(d, c)
      PROVE  [Order!Next]_(Order!vars)
  BY <1>1, <1>5, ScheduleImplements
<1>6. CASE ~HandleLast /\ \A d \in Window : \A c \in Cmd : ~ScheduleFlip(d, c)
  <2>1. SameFlips
    BY <1>3, <1>6, OtherStepsFlips
  <2>2. ASSUME UNCHANGED <<queued, alive, swapsPending>> PROVE [Order!Next]_(Order!vars)
    BY <1>2, <1>3, <2>1, <2>2, SwapsKept
  <2>3. ASSUME NEW d \in Window, ScheduleSwap(d) PROVE [Order!Next]_(Order!vars)
    <3>1. CASE ScheduleCopy(d)
      BY <2>2, <3>1 DEF ScheduleCopy
    <3>2. ASSUME NEW c \in Cmd, ScheduleQueued(d, c) PROVE [Order!Next]_(Order!vars)
      BY <1>1, <2>1, <3>2, ScheduleImplements
    <3>3. DriverBehind
      <4>1. \A e \in Window : swapsPending[e] = pending_swaps[e] /\ pending_swaps[e] \in Int
        BY <1>3 DEF TameInv, InStep, IInv, TypeOK
      <4> QED
        BY <4>1 DEF DriverBehind
    <3>4. \A c \in Cmd : ~ScheduleRefused(d, c)
      BY <1>3, <3>3, NeverRefused
    <3> QED
      BY <1>6, <2>3, <3>1, <3>2, <3>4 DEF ScheduleSwap
  <2>4. ASSUME NEW d \in Window, CreateWindow(d) \/ DestroyWindow(d)
        PROVE  [Order!Next]_(Order!vars)
    BY <1>1, <2>1, <2>4, WindowsImplement
  <2>5. ASSUME NEW d \in Window, NEW f \in Buf, NEW b \in Buf, GetBuffers(d, f, b)
        PROVE  [Order!Next]_(Order!vars)
    BY <2>2, <2>5 DEF GetBuffers
  <2>6. ASSUME NEW d \in Window, Detach(d) PROVE [Order!Next]_(Order!vars)
    <3>1. pending_swaps[d] = 0 /\ swapsPending[d] = 0
      BY <2>6 DEF Detach, TameInv, InStep
    <3>2. swapsPending' = [swapsPending EXCEPT ![d] = 0] /\ UNCHANGED <<queued, alive>>
      BY <2>6 DEF Detach
    <3>3. swapsPending' = swapsPending
      BY <1>3, <3>1, <3>2 DEF IInv, TypeOK
    <3> QED
      BY <2>2, <3>2, <3>3
  <2>7. CASE Client
    BY <2>3, <2>4, <2>5, <2>6, <2>7 DEF Client
  <2>8. CASE RandR \/ Kernel \/ HandleCounted \/ HandleFreed
    BY <2>2, <2>8 DEF RandR, Kernel, SetCrtc, Rotate, Resize, DisableCrtc, Vblank,
                      HandleCounted, HandleFreed
  <2>9. CASE BeginClose \/ FinishClose \/ Stopped \/ UNCHANGED vars
    BY <2>2, <2>9 DEF BeginClose, FinishClose, MoveTo, Stopped, vars
  <2> QED
    BY <1>6, <2>7, <2>8, <2>9 DEF Next, HandleEvent
<1> QED
  BY <1>4, <1>5, <1>6

\* The swap engine implements the safety half of SwapOrder: through flips, copies
\* and nested dispatches the swaps of a window are reported to the DRI2 module in
\* the order they were scheduled, once each, never more than the limit of them
\* outstanding.
THEOREM ImplementsSwapOrder == ~MayReuseXid /\ ~MayDetach => (Spec => Order!Spec)
<1> SUFFICES ASSUME ~MayReuseXid, ~MayDetach PROVE Spec => Order!Spec
  OBVIOUS
<1>1. Init => Order!Init
  BY DEF Init, Order!Init, SwapsOf
<1>2. TameInv /\ TameInv' /\ [Next]_vars => [Order!Next]_(Order!vars)
  <2>1. TameInv' => AllSwapsSeen'
    BY SwapsAreNext DEF TameInv
  <2> QED
    BY <2>1, StepImplements
<1> QED
  BY <1>1, <1>2, TameInvariant, PTL DEF Spec, Order!Spec
=============================================================================
