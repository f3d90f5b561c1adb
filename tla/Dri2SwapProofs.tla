--------------------------- MODULE Dri2SwapProofs ---------------------------
(***************************************************************************)
(* Theorems about Dri2Swap, for every value of its constants: any number   *)
(* of windows, buffers and CRTCs, and every kernel and client behaviour    *)
(* the four May... constants let in.                                       *)
(***************************************************************************)
EXTENDS Dri2Swap, FiniteSetTheorems, TLAPS

-----------------------------------------------------------------------------
(* Types *)

\* What page flipping writes.
FlipTypeOK ==
  /\ flip \in [Flip -> FlipRec \cup {None}]
  /\ fb_id \in Fb \cup {None}
  /\ fbs \in SUBSET Fb
  /\ pend \in [Crtc -> PendRec \cup {None}]

\* What a completing swap writes besides.
SwapTypeOK ==
  /\ pending_swaps \in [Window -> Int]
  /\ queued \in [Window -> Cmd \cup {None}]
  /\ cmd \in [Cmd -> CmdRec \cup {None}]
  /\ ref \in [Buf -> Int]
  /\ pending_page_flips \in Int
  /\ swapsPending \in [Window -> Int]

\* The number of enabled CRTCs is a number.
LEMMA EnabledCount ==
  ASSUME TypeOK
  PROVE  Cardinality(enabled) \in Nat
<1>1. IsFiniteSet(Crtc)
  BY FS_Interval, NumbersAssumption DEF Crtc
<1>2. IsFiniteSet(enabled)
  BY <1>1, FS_Subset DEF TypeOK
<1> QED
  BY <1>2, FS_CardinalityType

\* A flip that is queued keeps the types.
LEMMA FlipOnType ==
  ASSUME TypeOK, NEW crtcs, NEW p \in Flip, NEW f \in Fb \cup {None}, FlipOn(crtcs, p, f)
  PROVE  pend' \in [Crtc -> PendRec \cup {None}]
BY DEF FlipOn, TypeOK, PendRec

\* Freeing the flip data keeps the types.
LEMMA FreeFlipdataType ==
  ASSUME TypeOK, NEW gone \in SUBSET Live, FreeFlipdata(gone)
  PROVE  flip' \in [Flip -> FlipRec \cup {None}] /\ fb_id' \in Fb \cup {None} /\ fbs' \in SUBSET Fb
BY DEF FreeFlipdata, TypeOK

\* drmmode_page_flip, when it queues a flip, keeps the types.
LEMMA PageFlipType ==
  ASSUME TypeOK, NEW c \in Cmd, NEW gone \in SUBSET Live, PageFlip(c, gone)
  PROVE  FlipTypeOK'
<1> DEFINE n == Cardinality(enabled)
<1>1. n \in Int
  BY EnabledCount
<1>2. PICK p \in Flip \ Live, f \in Fb :
        /\ flip' = [q \in Flip |->
                      IF q = p THEN [priv |-> c, old_fb_id |-> fb_id, flip_count |-> n]
                      ELSE IF q \in gone THEN None ELSE flip[q]]
        /\ fbs' = (fbs \cup {f}) \ OldFbs(gone)
        /\ fb_id' = f
        /\ FlipOn(enabled, p, f)
  BY DEF PageFlip, FlipAll
<1>3. flip' \in [Flip -> FlipRec \cup {None}]
  BY <1>1, <1>2 DEF TypeOK, FlipRec
<1>4. fbs' \in SUBSET Fb /\ fb_id' \in Fb \cup {None}
  BY <1>2 DEF TypeOK
<1>5. pend' \in [Crtc -> PendRec \cup {None}]
  BY <1>2, FlipOnType
<1> QED
  BY <1>3, <1>4, <1>5 DEF FlipTypeOK

\* drmmode_page_flip, when it queues none, keeps the types.
LEMMA NoPageFlipType ==
  ASSUME TypeOK, NEW gone \in SUBSET Live, NoPageFlip(gone)
  PROVE  FlipTypeOK'
<1>1. flip' \in [Flip -> FlipRec \cup {None}] /\ fb_id' \in Fb \cup {None} /\ fbs' \in SUBSET Fb
  BY FreeFlipdataType DEF NoPageFlip
<1>2. pend' \in [Crtc -> PendRec \cup {None}]
  <2>1. CASE UNCHANGED pend
    BY <2>1 DEF TypeOK
  <2>2. CASE LateFailure
    <3>1. PICK p \in Flip \ Live, failed \in enabled :
            FlipOn({k \in enabled : k < failed}, p, None)
      BY <2>2 DEF LateFailure
    <3> QED
      BY <3>1, FlipOnType
  <2> QED
    BY <2>1, <2>2 DEF NoPageFlip
<1> QED
  BY <1>1, <1>2 DEF FlipTypeOK

\* The references held by finitely many commands are a number.
LEMMA HoldsType ==
  ASSUME NEW C, IsFiniteSet(C), NEW b
  PROVE  Holds(C, b) \in Nat
<1>1. IsFiniteSet({c \in C : cmd[c].src = b}) /\ IsFiniteSet({c \in C : cmd[c].dst = b})
  BY FS_Subset
<1> QED
  BY <1>1, FS_CardinalityType DEF Holds

\* Swaps that end keep the commands and the references in their types.
LEMMA RetireType ==
  ASSUME TypeOK, NEW done \in SUBSET Cmd, NEW flipped, Retire(done, flipped),
         \A c \in flipped : c \in done \/ cmd[c] # None
  PROVE  cmd' \in [Cmd -> CmdRec \cup {None}] /\ ref' \in [Buf -> Int]
<1>1. cmd' \in [Cmd -> CmdRec \cup {None}]
  <2>1. \A c \in Cmd : cmd[c] # None => [cmd[c] EXCEPT !.type = "flip"] \in CmdRec
    BY DEF TypeOK, CmdRec
  <2>2. \A c \in Cmd : cmd'[c] \in CmdRec \cup {None}
    BY <2>1 DEF Retire, TypeOK
  <2> QED
    BY <2>2 DEF Retire
<1>2. IsFiniteSet(done)
  BY SetsAssumption, FS_Subset
<1>3. ref' \in [Buf -> Int]
  BY <1>2, HoldsType DEF Retire, TypeOK
<1> QED
  BY <1>1, <1>3

\* Reporting a swap to its client keeps the types.
LEMMA ReportType ==
  ASSUME TypeOK, NEW d \in Window, NEW n \in Nat, Report(d, n)
  PROVE  pending_swaps' \in [Window -> Int] /\ swapsPending' \in [Window -> Int]
BY DEF Report, TypeOK

-----------------------------------------------------------------------------
(* The inductive invariant *)

\* A window has both its buffers or neither.
BuffersPaired == \A d \in Window : front[d] = None <=> back[d] = None

\* Who owns which command, and how many flips there are.
Ownership == FlipsCounted /\ CommandsOwned /\ QueueNeedsTwo

\* TypeOK alone is not inductive: a command that is completed or dispatched has
\* a type only because the flip or the queue that names it owns it.
IInv == TypeOK /\ BuffersPaired /\ Ownership

\* The invariant holds at first.
LEMMA Base == Init => IInv
<1> SUFFICES ASSUME Init PROVE IInv
  OBVIOUS
<1>1. Live = {}
  BY DEF Init, Live
<1>2. TypeOK
  BY DEF Init, TypeOK, Fresh
<1>3. BuffersPaired
  BY DEF Init, BuffersPaired
<1>4. FlipsCounted
  BY <1>1, FS_EmptySet DEF Init, FlipsCounted
<1>5. CommandsOwned /\ QueueNeedsTwo
  BY <1>1 DEF Init, CommandsOwned, QueueNeedsTwo
<1> QED
  BY <1>2, <1>3, <1>4, <1>5 DEF IInv, Ownership

\* There are finitely many live swaps.
LEMMA LiveFinite == IsFiniteSet(Live) /\ Cardinality(Live) \in Nat
BY SetsAssumption, FS_Subset, FS_CardinalityType DEF Live

\* Steps that touch neither commands nor flips nor the counters over them.
LEMMA OwnershipKept ==
  ASSUME Ownership, UNCHANGED <<queued, pending_swaps, cmd, flip, pending_page_flips>>
  PROVE  Ownership'
BY DEF Ownership, FlipsCounted, CommandsOwned, QueueNeedsTwo, Live, Allocated

\* A new command takes no part in what the others own.
LEMMA AllocatedType ==
  ASSUME IInv, NEW c \in Cmd, NEW d \in Window, NEW type \in {"none", "flip"},
         MayRequest(d), Allocate(c, d, type)
  PROVE  /\ cmd' \in [Cmd -> CmdRec \cup {None}]
         /\ ref' \in [Buf -> Int]
         /\ c \notin Allocated
         /\ \A b \in Allocated : cmd'[b] = cmd[b] /\ b \in Allocated'
         /\ c \in Allocated'
         /\ cmd'[c].type = type /\ cmd'[c].draw_id = d
<1>1. NewCmd(d, type) \in CmdRec
  BY DEF IInv, TypeOK, BuffersPaired, MayRequest, NewCmd, CmdRec
<1>2. NewCmd(d, type) # None
  BY <1>1, SetsAssumption
<1> QED
  BY <1>1, <1>2 DEF IInv, TypeOK, Allocate, Fresh, Allocated, NewCmd, CmdRec

-----------------------------------------------------------------------------
(* Steps that complete no command: scheduling *)

\* Scheduling a swap behind others keeps the invariant.
LEMMA ScheduleQueuedInv ==
  ASSUME IInv, NEW d \in Window, NEW c \in Cmd, ScheduleQueued(d, c)
  PROVE  IInv'
<1>1. MayRequest(d) /\ Allocate(c, d, "none")
  BY DEF ScheduleQueued
<1>2. /\ cmd' \in [Cmd -> CmdRec \cup {None}]
      /\ ref' \in [Buf -> Int]
      /\ c \notin Allocated
      /\ \A b \in Allocated : cmd'[b] = cmd[b] /\ b \in Allocated'
      /\ c \in Allocated'
      /\ cmd'[c].type = "none" /\ cmd'[c].draw_id = d
  BY <1>1, AllocatedType
<1>3. TypeOK' /\ BuffersPaired'
  BY <1>2 DEF ScheduleQueued, CountSwap, IInv, TypeOK, BuffersPaired,
              flipVars, screenVars
<1>4. Live' = Live
  BY DEF ScheduleQueued, flipVars, Live
<1>5. FlipsCounted'
  BY <1>4 DEF IInv, Ownership, FlipsCounted, ScheduleQueued
<1>6. CommandsOwned'
  <2>1. \A p \in Live : flip'[p] = flip[p] /\ flip[p].priv \in Allocated
    BY DEF ScheduleQueued, flipVars, IInv, Ownership, CommandsOwned
  <2>2. \A e \in Window : queued'[e] = IF e = d THEN c ELSE queued[e]
    BY DEF ScheduleQueued, IInv, TypeOK
  <2> QED
    BY <1>2, <1>4, <2>1, <2>2 DEF IInv, Ownership, CommandsOwned
<1>7. QueueNeedsTwo'
  BY DEF ScheduleQueued, CountSwap, IInv, TypeOK, Ownership, QueueNeedsTwo
<1> QED
  BY <1>3, <1>5, <1>6, <1>7 DEF IInv, Ownership

\* Refusing a swap keeps the invariant.
LEMMA ScheduleRefusedInv ==
  ASSUME IInv, NEW d \in Window, NEW c \in Cmd, ScheduleRefused(d, c)
  PROVE  IInv'
<1>1. MayRequest(d) /\ Allocate(c, d, "none")
  BY DEF ScheduleRefused
<1>2. /\ cmd' \in [Cmd -> CmdRec \cup {None}]
      /\ ref' \in [Buf -> Int]
      /\ \A b \in Allocated : cmd'[b] = cmd[b] /\ b \in Allocated'
  BY <1>1, AllocatedType
<1>3. TypeOK' /\ BuffersPaired'
  BY <1>2 DEF ScheduleRefused, IInv, TypeOK, BuffersPaired,
              driVars, flipVars, coreVars, screenVars
<1>4. FlipsCounted' /\ QueueNeedsTwo'
  BY DEF ScheduleRefused, driVars, flipVars, IInv, Ownership, FlipsCounted,
         QueueNeedsTwo, Live
<1>5. CommandsOwned'
  BY <1>2 DEF ScheduleRefused, driVars, flipVars, IInv, Ownership, CommandsOwned, Live
<1> QED
  BY <1>3, <1>4, <1>5 DEF IInv, Ownership

\* A page flip adds one flip, for the command it is given.
LEMMA PageFlipLive ==
  ASSUME IInv, NEW c \in Cmd, NEW gone \in SUBSET Live, PageFlip(c, gone)
  PROVE  \E p \in Flip \ Live :
           /\ Live' = (Live \ gone) \cup {p}
           /\ flip'[p].priv = c
           /\ \A q \in Live \ gone : flip'[q] = flip[q]
<1> DEFINE n == Cardinality(enabled)
           new == [priv |-> c, old_fb_id |-> fb_id, flip_count |-> n]
<1>1. PICK p \in Flip \ Live :
        flip' = [q \in Flip |-> IF q = p THEN new
                                ELSE IF q \in gone THEN None ELSE flip[q]]
  BY DEF PageFlip, FlipAll
<1>2. new \in FlipRec
  BY EnabledCount DEF IInv, TypeOK, FlipRec
<1>3. new # None
  BY <1>2, SetsAssumption
<1>4. Live' = (Live \ gone) \cup {p}
  BY <1>1, <1>3 DEF Live
<1>5. flip'[p].priv = c /\ \A q \in Live \ gone : flip'[q] = flip[q]
  BY <1>1 DEF Live
<1> QED
  BY <1>4, <1>5

\* Scheduling a swap that flips keeps the invariant.
LEMMA ScheduleFlipInv ==
  ASSUME IInv, NEW d \in Window, NEW c \in Cmd, ScheduleFlip(d, c)
  PROVE  IInv'
<1>1. MayRequest(d) /\ Allocate(c, d, "flip") /\ PageFlip(c, {})
  BY DEF ScheduleFlip
<1>2. /\ cmd' \in [Cmd -> CmdRec \cup {None}]
      /\ ref' \in [Buf -> Int]
      /\ c \notin Allocated
      /\ \A b \in Allocated : cmd'[b] = cmd[b] /\ b \in Allocated'
      /\ c \in Allocated'
      /\ cmd'[c].type = "flip"
  BY <1>1, AllocatedType
<1>3. PICK p \in Flip \ Live :
        /\ Live' = Live \cup {p}
        /\ flip'[p].priv = c
        /\ \A q \in Live : flip'[q] = flip[q]
  BY <1>1, PageFlipLive
<1>4. TypeOK' /\ BuffersPaired'
  <2>1. FlipTypeOK'
    BY <1>1, PageFlipType DEF IInv
  <2> QED
    BY <1>2, <2>1 DEF ScheduleFlip, CountSwap, IInv, TypeOK, BuffersPaired, FlipTypeOK,
                      screenVars
<1>5. FlipsCounted'
  <2>1. Cardinality(Live') = Cardinality(Live) + 1
    BY <1>3, LiveFinite, FS_AddElement
  <2> QED
    BY <2>1, LiveFinite DEF ScheduleFlip, IInv, Ownership, FlipsCounted
<1>6. CommandsOwned'
  <2>1. queued' = queued
    BY DEF ScheduleFlip
  <2>2. \A q \in Live : flip[q].priv \in Allocated
    BY DEF IInv, Ownership, CommandsOwned
  <2> QED
    BY <1>2, <1>3, <2>1, <2>2 DEF IInv, Ownership, CommandsOwned
<1>7. QueueNeedsTwo'
  BY DEF ScheduleFlip, CountSwap, IInv, TypeOK, Ownership, QueueNeedsTwo
<1> QED
  BY <1>4, <1>5, <1>6, <1>7 DEF IInv, Ownership

\* Scheduling a swap that is copied keeps the invariant.
LEMMA ScheduleCopyInv ==
  ASSUME IInv, NEW d \in Window, ScheduleCopy(d)
  PROVE  IInv'
<1>1. FlipTypeOK'
  BY NoPageFlipType DEF ScheduleCopy, IInv
<1>2. flip' = flip
  BY DEF ScheduleCopy, NoPageFlip, FreeFlipdata, IInv, TypeOK
<1>3. TypeOK' /\ BuffersPaired'
  BY <1>1 DEF ScheduleCopy, IInv, TypeOK, BuffersPaired, FlipTypeOK,
              driVars, heapVars, coreVars, screenVars
<1>4. Ownership'
  BY <1>2, OwnershipKept DEF ScheduleCopy, IInv, driVars, heapVars
<1> QED
  BY <1>3, <1>4 DEF IInv

-----------------------------------------------------------------------------
(* Steps that complete a swap *)

\* Retiring commands and dispatching one leaves the other commands as they were.
LEMMA RetireOthers ==
  ASSUME IInv, NEW done \in SUBSET Cmd, NEW flipped \in SUBSET Allocated,
         Retire(done, flipped)
  PROVE  /\ \A c \in Allocated \ (done \cup flipped) :
               c \in Allocated' /\ cmd'[c] = cmd[c]
         /\ \A c \in flipped \ done : c \in Allocated' /\ cmd'[c].type = "flip"
<1>1. \A r \in CmdRec : /\ [r EXCEPT !.type = "flip"] \in CmdRec
                       /\ [r EXCEPT !.type = "flip"].type = "flip"
  BY DEF CmdRec
<1>2. \A c \in Allocated : cmd[c] \in CmdRec
  BY DEF IInv, TypeOK, Allocated
<1>3. \A c \in Allocated : [cmd[c] EXCEPT !.type = "flip"] # None
  BY <1>1, <1>2, SetsAssumption
<1> QED
  BY <1>1, <1>2, <1>3 DEF Retire, Allocated

\* The flip whose last event is handled: its command, its drawable.
LEMMA LastFlip ==
  ASSUME IInv, NEW p \in Live
  PROVE  /\ p \in Flip
         /\ flip[p].priv \in Cmd
         /\ flip[p].priv \in Allocated
         /\ cmd[flip[p].priv].type = "flip"
         /\ cmd[flip[p].priv].draw_id \in Window
         /\ \A q \in Live \ {p} : flip[q].priv # flip[p].priv
         /\ \A d \in Window : queued[d] # None => queued[d] # flip[p].priv
         /\ Cardinality(Live \ {p}) = pending_page_flips - 1
<1>1. /\ p \in Flip
      /\ flip[p].priv \in Allocated
      /\ cmd[flip[p].priv].type = "flip"
  BY DEF IInv, Ownership, CommandsOwned, Live
<1>2. flip[p].priv \in Cmd /\ cmd[flip[p].priv].draw_id \in Window
  BY <1>1 DEF IInv, TypeOK, Allocated, CmdRec
<1>3. /\ \A q \in Live \ {p} : flip[q].priv # flip[p].priv
      /\ \A d \in Window : queued[d] # None => queued[d] # flip[p].priv
  BY <1>1 DEF IInv, Ownership, CommandsOwned
<1>4. Cardinality(Live \ {p}) = pending_page_flips - 1
  BY LiveFinite, FS_RemoveElement DEF IInv, Ownership, FlipsCounted
<1> QED
  BY <1>1, <1>2, <1>3, <1>4

\* free(flipdata) takes one flip away.
LEMMA FreeFlipdataLive ==
  ASSUME NEW p \in Live, FreeFlipdata({p})
  PROVE  /\ Live' = Live \ {p}
         /\ \A q \in Live \ {p} : flip'[q] = flip[q]
BY DEF FreeFlipdata, Live

\* What every completing step leaves alone.
Rest == UNCHANGED <<enabled, phase, scan, alive, front, back>> /\ events' = Tail(events)

\* What is left of the events after one is read, and that one, are of their types.
LEMMA TailType ==
  ASSUME IInv, Reading
  PROVE  Tail(events) \in Seq(Flip) /\ Head(events) \in Flip
BY DEF IInv, TypeOK, Reading

\* One command completes and nothing is dispatched.
LEMMA CompleteOneOwned ==
  ASSUME IInv, NEW p \in Live, Finish({flip[p].priv}), FreeFlipdata({p}),
         UNCHANGED queued
  PROVE  FlipsCounted' /\ CommandsOwned'
<1> DEFINE c == flip[p].priv
<1>1. /\ c \in Cmd
      /\ \A q \in Live \ {p} : flip[q].priv # c
      /\ \A d \in Window : queued[d] # None => queued[d] # c
      /\ Cardinality(Live \ {p}) = pending_page_flips - 1
  BY LastFlip
<1>2. Live' = Live \ {p} /\ \A q \in Live \ {p} : flip'[q] = flip[q]
  BY FreeFlipdataLive
<1>3. Retire({c}, {})
  BY DEF Finish
<1>4. \A b \in Allocated \ ({c} \cup {}) : b \in Allocated' /\ cmd'[b] = cmd[b]
  <2>1. {c} \in SUBSET Cmd /\ {} \in SUBSET Allocated
    BY <1>1
  <2> QED
    BY <1>3, <2>1, RetireOthers
<1>5. FlipsCounted'
  BY <1>1, <1>2 DEF FlipsCounted, Finish
<1>6. CommandsOwned'
  BY <1>1, <1>2, <1>4 DEF IInv, Ownership, CommandsOwned
<1> QED
  BY <1>5, <1>6

\* A completed swap keeps the types.
LEMMA FinishType ==
  ASSUME IInv, NEW done \in SUBSET Cmd, Finish(done)
  PROVE  /\ cmd' \in [Cmd -> CmdRec \cup {None}] /\ ref' \in [Buf -> Int]
         /\ pending_page_flips' \in Int
<1>1. Retire(done, {})
  BY DEF Finish
<1>2. cmd' \in [Cmd -> CmdRec \cup {None}] /\ ref' \in [Buf -> Int]
  BY <1>1, RetireType DEF IInv
<1> QED
  BY <1>2 DEF Finish, IInv, TypeOK

\* Completing a swap whose window is gone keeps the invariant.
LEMMA CompleteOrphanInv ==
  ASSUME IInv, NEW p \in Live, CompleteOrphan(flip[p].priv, {p}), Rest,
         events' \in Seq(Flip)
  PROVE  IInv'
<1>1. Finish({flip[p].priv}) /\ FreeFlipdata({p}) /\ UNCHANGED queued
  BY DEF CompleteOrphan, driVars
<1>2. FlipsCounted' /\ CommandsOwned'
  BY <1>1, CompleteOneOwned
<1>3. QueueNeedsTwo'
  BY DEF CompleteOrphan, driVars, IInv, Ownership, QueueNeedsTwo
<1>4. TypeOK' /\ BuffersPaired'
  <2>1. flip[p].priv \in Cmd
    BY LastFlip
  <2>2. /\ cmd' \in [Cmd -> CmdRec \cup {None}] /\ ref' \in [Buf -> Int]
        /\ pending_page_flips' \in Int
    BY <1>1, <2>1, FinishType
  <2>3. flip' \in [Flip -> FlipRec \cup {None}] /\ fb_id' \in Fb \cup {None} /\ fbs' \in SUBSET Fb
    BY <1>1, FreeFlipdataType DEF IInv
  <2> QED
    BY <2>2, <2>3 DEF CompleteOrphan, Rest, IInv, TypeOK, BuffersPaired, driVars
<1> QED
  BY <1>2, <1>3, <1>4 DEF IInv, Ownership

\* Completing the last swap of a window keeps the invariant.
LEMMA CompleteLastInv ==
  ASSUME IInv, NEW p \in Live, CompleteLast(flip[p].priv, {p}), Rest,
         events' \in Seq(Flip)
  PROVE  IInv'
<1> DEFINE c == flip[p].priv
           d == cmd[c].draw_id
<1>1. c \in Cmd /\ d \in Window
  BY LastFlip
<1>2. /\ Finish({c}) /\ FreeFlipdata({p}) /\ UNCHANGED queued
      /\ Report(d, 1) /\ queued[d] = None /\ UNCHANGED pend
  BY DEF CompleteLast
<1>3. FlipsCounted' /\ CommandsOwned'
  BY <1>2, CompleteOneOwned
<1>4. QueueNeedsTwo'
  BY <1>1, <1>2 DEF Report, IInv, TypeOK, Ownership, QueueNeedsTwo
<1>5. TypeOK' /\ BuffersPaired'
  <2>1. /\ cmd' \in [Cmd -> CmdRec \cup {None}] /\ ref' \in [Buf -> Int]
        /\ pending_page_flips' \in Int
    BY <1>1, <1>2, FinishType
  <2>2. flip' \in [Flip -> FlipRec \cup {None}] /\ fb_id' \in Fb \cup {None} /\ fbs' \in SUBSET Fb
    BY <1>2, FreeFlipdataType DEF IInv
  <2>3. pending_swaps' \in [Window -> Int] /\ swapsPending' \in [Window -> Int]
    BY <1>1, <1>2, ReportType DEF IInv
  <2> QED
    BY <1>2, <2>1, <2>2, <2>3 DEF Rest, IInv, TypeOK, BuffersPaired
<1> QED
  BY <1>3, <1>4, <1>5 DEF IInv, Ownership

\* The command a completion finds in the queue.
LEMMA QueuedCommand ==
  ASSUME IInv, NEW p \in Live, Unqueue(cmd[flip[p].priv].draw_id)
  PROVE  LET d == cmd[flip[p].priv].draw_id
         IN  /\ queued[d] \in Cmd /\ queued[d] \in Allocated
             /\ queued[d] # flip[p].priv
             /\ \A q \in Live : flip[q].priv # queued[d]
             /\ \A e \in Window \ {d} : queued[e] # None => queued[e] # queued[d]
             /\ \A e \in Window : queued'[e] = IF e = d THEN None ELSE queued[e]
             /\ queued' \in [Window -> Cmd \cup {None}]
<1> DEFINE d == cmd[flip[p].priv].draw_id
<1>1. d \in Window /\ cmd[flip[p].priv].type = "flip"
  BY LastFlip
<1>2. queued[d] # None /\ queued' = [queued EXCEPT ![d] = None]
  BY DEF Unqueue
<1>3. queued[d] \in Allocated /\ cmd[queued[d]].draw_id = d /\ cmd[queued[d]].type = "none"
  BY <1>1, <1>2 DEF IInv, Ownership, CommandsOwned
<1>4. queued[d] \in Cmd
  BY <1>3 DEF Allocated
<1>5. \A q \in Live : cmd[flip[q].priv].type = "flip"
  BY DEF IInv, Ownership, CommandsOwned
<1>6. \A e \in Window : queued[e] # None => cmd[queued[e]].draw_id = e
  BY DEF IInv, Ownership, CommandsOwned
<1>7. /\ \A e \in Window : queued'[e] = IF e = d THEN None ELSE queued[e]
      /\ queued' \in [Window -> Cmd \cup {None}]
  BY <1>1, <1>2 DEF IInv, TypeOK
<1>8. "flip" # "none"
  OBVIOUS
<1>9. queued[d] # flip[p].priv /\ \A q \in Live : flip[q].priv # queued[d]
  BY <1>1, <1>3, <1>5, <1>8
<1>10. \A e \in Window \ {d} : queued[e] # None => queued[e] # queued[d]
  BY <1>3, <1>6
<1> QED
  BY <1>3, <1>4, <1>7, <1>9, <1>10

\* Completing a swap and flipping the next keeps the invariant.
LEMMA CompleteThenFlipInv ==
  ASSUME IInv, NEW p \in Live, CompleteThenFlip(flip[p].priv, {p}), Rest,
         events' \in Seq(Flip)
  PROVE  IInv'
<1> DEFINE c == flip[p].priv
           d == cmd[c].draw_id
           w == queued[d]
<1>1. /\ Unqueue(d) /\ PageFlip(w, {p}) /\ Report(d, 1) /\ Retire({c}, {w})
      /\ pending_page_flips' = pending_page_flips
  BY DEF CompleteThenFlip
<1>2. /\ c \in Cmd /\ d \in Window
      /\ \A q \in Live \ {p} : flip[q].priv # c
      /\ \A e \in Window : queued[e] # None => queued[e] # c
      /\ Cardinality(Live \ {p}) = pending_page_flips - 1
  BY LastFlip
<1>3. /\ w \in Cmd /\ w \in Allocated
      /\ w # c
      /\ \A q \in Live : flip[q].priv # w
      /\ \A e \in Window \ {d} : queued[e] # None => queued[e] # w
      /\ \A e \in Window : queued'[e] = IF e = d THEN None ELSE queued[e]
      /\ queued' \in [Window -> Cmd \cup {None}]
  BY <1>1, QueuedCommand
<1>4. PICK n \in Flip \ Live :
        /\ Live' = (Live \ {p}) \cup {n}
        /\ flip'[n].priv = w
        /\ \A q \in Live \ {p} : flip'[q] = flip[q]
  <2>1. {p} \in SUBSET Live
    OBVIOUS
  <2> HIDE DEF w
  <2> QED
    BY <1>1, <1>3, <2>1, PageFlipLive
<1>5. /\ \A b \in Allocated \ ({c} \cup {w}) : b \in Allocated' /\ cmd'[b] = cmd[b]
      /\ w \in Allocated' /\ cmd'[w].type = "flip"
  <2>1. {c} \in SUBSET Cmd /\ {w} \in SUBSET Allocated /\ w \in {w} \ {c}
    BY <1>2, <1>3
  <2>2. /\ \A b \in Allocated \ ({c} \cup {w}) : b \in Allocated' /\ cmd'[b] = cmd[b]
        /\ \A b \in {w} \ {c} : b \in Allocated' /\ cmd'[b].type = "flip"
    <3> HIDE DEF c, w
    <3> QED
      BY <1>1, <2>1, RetireOthers
  <2> QED
    BY <2>1, <2>2
<1>6. FlipsCounted'
  <2>1. n \notin Live \ {p} /\ IsFiniteSet(Live \ {p})
    BY LiveFinite, FS_RemoveElement
  <2>2. Cardinality(Live') = Cardinality(Live \ {p}) + 1
    BY <1>4, <2>1, FS_AddElement
  <2>3. pending_page_flips \in Int
    BY DEF IInv, TypeOK
  <2> QED
    BY <1>1, <1>2, <2>2, <2>3 DEF FlipsCounted
<1>7. CommandsOwned'
  <2>1. \A q \in Live' :
          /\ flip'[q].priv \in Allocated' /\ cmd'[flip'[q].priv].type = "flip"
    BY <1>2, <1>3, <1>4, <1>5 DEF IInv, Ownership, CommandsOwned
  <2>2. \A q, r \in Live' : flip'[q].priv = flip'[r].priv => q = r
    BY <1>3, <1>4 DEF IInv, Ownership, CommandsOwned
  <2>3. \A e \in Window : queued'[e] # None =>
          queued'[e] \in Allocated' /\ cmd'[queued'[e]].draw_id = e
            /\ cmd'[queued'[e]].type = "none"
    <3> SUFFICES ASSUME NEW e \in Window, queued'[e] # None
                 PROVE  queued'[e] \in Allocated' /\ cmd'[queued'[e]].draw_id = e
                          /\ cmd'[queued'[e]].type = "none"
      OBVIOUS
    <3>1. e # d /\ queued'[e] = queued[e] /\ queued[e] # c /\ queued[e] # w
      BY <1>2, <1>3
    <3>2. /\ queued[e] \in Allocated
          /\ cmd[queued[e]].draw_id = e /\ cmd[queued[e]].type = "none"
      BY <3>1 DEF IInv, Ownership, CommandsOwned
    <3> QED
      BY <1>5, <3>1, <3>2
  <2> QED
    BY <2>1, <2>2, <2>3 DEF CommandsOwned
<1>8. QueueNeedsTwo'
  BY <1>1, <1>2, <1>3 DEF Report, IInv, TypeOK, Ownership, QueueNeedsTwo
<1>9. TypeOK' /\ BuffersPaired'
  <2>1. FlipTypeOK'
    <3>1. TypeOK /\ {p} \in SUBSET Live /\ w \in Cmd /\ PageFlip(w, {p})
      BY <1>1, <1>3 DEF IInv
    <3> HIDE DEF w
    <3> QED
      BY <3>1, PageFlipType
  <2>2. cmd' \in [Cmd -> CmdRec \cup {None}] /\ ref' \in [Buf -> Int]
    <3>1. {c} \in SUBSET Cmd /\ \A b \in {w} : b \in {c} \/ cmd[b] # None
      BY <1>2, <1>3 DEF Allocated
    <3> QED
      BY <1>1, <3>1, RetireType DEF IInv
  <2>3. pending_swaps' \in [Window -> Int] /\ swapsPending' \in [Window -> Int]
    BY <1>1, <1>2, ReportType DEF IInv
  <2> QED
    BY <1>1, <1>3, <2>1, <2>2, <2>3 DEF Rest, IInv, TypeOK, FlipTypeOK, BuffersPaired
<1> QED
  BY <1>6, <1>7, <1>8, <1>9 DEF IInv, Ownership

\* Completing a swap and copying the next keeps the invariant.
LEMMA CompleteBothInv ==
  ASSUME IInv, NEW p \in Live, CompleteBoth(flip[p].priv, {p}), Rest,
         events' \in Seq(Flip)
  PROVE  IInv'
<1> DEFINE c == flip[p].priv
           d == cmd[c].draw_id
           w == queued[d]
<1>1. /\ Unqueue(d) /\ NoPageFlip({p}) /\ Report(d, 2) /\ Finish({c, w})
  BY DEF CompleteBoth
<1>2. /\ c \in Cmd /\ d \in Window
      /\ \A q \in Live \ {p} : flip[q].priv # c
      /\ \A e \in Window : queued[e] # None => queued[e] # c
      /\ Cardinality(Live \ {p}) = pending_page_flips - 1
  BY LastFlip
<1>3. /\ w \in Cmd
      /\ \A q \in Live : flip[q].priv # w
      /\ \A e \in Window \ {d} : queued[e] # None => queued[e] # w
      /\ \A e \in Window : queued'[e] = IF e = d THEN None ELSE queued[e]
      /\ queued' \in [Window -> Cmd \cup {None}]
  BY <1>1, QueuedCommand
<1>4. Live' = Live \ {p} /\ \A q \in Live \ {p} : flip'[q] = flip[q]
  BY <1>1, FreeFlipdataLive DEF NoPageFlip
<1>5. \A b \in Allocated \ ({c, w} \cup {}) : b \in Allocated' /\ cmd'[b] = cmd[b]
  <2>1. {c, w} \in SUBSET Cmd /\ {} \in SUBSET Allocated
    BY <1>2, <1>3
  <2> QED
    BY <1>1, <2>1, RetireOthers DEF Finish
<1>6. FlipsCounted'
  BY <1>1, <1>2, <1>4 DEF FlipsCounted, Finish
<1>7. CommandsOwned'
  <2>1. \A e \in Window : queued'[e] # None =>
          queued'[e] = queued[e] /\ queued[e] \notin {c, w}
    BY <1>2, <1>3
  <2>2. \A q \in Live' : flip'[q] = flip[q] /\ flip[q].priv \notin {c, w}
    BY <1>2, <1>3, <1>4
  <2> QED
    BY <1>4, <1>5, <2>1, <2>2 DEF IInv, Ownership, CommandsOwned
<1>8. QueueNeedsTwo'
  BY <1>1, <1>2, <1>3 DEF Report, IInv, TypeOK, Ownership, QueueNeedsTwo
<1>9. TypeOK' /\ BuffersPaired'
  <2>1. FlipTypeOK'
    BY <1>1, NoPageFlipType DEF IInv
  <2>2. /\ cmd' \in [Cmd -> CmdRec \cup {None}] /\ ref' \in [Buf -> Int]
        /\ pending_page_flips' \in Int
    <3>1. {c, w} \in SUBSET Cmd
      BY <1>2, <1>3
    <3> QED
      BY <1>1, <3>1, FinishType
  <2>3. pending_swaps' \in [Window -> Int] /\ swapsPending' \in [Window -> Int]
    BY <1>1, <1>2, ReportType DEF IInv
  <2> QED
    BY <1>3, <2>1, <2>2, <2>3 DEF Rest, IInv, TypeOK, FlipTypeOK, BuffersPaired
<1> QED
  BY <1>6, <1>7, <1>8, <1>9 DEF IInv, Ownership

-----------------------------------------------------------------------------
(* Events *)

\* A flip event that is not the last keeps the invariant.
LEMMA HandleCountedInv ==
  ASSUME IInv, HandleCounted
  PROVE  IInv'
<1> DEFINE p == Head(events)
<1>1. /\ p \in Live /\ flip' = [flip EXCEPT ![p].flip_count = @ - 1]
      /\ Reading /\ events' = Tail(events)
  BY DEF HandleCounted
<1>2. flip[p] \in FlipRec
  BY <1>1 DEF IInv, TypeOK, Live
<1>3. /\ [flip[p] EXCEPT !.flip_count = @ - 1] \in FlipRec
      /\ [flip[p] EXCEPT !.flip_count = @ - 1].priv = flip[p].priv
  BY <1>2 DEF FlipRec
<1>4. /\ flip' \in [Flip -> FlipRec \cup {None}]
      /\ \A q \in Flip \ {p} : flip'[q] = flip[q]
      /\ flip'[p] \in FlipRec /\ flip'[p].priv = flip[p].priv
  BY <1>1, <1>3 DEF IInv, TypeOK, Live
<1>5. Live' = Live /\ \A q \in Live : flip'[q].priv = flip[q].priv
  BY <1>1, <1>4, SetsAssumption DEF Live
<1>6. TypeOK' /\ BuffersPaired'
  BY <1>1, <1>4, TailType DEF HandleCounted, IInv, TypeOK, BuffersPaired,
                              driVars, heapVars, coreVars, screenVars
<1>7. FlipsCounted' /\ QueueNeedsTwo'
  BY <1>5 DEF HandleCounted, driVars, IInv, Ownership, FlipsCounted, QueueNeedsTwo
<1>8. CommandsOwned'
  <2>1. Allocated' = Allocated /\ cmd' = cmd /\ queued' = queued
    BY DEF HandleCounted, driVars, heapVars, Allocated
  <2> QED
    BY <1>5, <2>1 DEF IInv, Ownership, CommandsOwned
<1> QED
  BY <1>6, <1>7, <1>8 DEF IInv, Ownership

\* The last flip event of a swap keeps the invariant.
LEMMA HandleLastInv ==
  ASSUME IInv, HandleLast
  PROVE  IInv'
<1> DEFINE p == Head(events)
<1>1. p \in Live /\ SwapComplete(flip[p].priv, {p}) /\ Reading
  BY DEF HandleLast
<1>2. Rest
  BY DEF HandleLast, Rest, screenVars
<1>3. events' \in Seq(Flip)
  BY <1>1, TailType DEF HandleLast
<1> HIDE DEF p
<1>4. CASE CompleteOrphan(flip[p].priv, {p})
  BY <1>1, <1>2, <1>3, <1>4, CompleteOrphanInv
<1>5. CASE CompleteLast(flip[p].priv, {p})
  BY <1>1, <1>2, <1>3, <1>5, CompleteLastInv
<1>6. CASE CompleteThenFlip(flip[p].priv, {p})
  BY <1>1, <1>2, <1>3, <1>6, CompleteThenFlipInv
<1>7. CASE CompleteBoth(flip[p].priv, {p})
  BY <1>1, <1>2, <1>3, <1>7, CompleteBothInv
<1> QED
  BY <1>1, <1>4, <1>5, <1>6, <1>7 DEF SwapComplete

\* A flip event of freed flip data keeps the invariant.
LEMMA HandleFreedInv ==
  ASSUME IInv, HandleFreed
  PROVE  IInv'
<1>1. TypeOK' /\ BuffersPaired'
  BY TailType DEF HandleFreed, IInv, TypeOK, BuffersPaired,
                  driVars, heapVars, flipVars, coreVars
<1>2. Ownership'
  BY OwnershipKept DEF HandleFreed, IInv, driVars, heapVars, flipVars
<1> QED
  BY <1>1, <1>2 DEF IInv

\* A vertical blank keeps the invariant.
LEMMA VblankInv ==
  ASSUME IInv, NEW k \in Crtc, Vblank(k)
  PROVE  IInv'
<1>1. pend[k] \in PendRec
  BY DEF Vblank, IInv, TypeOK
<1>2. pend[k].fb \in Fb \cup {None} /\ pend[k].data \in Flip
  BY <1>1 DEF PendRec
<1>3. TypeOK' /\ BuffersPaired'
  BY <1>2 DEF Vblank, IInv, TypeOK, BuffersPaired, driVars, heapVars, coreVars
<1>4. Ownership'
  BY OwnershipKept DEF Vblank, IInv, driVars, heapVars
<1> QED
  BY <1>3, <1>4 DEF IInv

-----------------------------------------------------------------------------
(* The DRI2 module, RandR and CloseScreen *)

\* Dropping references keeps the types.
LEMMA DropRefsType ==
  ASSUME IInv, NEW bs
  PROVE  DropRefs(bs) \in [Buf -> Int]
BY DEF DropRefs, IInv, TypeOK

\* Getting buffers keeps the invariant.
LEMMA GetBuffersInv ==
  ASSUME IInv, NEW d \in Window, NEW f \in Buf, NEW b \in Buf, GetBuffers(d, f, b)
  PROVE  IInv'
<1>1. ref' \in [Buf -> Int]
  BY DropRefsType DEF GetBuffers
<1>2. TypeOK'
  BY <1>1 DEF GetBuffers, IInv, TypeOK, driVars, flipVars, screenVars
<1>3. BuffersPaired'
  BY SetsAssumption DEF GetBuffers, IInv, TypeOK, BuffersPaired
<1>4. Ownership'
  BY OwnershipKept DEF GetBuffers, IInv, driVars, flipVars
<1> QED
  BY <1>2, <1>3, <1>4 DEF IInv

\* Detaching a swap from its window keeps the types.
LEMMA DetachedType ==
  ASSUME IInv, NEW d \in Window,
         front' = [front EXCEPT ![d] = None], back' = [back EXCEPT ![d] = None],
         swapsPending' = [swapsPending EXCEPT ![d] = 0]
  PROVE  /\ front' \in [Window -> Buf \cup {None}] /\ back' \in [Window -> Buf \cup {None}]
         /\ swapsPending' \in [Window -> Int]
         /\ BuffersPaired'
<1>1. front' \in [Window -> Buf \cup {None}] /\ back' \in [Window -> Buf \cup {None}]
  BY DEF IInv, TypeOK
<1>2. swapsPending' \in [Window -> Int]
  BY DEF IInv, TypeOK
<1>3. BuffersPaired'
  BY DEF IInv, TypeOK, BuffersPaired
<1> QED
  BY <1>1, <1>2, <1>3

\* Detaching a swap keeps the invariant.
LEMMA DetachInv ==
  ASSUME IInv, NEW d \in Window, Detach(d)
  PROVE  IInv'
<1>1. ref' \in [Buf -> Int]
  BY DropRefsType DEF Detach
<1>2. /\ front' \in [Window -> Buf \cup {None}] /\ back' \in [Window -> Buf \cup {None}]
      /\ swapsPending' \in [Window -> Int]
      /\ BuffersPaired'
  BY DetachedType DEF Detach
<1>3. TypeOK'
  BY <1>1, <1>2 DEF Detach, IInv, TypeOK, driVars, flipVars, screenVars
<1>4. Ownership'
  BY OwnershipKept DEF Detach, IInv, driVars, flipVars
<1> QED
  BY <1>2, <1>3, <1>4 DEF IInv

\* Destroying a window keeps the invariant.
LEMMA DestroyWindowInv ==
  ASSUME IInv, NEW d \in Window, DestroyWindow(d)
  PROVE  IInv'
<1>1. ref' \in [Buf -> Int]
  BY DropRefsType DEF DestroyWindow
<1>2. TypeOK' /\ BuffersPaired'
  <2>1. /\ front' \in [Window -> Buf \cup {None}] /\ back' \in [Window -> Buf \cup {None}]
        /\ swapsPending' \in [Window -> Int]
        /\ BuffersPaired'
    BY DetachedType DEF DestroyWindow
  <2>2. pending_swaps' \in [Window -> Int] /\ queued' \in [Window -> Cmd \cup {None}]
    BY DEF DestroyWindow, IInv, TypeOK
  <2> QED
    BY <1>1, <2>1, <2>2 DEF DestroyWindow, IInv, TypeOK, flipVars, screenVars
<1>3. /\ \A e \in Window : queued'[e] # None =>
           queued'[e] = queued[e] /\ pending_swaps'[e] = pending_swaps[e]
      /\ UNCHANGED <<cmd, flip, pending_page_flips>>
  BY DEF DestroyWindow, flipVars, IInv, TypeOK
<1>4. FlipsCounted' /\ QueueNeedsTwo'
  BY <1>3 DEF IInv, Ownership, FlipsCounted, QueueNeedsTwo, Live
<1>5. CommandsOwned'
  BY <1>3 DEF IInv, Ownership, CommandsOwned, Live, Allocated
<1> QED
  BY <1>2, <1>4, <1>5 DEF IInv, Ownership

\* Creating a window keeps the invariant.
LEMMA CreateWindowInv ==
  ASSUME IInv, NEW d \in Window, CreateWindow(d)
  PROVE  IInv'
<1>1. TypeOK' /\ BuffersPaired'
  BY DEF CreateWindow, IInv, TypeOK, BuffersPaired, driVars, heapVars, flipVars, screenVars
<1>2. Ownership'
  BY OwnershipKept DEF CreateWindow, IInv, driVars, heapVars, flipVars
<1> QED
  BY <1>1, <1>2 DEF IInv

\* Setting a CRTC keeps the invariant.
LEMMA SetCrtcInv ==
  ASSUME IInv, NEW k \in Crtc, SetCrtc(k)
  PROVE  IInv'
<1>1. PICK f \in Fb :
        /\ fb_id' = f
        /\ fbs' = fbs \cup {f}
        /\ \/ enabled' = enabled \cup {k} /\ scan' = [scan EXCEPT ![k] = f]
           \/ UNCHANGED <<enabled, scan>>
  BY DEF SetCrtc
<1>2. /\ fb_id' \in Fb \cup {None}
      /\ fbs' \in SUBSET Fb
      /\ enabled' \in SUBSET Crtc
      /\ scan' \in [Crtc -> Fb \cup {None}]
  <2>1. fb_id' \in Fb \cup {None} /\ fbs' \in SUBSET Fb
    BY <1>1 DEF IInv, TypeOK
  <2>2. CASE enabled' = enabled \cup {k} /\ scan' = [scan EXCEPT ![k] = f]
    BY <2>1, <2>2 DEF IInv, TypeOK
  <2>3. CASE UNCHANGED <<enabled, scan>>
    BY <2>1, <2>3 DEF IInv, TypeOK
  <2> QED
    BY <1>1, <2>2, <2>3
<1>3. TypeOK' /\ BuffersPaired'
  BY <1>2 DEF SetCrtc, IInv, TypeOK, BuffersPaired, driVars, heapVars, coreVars
<1>4. Ownership'
  BY OwnershipKept DEF SetCrtc, IInv, driVars, heapVars
<1> QED
  BY <1>3, <1>4 DEF IInv

\* Replacing the scanout buffer keeps the types.
LEMMA ReplaceFbType ==
  ASSUME TypeOK, NEW f \in Fb \cup {None}, NEW lit, ReplaceFb(f, lit)
  PROVE  /\ fb_id' \in Fb \cup {None}
         /\ fbs' \in SUBSET Fb
         /\ scan' \in [Crtc -> Fb \cup {None}]
         /\ pend' \in [Crtc -> PendRec \cup {None}]
<1> DEFINE shown(k, fb) == IF k \in lit THEN f ELSE IF fb = fb_id THEN None ELSE fb
<1>1. \A k \in Crtc, fb \in Fb \cup {None} : shown(k, fb) \in Fb \cup {None}
  OBVIOUS
<1>2. scan' \in [Crtc -> Fb \cup {None}]
  BY <1>1 DEF ReplaceFb, TypeOK
<1>3. \A k \in Crtc : pend[k] # None =>
        [pend[k] EXCEPT !.fb = shown(k, pend[k].fb)] \in PendRec
  BY <1>1 DEF TypeOK, PendRec
<1>4. pend' \in [Crtc -> PendRec \cup {None}]
  BY <1>3 DEF ReplaceFb, TypeOK
<1> QED
  BY <1>2, <1>4 DEF ReplaceFb, TypeOK

\* Rotating a CRTC keeps the invariant.
LEMMA RotateInv ==
  ASSUME IInv, NEW k \in Crtc, Rotate(k)
  PROVE  IInv'
<1>1. PICK f \in Fb \cup {None}, lit \in SUBSET (enabled \cup {k}) :
        ReplaceFb(f, lit) /\ enabled' = enabled \cup (lit \cap {k})
  BY DEF Rotate
<1>2. /\ fb_id' \in Fb \cup {None}
      /\ fbs' \in SUBSET Fb
      /\ scan' \in [Crtc -> Fb \cup {None}]
      /\ pend' \in [Crtc -> PendRec \cup {None}]
  BY <1>1, ReplaceFbType DEF IInv
<1>3. enabled' \in SUBSET Crtc
  BY <1>1 DEF IInv, TypeOK
<1>4. TypeOK' /\ BuffersPaired'
  BY <1>2, <1>3 DEF Rotate, IInv, TypeOK, BuffersPaired, driVars, heapVars, coreVars
<1>5. Ownership'
  BY OwnershipKept DEF Rotate, IInv, driVars, heapVars
<1> QED
  BY <1>4, <1>5 DEF IInv

\* Resizing the screen keeps the invariant.
LEMMA ResizeInv ==
  ASSUME IInv, Resize
  PROVE  IInv'
<1>1. /\ fb_id' \in Fb \cup {None}
      /\ fbs' \in SUBSET Fb
      /\ scan' \in [Crtc -> Fb \cup {None}]
      /\ pend' \in [Crtc -> PendRec \cup {None}]
  BY ReplaceFbType DEF IInv, Resize
<1>2. TypeOK' /\ BuffersPaired'
  BY <1>1 DEF Resize, IInv, TypeOK, BuffersPaired, driVars, heapVars, coreVars
<1>3. Ownership'
  BY OwnershipKept DEF Resize, IInv, driVars, heapVars
<1> QED
  BY <1>2, <1>3 DEF IInv

\* Disabling a CRTC keeps the invariant.
LEMMA DisableCrtcInv ==
  ASSUME IInv, NEW k \in Crtc, DisableCrtc(k)
  PROVE  IInv'
<1>1. TypeOK' /\ BuffersPaired'
  BY DEF DisableCrtc, IInv, TypeOK, BuffersPaired, driVars, heapVars, flipVars, coreVars
<1>2. Ownership'
  BY OwnershipKept DEF DisableCrtc, IInv, driVars, heapVars, flipVars
<1> QED
  BY <1>1, <1>2 DEF IInv

\* Moving on to the next phase keeps the invariant.
LEMMA MoveToInv ==
  ASSUME IInv, NEW next \in {"closing", "closed"}, MoveTo(next)
  PROVE  IInv'
<1>1. TypeOK' /\ BuffersPaired'
  BY DEF MoveTo, IInv, TypeOK, BuffersPaired, driVars, heapVars, flipVars, coreVars
<1>2. Ownership'
  BY OwnershipKept DEF MoveTo, IInv, driVars, heapVars, flipVars
<1> QED
  BY <1>1, <1>2 DEF IInv

\* A stutter keeps the invariant.
LEMMA StutterInv ==
  ASSUME IInv, UNCHANGED vars
  PROVE  IInv'
<1>1. TypeOK' /\ BuffersPaired'
  BY DEF IInv, TypeOK, BuffersPaired, vars, driVars, heapVars, flipVars, coreVars, screenVars
<1>2. Ownership'
  BY OwnershipKept DEF IInv, vars, driVars, heapVars, flipVars
<1> QED
  BY <1>1, <1>2 DEF IInv

-----------------------------------------------------------------------------
(* The theorems *)

\* Every step of the swap engine, the kernel, the clients and RandR preserves
\* the invariant.
THEOREM Step == IInv /\ [Next]_vars => IInv'
<1> SUFFICES ASSUME IInv, [Next]_vars PROVE IInv'
  OBVIOUS
<1>1. ASSUME NEW d \in Window, ScheduleSwap(d) PROVE IInv'
  BY <1>1, ScheduleCopyInv, ScheduleQueuedInv, ScheduleRefusedInv, ScheduleFlipInv
     DEF ScheduleSwap
<1>2. ASSUME NEW d \in Window, NEW f \in Buf, NEW b \in Buf, GetBuffers(d, f, b) PROVE IInv'
  BY <1>2, GetBuffersInv
<1>3. ASSUME NEW d \in Window, Detach(d) PROVE IInv'
  BY <1>3, DetachInv
<1>4. ASSUME NEW d \in Window, DestroyWindow(d) PROVE IInv'
  BY <1>4, DestroyWindowInv
<1>5. ASSUME NEW d \in Window, CreateWindow(d) PROVE IInv'
  BY <1>5, CreateWindowInv
<1>6. CASE RandR
  BY <1>6, SetCrtcInv, RotateInv, ResizeInv, DisableCrtcInv DEF RandR
<1>7. CASE Kernel
  BY <1>7, VblankInv DEF Kernel
<1>8. CASE HandleEvent
  BY <1>8, HandleCountedInv, HandleLastInv, HandleFreedInv DEF HandleEvent
<1>9. CASE BeginClose
  BY <1>9, MoveToInv DEF BeginClose
<1>10. CASE FinishClose
  BY <1>10, MoveToInv DEF FinishClose
<1>11. CASE Stopped \/ UNCHANGED vars
  BY <1>11, StutterInv DEF Stopped
<1>12. CASE Client
  BY <1>1, <1>2, <1>3, <1>4, <1>5, <1>12 DEF Client
<1> QED
  BY <1>6, <1>7, <1>8, <1>9, <1>10, <1>11, <1>12 DEF Next

\* The invariant holds in every state the driver reaches.
THEOREM Invariant == Spec => []IInv
BY Base, Step, PTL DEF Spec

\* Every variable of the swap engine keeps its type.
THEOREM TypeCorrect == Spec => []TypeOK
<1>1. IInv => TypeOK
  BY DEF IInv
<1> QED
  BY <1>1, Invariant, PTL

\* pending_page_flips, the counter OMAPDRI2CloseScreen spins on, is exactly the
\* number of flipdata records whose command has not completed.
THEOREM CounterExact == Spec => []FlipsCounted
<1>1. IInv => FlipsCounted
  BY DEF IInv, Ownership
<1> QED
  BY <1>1, Invariant, PTL

\* No swap command is in two places: OMAPDRI2SwapComplete is never called twice
\* for one command, and a dispatched command is never still queued.
THEOREM NoDoubleCompletion == Spec => []CommandsOwned
<1>1. IInv => CommandsOwned
  BY DEF IInv, Ownership
<1> QED
  BY <1>1, Invariant, PTL

\* A command in the queue always has a swap of its drawable to wait for.
THEOREM QueueHasTrigger == Spec => []QueueNeedsTwo
<1>1. IInv => QueueNeedsTwo
  BY DEF IInv, Ownership
<1> QED
  BY <1>1, Invariant, PTL

\* When OMAPDRI2CloseScreen leaves its loop, no flip is left whose event would
\* be handled after the screen is gone.
THEOREM CloseDrains == Spec => [][FinishClose => Live = {}]_vars
<1>1. IInv /\ FinishClose => Live = {}
  <2> SUFFICES ASSUME IInv, FinishClose PROVE Live = {}
    OBVIOUS
  <2>1. Cardinality(Live) = 0
    BY LiveFinite DEF FinishClose, IInv, Ownership, FlipsCounted
  <2> QED
    BY <2>1, LiveFinite, FS_EmptySet
<1>2. IInv /\ [Next]_vars => [FinishClose => Live = {}]_vars
  BY <1>1
<1> QED
  BY <1>2, Invariant, PTL DEF Spec
=============================================================================
