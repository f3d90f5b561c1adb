--------------------------- MODULE Dri2FlipProofs ---------------------------
(***************************************************************************)
(* More theorems about Dri2Swap, on the invariant of Dri2SwapProofs: the   *)
(* reference counts of buffers balance and framebuffers are accounted for  *)
(* in every environment; and unless drmModePageFlip fails half way, each   *)
(* event finds its flip, no framebuffer is removed while it is shown, and  *)
(* a closed screen is quiet.                                               *)
(***************************************************************************)
EXTENDS Dri2SwapProofs, FunctionTheorems, SequenceTheorems

-----------------------------------------------------------------------------
(* Counting *)

\* The elements of a finite set with a property, when one element changes.
LEMMA CountChanges ==
  ASSUME NEW S, IsFiniteSet(S), NEW T, IsFiniteSet(T), NEW x,
         \A y : y # x => (y \in S <=> y \in T)
  PROVE  Cardinality(T) = Cardinality(S) - (IF x \in S THEN 1 ELSE 0)
                                         + (IF x \in T THEN 1 ELSE 0)
<1>1. S \ {x} = T \ {x}
  OBVIOUS
<1>2. Cardinality(S \ {x}) = IF x \in S THEN Cardinality(S) - 1 ELSE Cardinality(S)
  BY FS_RemoveElement
<1>3. Cardinality(T \ {x}) = IF x \in T THEN Cardinality(T) - 1 ELSE Cardinality(T)
  BY FS_RemoveElement
<1>4. Cardinality(S) \in Nat /\ Cardinality(T) \in Nat
  BY FS_CardinalityType
<1>5. Cardinality(S \ {x}) = Cardinality(T \ {x})
  BY <1>1
<1> QED
  BY <1>2, <1>3, <1>4, <1>5

\* What is taken out of a finite set counts what it counted in it.
LEMMA CountDifference ==
  ASSUME NEW S, IsFiniteSet(S), NEW T \in SUBSET S
  PROVE  Cardinality(S \ T) = Cardinality(S) - Cardinality(T)
<1>1. IsFiniteSet(T) /\ IsFiniteSet(S \ T)
  BY FS_Subset
<1> DEFINE U == S \ T
<1>2. U \cup T = S /\ U \cap T = {}
  OBVIOUS
<1> HIDE DEF U
<1>3. Cardinality(U \cup T) = Cardinality(U) + Cardinality(T) - Cardinality(U \cap T)
  BY <1>1, FS_Union DEF U
<1>4. /\ Cardinality(S) \in Nat /\ Cardinality(T) \in Nat /\ Cardinality(U) \in Nat
      /\ Cardinality({}) = 0
  BY <1>1, FS_CardinalityType, FS_EmptySet DEF U
<1>5. Cardinality(U \cup T) = Cardinality(S) /\ Cardinality(U \cap T) = 0
  BY <1>2, <1>4
<1>6. Cardinality(U) = Cardinality(S) - Cardinality(T)
  BY <1>3, <1>4, <1>5
<1> QED
  BY <1>6 DEF U

-----------------------------------------------------------------------------
(* References *)

\* How many windows have b attached in att, which is front or back.
AttachedIn(att, b) == Cardinality({d \in Window : att[d] = b})

\* A window never has one buffer for both.
BuffersDiffer == \A d \in Window : front[d] # None => front[d] # back[d]

RefInv == RefsBalanced /\ BuffersDiffer

\* The windows that have a buffer attached are a number.
LEMMA AttachedType ==
  ASSUME NEW att, NEW b
  PROVE  AttachedIn(att, b) \in Nat /\ IsFiniteSet({d \in Window : att[d] = b})
BY SetsAssumption, FS_Subset, FS_CardinalityType DEF AttachedIn

\* The attachments differ for the window d at most.
OnlyOf(d, att, att2) == \A e \in Window \ {d} : att2[e] = att[e]

\* One window is given another buffer, or none.
LEMMA AttachOne ==
  ASSUME NEW att, NEW att2, NEW d \in Window, OnlyOf(d, att, att2), NEW b
  PROVE  AttachedIn(att2, b) = AttachedIn(att, b) - (IF att[d] = b THEN 1 ELSE 0)
                                                  + (IF att2[d] = b THEN 1 ELSE 0)
<1> DEFINE S == {e \in Window : att[e] = b}
           T == {e \in Window : att2[e] = b}
<1>1. IsFiniteSet(S) /\ IsFiniteSet(T)
  BY AttachedType
<1>2. \A e : e # d => (e \in S <=> e \in T)
  BY DEF OnlyOf
<1>3. (d \in S <=> att[d] = b) /\ (d \in T <=> att2[d] = b)
  OBVIOUS
<1>4. Cardinality(T) = Cardinality(S) - (IF d \in S THEN 1 ELSE 0) + (IF d \in T THEN 1 ELSE 0)
  <2> HIDE DEF S, T
  <2> QED
    BY <1>1, <1>2, CountChanges
<1> QED
  BY <1>3, <1>4 DEF AttachedIn

\* A buffer that is unused is attached nowhere and held by no command.
LEMMA UnusedIsFree ==
  ASSUME RefInv, NEW b \in Unused
  PROVE  /\ \A d \in Window : front[d] # b /\ back[d] # b
         /\ \A c \in Allocated : cmd[c].src # b /\ cmd[c].dst # b
<1> DEFINE F == {d \in Window : front[d] = b}
           B == {d \in Window : back[d] = b}
           R == {c \in Allocated : cmd[c].src = b}
           W == {c \in Allocated : cmd[c].dst = b}
<1>1. b \in Buf /\ ref[b] = 0
  BY DEF Unused
<1>2. IsFiniteSet(F) /\ IsFiniteSet(B)
  BY AttachedType
<1>3. IsFiniteSet(R) /\ IsFiniteSet(W)
  BY SetsAssumption, FS_Subset DEF Allocated
<1>4. Cardinality(F) + Cardinality(B) + (Cardinality(R) + Cardinality(W)) = 0
  <2>1. ref[b] = AttachedIn(front, b) + AttachedIn(back, b) + Holds(Allocated, b)
    BY <1>1 DEF RefInv, RefsBalanced, AttachedIn
  <2>2. AttachedIn(front, b) = Cardinality(F) /\ AttachedIn(back, b) = Cardinality(B)
    BY DEF AttachedIn
  <2>3. Holds(Allocated, b) = Cardinality(R) + Cardinality(W)
    BY DEF Holds
  <2> HIDE DEF F, B, R, W
  <2> QED
    BY <1>1, <2>1, <2>2, <2>3
<1> HIDE DEF F, B, R, W
<1>5. /\ Cardinality(F) \in Nat /\ Cardinality(B) \in Nat
      /\ Cardinality(R) \in Nat /\ Cardinality(W) \in Nat
  BY <1>2, <1>3, FS_CardinalityType
<1>6. Cardinality(F) = 0 /\ Cardinality(B) = 0 /\ Cardinality(R) = 0 /\ Cardinality(W) = 0
  <2>1. \A i, j, k, m \in Nat : i + j + (k + m) = 0 => i = 0 /\ j = 0 /\ k = 0 /\ m = 0
    OBVIOUS
  <2> QED
    BY <1>4, <1>5, <2>1
<1>7. F = {} /\ B = {} /\ R = {} /\ W = {}
  BY <1>2, <1>3, <1>6, FS_EmptySet
<1> QED
  BY <1>7 DEF F, B, R, W

\* The references the commands hold on a buffer are a number.
LEMMA HeldType ==
  ASSUME NEW b
  PROVE  Holds(Allocated, b) \in Nat
<1>1. IsFiniteSet(Allocated)
  BY SetsAssumption, FS_Subset DEF Allocated
<1> QED
  BY <1>1, HoldsType

\* Steps that leave commands, counts and attachments alone.
LEMMA RefsKept ==
  ASSUME RefInv, UNCHANGED <<cmd, ref, front, back>>
  PROVE  RefInv'
BY DEF RefInv, RefsBalanced, BuffersDiffer, Holds, Allocated

\* OMAPDRI2ReferenceBuffer on both buffers of a new command.
LEMMA AllocateRefs ==
  ASSUME IInv, RefInv, NEW c \in Cmd, NEW d \in Window, NEW type \in {"none", "flip"},
         MayRequest(d), Allocate(c, d, type), UNCHANGED <<front, back>>
  PROVE  RefInv'
<1>1. /\ c \notin Allocated /\ c \in Allocated'
      /\ \A x \in Allocated : x \in Allocated' /\ cmd'[x] = cmd[x]
  BY AllocatedType
<1>2. \A x \in Allocated' : x = c \/ x \in Allocated
  BY DEF Allocate, Allocated, IInv, TypeOK
<1>3. cmd'[c].src = back[d] /\ cmd'[c].dst = front[d]
  BY DEF Allocate, NewCmd, IInv, TypeOK
<1>4. front[d] # back[d]
  BY DEF MayRequest, RefInv, BuffersDiffer
<1>5. IsFiniteSet(Allocated) /\ IsFiniteSet(Allocated')
  BY SetsAssumption, FS_Subset DEF Allocated
<1>6. ASSUME NEW b \in Buf
      PROVE  Holds(Allocated, b)' = Holds(Allocated, b) + (IF back[d] = b THEN 1 ELSE 0)
                                                        + (IF front[d] = b THEN 1 ELSE 0)
  <2> DEFINE R  == {x \in Allocated : cmd[x].src = b}
             R2 == {x \in Allocated' : cmd'[x].src = b}
             W  == {x \in Allocated : cmd[x].dst = b}
             W2 == {x \in Allocated' : cmd'[x].dst = b}
  <2>1. IsFiniteSet(R) /\ IsFiniteSet(R2) /\ IsFiniteSet(W) /\ IsFiniteSet(W2)
    BY <1>5, FS_Subset
  <2>2. /\ \A x : x # c => (x \in R <=> x \in R2) /\ (x \in W <=> x \in W2)
        /\ c \notin R /\ (c \in R2 <=> back[d] = b)
        /\ c \notin W /\ (c \in W2 <=> front[d] = b)
    BY <1>1, <1>2, <1>3
  <2> HIDE DEF R, R2, W, W2
  <2>3. Cardinality(R) \in Nat /\ Cardinality(W) \in Nat
    BY <2>1, FS_CardinalityType
  <2>4. Cardinality(R2) = Cardinality(R) - (IF c \in R THEN 1 ELSE 0)
                                         + (IF c \in R2 THEN 1 ELSE 0)
    BY <2>1, <2>2, CountChanges
  <2>5. Cardinality(W2) = Cardinality(W) - (IF c \in W THEN 1 ELSE 0)
                                         + (IF c \in W2 THEN 1 ELSE 0)
    BY <2>1, <2>2, CountChanges
  <2>6. Cardinality(R2) + Cardinality(W2)
          = Cardinality(R) + Cardinality(W) + (IF back[d] = b THEN 1 ELSE 0)
                                            + (IF front[d] = b THEN 1 ELSE 0)
    BY <2>2, <2>3, <2>4, <2>5
  <2> QED
    BY <2>6 DEF Holds, R, R2, W, W2
<1>7. RefsBalanced'
  <2> SUFFICES ASSUME NEW b \in Buf
               PROVE  ref'[b] = AttachedIn(front, b) + AttachedIn(back, b) + Holds(Allocated, b)'
    BY DEF RefsBalanced, AttachedIn
  <2>1. ref[b] = AttachedIn(front, b) + AttachedIn(back, b) + Holds(Allocated, b)
    BY DEF RefInv, RefsBalanced, AttachedIn
  <2>2. ref'[b] = IF b = front[d] \/ b = back[d] THEN ref[b] + 1 ELSE ref[b]
    BY DEF Allocate
  <2>3. /\ AttachedIn(front, b) \in Nat /\ AttachedIn(back, b) \in Nat
        /\ Holds(Allocated, b) \in Nat
    BY AttachedType, HeldType
  <2> QED
    BY <1>4, <1>6, <2>1, <2>2, <2>3
<1> QED
  BY <1>7 DEF RefInv, BuffersDiffer

\* OMAPDRI2DestroyBuffer of both buffers of every command that ends.
LEMMA RetireRefs ==
  ASSUME IInv, RefInv, NEW done \in SUBSET Allocated, NEW flipped \in SUBSET Allocated,
         Retire(done, flipped), UNCHANGED <<front, back>>
  PROVE  RefInv'
<1>1. \A r \in CmdRec : /\ [r EXCEPT !.type = "flip"] \in CmdRec
                       /\ [r EXCEPT !.type = "flip"].src = r.src
                       /\ [r EXCEPT !.type = "flip"].dst = r.dst
  BY DEF CmdRec
<1>2. \A c \in Allocated : cmd[c] \in CmdRec
  BY DEF IInv, TypeOK, Allocated
<1>3. /\ \A c \in Allocated \ done : /\ cmd'[c] # None
                                    /\ cmd'[c].src = cmd[c].src /\ cmd'[c].dst = cmd[c].dst
      /\ \A c \in Cmd \ Allocated : cmd'[c] = None
      /\ \A c \in done : cmd'[c] = None
  BY <1>1, <1>2, SetsAssumption DEF Retire, Allocated
<1>4. Allocated' = Allocated \ done
  BY <1>3 DEF Allocated
<1>5. IsFiniteSet(Allocated)
  BY SetsAssumption, FS_Subset DEF Allocated
<1>6. ASSUME NEW b \in Buf
      PROVE  Holds(Allocated, b)' = Holds(Allocated, b) - Holds(done, b)
  <2> DEFINE R == {x \in Allocated : cmd[x].src = b}
             W == {x \in Allocated : cmd[x].dst = b}
             P == {x \in done : cmd[x].src = b}
             Q == {x \in done : cmd[x].dst = b}
  <2>1. IsFiniteSet(R) /\ IsFiniteSet(W) /\ P \in SUBSET R /\ Q \in SUBSET W
    BY <1>5, FS_Subset
  <2>2. /\ {x \in Allocated' : cmd'[x].src = b} = R \ P
        /\ {x \in Allocated' : cmd'[x].dst = b} = W \ Q
    BY <1>3, <1>4
  <2>3. Holds(Allocated, b)' = Cardinality(R \ P) + Cardinality(W \ Q)
    BY <2>2 DEF Holds
  <2>4. Holds(Allocated, b) = Cardinality(R) + Cardinality(W)
        /\ Holds(done, b) = Cardinality(P) + Cardinality(Q)
    BY DEF Holds
  <2> HIDE DEF R, W, P, Q
  <2>5. /\ Cardinality(R \ P) = Cardinality(R) - Cardinality(P)
        /\ Cardinality(W \ Q) = Cardinality(W) - Cardinality(Q)
    BY <2>1, CountDifference
  <2>6. IsFiniteSet(P) /\ IsFiniteSet(Q)
    BY <2>1, FS_Subset
  <2>7. /\ Cardinality(R) \in Nat /\ Cardinality(W) \in Nat
        /\ Cardinality(P) \in Nat /\ Cardinality(Q) \in Nat
    BY <2>1, <2>6, FS_CardinalityType
  <2> QED
    BY <2>3, <2>4, <2>5, <2>7
<1>7. RefsBalanced'
  <2> SUFFICES ASSUME NEW b \in Buf
               PROVE  ref'[b] = AttachedIn(front, b) + AttachedIn(back, b) + Holds(Allocated, b)'
    BY DEF RefsBalanced, AttachedIn
  <2>1. ref[b] = AttachedIn(front, b) + AttachedIn(back, b) + Holds(Allocated, b)
    BY DEF RefInv, RefsBalanced, AttachedIn
  <2>2. ref'[b] = ref[b] - Holds(done, b)
    BY DEF Retire
  <2>3. /\ AttachedIn(front, b) \in Nat /\ AttachedIn(back, b) \in Nat
        /\ Holds(Allocated, b) \in Nat
    BY AttachedType, HeldType
  <2>4. Holds(done, b) \in Nat
    BY <1>5, FS_Subset, HoldsType
  <2> QED
    BY <1>6, <2>1, <2>2, <2>3, <2>4
<1> QED
  BY <1>7 DEF RefInv, BuffersDiffer

\* A window whose buffers are dropped, and which may have got others.
LEMMA DropRefsBalance ==
  ASSUME IInv, RefInv, NEW d \in Window, NEW att, NEW att2,
         OnlyOf(d, front, att), OnlyOf(d, back, att2),
         att[d] = None, att2[d] = None, NEW b \in Buf
  PROVE  DropRefs({front[d], back[d]})[b]
           = AttachedIn(att, b) + AttachedIn(att2, b) + Holds(Allocated, b)
<1>1. AttachedIn(att, b) = AttachedIn(front, b) - (IF front[d] = b THEN 1 ELSE 0)
                                                + (IF att[d] = b THEN 1 ELSE 0)
  BY AttachOne
<1>2. AttachedIn(att2, b) = AttachedIn(back, b) - (IF back[d] = b THEN 1 ELSE 0)
                                                + (IF att2[d] = b THEN 1 ELSE 0)
  BY AttachOne
<1>3. None # b
  BY SetsAssumption
<1>4. /\ AttachedIn(front, b) \in Nat /\ AttachedIn(back, b) \in Nat
      /\ Holds(Allocated, b) \in Nat
  BY AttachedType, HeldType
<1>5. ref[b] = AttachedIn(front, b) + AttachedIn(back, b) + Holds(Allocated, b)
  BY DEF RefInv, RefsBalanced, AttachedIn
<1>6. ~(front[d] = b /\ back[d] = b)
  BY <1>3 DEF RefInv, BuffersDiffer
<1>7. DropRefs({front[d], back[d]})[b] = IF b = front[d] \/ b = back[d] THEN ref[b] - 1 ELSE ref[b]
  BY DEF DropRefs
<1> QED
  BY <1>1, <1>2, <1>3, <1>4, <1>5, <1>6, <1>7

\* DRI2GetBuffers attaches two buffers nobody held.
LEMMA GetBuffersRefs ==
  ASSUME IInv, RefInv, NEW d \in Window, NEW f \in Buf, NEW b \in Buf, GetBuffers(d, f, b)
  PROVE  RefInv'
<1> DEFINE att  == [front EXCEPT ![d] = None]
           att2 == [back EXCEPT ![d] = None]
<1>1. /\ f \in Unused /\ b \in Unused /\ f # b
      /\ front' = [front EXCEPT ![d] = f] /\ back' = [back EXCEPT ![d] = b]
      /\ ref' = [DropRefs({front[d], back[d]}) EXCEPT ![f] = 1, ![b] = 1]
      /\ UNCHANGED cmd
  BY DEF GetBuffers, Fresh
<1>2. /\ OnlyOf(d, front, att) /\ OnlyOf(d, back, att2)
      /\ att[d] = None /\ att2[d] = None
      /\ OnlyOf(d, att, front') /\ OnlyOf(d, att2, back')
      /\ front'[d] = f /\ back'[d] = b
      /\ \A e \in Window \ {d} : front'[e] = front[e] /\ back'[e] = back[e]
  BY <1>1 DEF IInv, TypeOK, OnlyOf
<1>3. None # f /\ None # b
  BY SetsAssumption
<1>4. \A x \in {f, b} : ref[x] = 0 /\ x # front[d] /\ x # back[d]
  BY <1>1, UnusedIsFree DEF Unused
<1> HIDE DEF att, att2
<1>5. BuffersDiffer'
  BY <1>1, <1>2 DEF RefInv, BuffersDiffer, IInv, TypeOK
<1>6. RefsBalanced'
  <2> SUFFICES ASSUME NEW x \in Buf
               PROVE  ref'[x] = AttachedIn(front', x) + AttachedIn(back', x) + Holds(Allocated, x)
    BY <1>1 DEF RefsBalanced, AttachedIn, Holds, Allocated
  <2> DEFINE D == DropRefs({front[d], back[d]})
  <2>1. D[x] = AttachedIn(att, x) + AttachedIn(att2, x) + Holds(Allocated, x)
    BY <1>2, DropRefsBalance
  <2>2. AttachedIn(front', x) = AttachedIn(att, x) - (IF att[d] = x THEN 1 ELSE 0)
                                                  + (IF front'[d] = x THEN 1 ELSE 0)
    BY <1>2, AttachOne
  <2>3. AttachedIn(back', x) = AttachedIn(att2, x) - (IF att2[d] = x THEN 1 ELSE 0)
                                                  + (IF back'[d] = x THEN 1 ELSE 0)
    BY <1>2, AttachOne
  <2>4. x \in {f, b} => D[x] = 0
    BY <1>4 DEF DropRefs
  <2>5. ref'[x] = IF x \in {f, b} THEN 1 ELSE D[x]
    BY <1>1 DEF DropRefs
  <2>6. /\ AttachedIn(att, x) \in Nat /\ AttachedIn(att2, x) \in Nat
        /\ Holds(Allocated, x) \in Nat
    BY AttachedType, HeldType
  <2>7. None # x
    BY SetsAssumption
  <2> HIDE DEF D
  <2> QED
    BY <1>1, <1>2, <2>1, <2>2, <2>3, <2>4, <2>5, <2>6, <2>7
<1> QED
  BY <1>5, <1>6 DEF RefInv

\* A window loses its buffers.
LEMMA DetachedRefs ==
  ASSUME IInv, RefInv, NEW d \in Window,
         front' = [front EXCEPT ![d] = None], back' = [back EXCEPT ![d] = None],
         ref' = DropRefs({front[d], back[d]}), UNCHANGED cmd
  PROVE  RefInv'
<1>1. /\ OnlyOf(d, front, front') /\ OnlyOf(d, back, back')
      /\ front'[d] = None /\ back'[d] = None
  BY DEF IInv, TypeOK, OnlyOf
<1>2. BuffersDiffer'
  BY <1>1 DEF RefInv, BuffersDiffer, OnlyOf
<1>3. RefsBalanced'
  <2> SUFFICES ASSUME NEW b \in Buf
               PROVE  DropRefs({front[d], back[d]})[b]
                        = AttachedIn(front', b) + AttachedIn(back', b) + Holds(Allocated, b)
    BY DEF RefsBalanced, AttachedIn, Holds, Allocated
  <2> DEFINE att  == front'
             att2 == back'
  <2>1. OnlyOf(d, front, att) /\ OnlyOf(d, back, att2) /\ att[d] = None /\ att2[d] = None
    BY <1>1
  <2> HIDE DEF att, att2
  <2>2. DropRefs({front[d], back[d]})[b]
          = AttachedIn(att, b) + AttachedIn(att2, b) + Holds(Allocated, b)
    BY <2>1, DropRefsBalance
  <2> QED
    BY <2>2 DEF att, att2
<1> QED
  BY <1>2, <1>3 DEF RefInv

\* A swap that completes drops the references of what completes with it.
LEMMA SwapCompleteRefs ==
  ASSUME IInv, RefInv, NEW p \in Live, SwapComplete(flip[p].priv, {p}), UNCHANGED <<front, back>>
  PROVE  RefInv'
<1> DEFINE c == flip[p].priv
           w == queued[cmd[c].draw_id]
<1>1. c \in Allocated
  BY LastFlip
<1>2. Unqueue(cmd[c].draw_id) => w \in Allocated
  BY QueuedCommand
<1>3. CASE CompleteOrphan(c, {p}) \/ CompleteLast(c, {p})
  <2>1. Retire({c}, {})
    BY <1>3 DEF CompleteOrphan, CompleteLast, Finish
  <2>2. {c} \in SUBSET Allocated /\ {} \in SUBSET Allocated
    BY <1>1
  <2> HIDE DEF c
  <2> QED
    BY <2>1, <2>2, RetireRefs
<1>4. CASE CompleteThenFlip(c, {p})
  <2>1. Retire({c}, {w}) /\ w \in Allocated
    BY <1>2, <1>4 DEF CompleteThenFlip
  <2>2. {c} \in SUBSET Allocated /\ {w} \in SUBSET Allocated
    BY <1>1, <2>1
  <2> HIDE DEF c, w
  <2> QED
    BY <2>1, <2>2, RetireRefs
<1>5. CASE CompleteBoth(c, {p})
  <2>1. Retire({c, w}, {}) /\ w \in Allocated
    BY <1>2, <1>5 DEF CompleteBoth, Finish
  <2>2. {c, w} \in SUBSET Allocated /\ {} \in SUBSET Allocated
    BY <1>1, <2>1
  <2> HIDE DEF c, w
  <2> QED
    BY <2>1, <2>2, RetireRefs
<1> QED
  BY <1>3, <1>4, <1>5 DEF SwapComplete

\* Every step keeps the reference counts balanced.
LEMMA RefStep == IInv /\ RefInv /\ [Next]_vars => RefInv'
<1> SUFFICES ASSUME IInv, RefInv, [Next]_vars PROVE RefInv'
  OBVIOUS
<1> USE DEF driVars, heapVars, flipVars, coreVars, screenVars
<1>1. ASSUME NEW d \in Window, ScheduleSwap(d) PROVE RefInv'
  <2>1. CASE ScheduleCopy(d)
    BY <2>1, RefsKept DEF ScheduleCopy
  <2>2. ASSUME NEW c \in Cmd, ScheduleQueued(d, c) PROVE RefInv'
    BY <2>2, AllocateRefs DEF ScheduleQueued
  <2>3. ASSUME NEW c \in Cmd, ScheduleRefused(d, c) PROVE RefInv'
    BY <2>3, AllocateRefs DEF ScheduleRefused
  <2>4. ASSUME NEW c \in Cmd, ScheduleFlip(d, c) PROVE RefInv'
    BY <2>4, AllocateRefs DEF ScheduleFlip
  <2> QED
    BY <1>1, <2>1, <2>2, <2>3, <2>4 DEF ScheduleSwap
<1>2. ASSUME NEW d \in Window, NEW f \in Buf, NEW b \in Buf, GetBuffers(d, f, b) PROVE RefInv'
  BY <1>2, GetBuffersRefs
<1>3. ASSUME NEW d \in Window, Detach(d) PROVE RefInv'
  BY <1>3, DetachedRefs DEF Detach
<1>4. ASSUME NEW d \in Window, DestroyWindow(d) PROVE RefInv'
  BY <1>4, DetachedRefs DEF DestroyWindow
<1>5. ASSUME NEW d \in Window, CreateWindow(d) PROVE RefInv'
  BY <1>5, RefsKept DEF CreateWindow
<1>6. CASE RandR
  BY <1>6, RefsKept DEF RandR, SetCrtc, Rotate, Resize, DisableCrtc
<1>7. CASE Kernel
  BY <1>7, RefsKept DEF Kernel, Vblank
<1>8. CASE HandleCounted \/ HandleFreed
  BY <1>8, RefsKept DEF HandleCounted, HandleFreed
<1>9. CASE HandleLast
  <2>1. PICK p \in Live : SwapComplete(flip[p].priv, {p}) /\ UNCHANGED <<front, back>>
    BY <1>9 DEF HandleLast
  <2> QED
    BY <2>1, SwapCompleteRefs
<1>10. CASE BeginClose \/ FinishClose
  BY <1>10, RefsKept DEF BeginClose, FinishClose, MoveTo
<1>11. CASE Stopped \/ UNCHANGED vars
  BY <1>11, RefsKept DEF Stopped, vars
<1>12. CASE Client
  BY <1>1, <1>2, <1>3, <1>4, <1>5, <1>12 DEF Client
<1> QED
  BY <1>6, <1>7, <1>8, <1>9, <1>10, <1>11, <1>12 DEF Next, HandleEvent

\* At first no buffer exists.
LEMMA RefBase == Init => RefInv
<1> SUFFICES ASSUME Init PROVE RefInv
  OBVIOUS
<1>1. BuffersDiffer
  BY DEF Init, BuffersDiffer
<1>2. ASSUME NEW b \in Buf
      PROVE  /\ ref[b] = 0 /\ {d \in Window : front[d] = b} = {}
             /\ {d \in Window : back[d] = b} = {}
             /\ {c \in Allocated : cmd[c].src = b} = {}
             /\ {c \in Allocated : cmd[c].dst = b} = {}
  BY SetsAssumption DEF Init, Allocated
<1>3. RefsBalanced
  <2>1. ASSUME NEW b \in Buf
        PROVE  /\ ref[b] = 0 /\ Cardinality({d \in Window : front[d] = b}) = 0
               /\ Cardinality({d \in Window : back[d] = b}) = 0
               /\ Holds(Allocated, b) = 0 + 0
    BY <1>2, FS_EmptySet, Zenon DEF Holds
  <2> QED
    BY <2>1 DEF RefsBalanced
<1> QED
  BY <1>1, <1>3 DEF RefInv

\* The reference counts of omap_dri2.c balance, whatever the kernel, the clients
\* and RandR do: a buffer's refcnt is the number of places that hold it, so that
\* OMAPDRI2DestroyBuffer frees it at the last release and never before.
THEOREM ReferencesBalance == Spec => []RefsBalanced
<1>1. RefInv => RefsBalanced
  BY DEF RefInv
<1> QED
  BY <1>1, RefBase, RefStep, Invariant, PTL DEF Spec

-----------------------------------------------------------------------------
(* Framebuffers *)

\* All a page flip writes, apart from what the CRTCs are told.
LEMMA PageFlipMakes ==
  ASSUME IInv, NEW c \in Cmd, NEW gone \in SUBSET Live, PageFlip(c, gone)
  PROVE  \E p \in Flip \ Live, f \in Fb \ fbs :
           /\ Live' = (Live \ gone) \cup {p}
           /\ flip'[p].old_fb_id = fb_id
           /\ flip'[p].flip_count = Cardinality(enabled)
           /\ \A q \in Live \ gone : flip'[q] = flip[q]
           /\ fbs' = (fbs \cup {f}) \ OldFbs(gone)
           /\ fb_id' = f
           /\ \A k \in enabled : pend[k] = None
           /\ FlipOn(enabled, p, f)
<1> DEFINE n == Cardinality(enabled)
           new == [priv |-> c, old_fb_id |-> fb_id, flip_count |-> n]
<1>1. PICK p \in Flip \ Live, f \in Fb :
        /\ Fresh(f, Fb \ fbs)
        /\ \A k \in enabled : pend[k] = None
        /\ flip' = [q \in Flip |-> IF q = p THEN new
                                   ELSE IF q \in gone THEN None ELSE flip[q]]
        /\ fbs' = (fbs \cup {f}) \ OldFbs(gone)
        /\ fb_id' = f
        /\ FlipOn(enabled, p, f)
  BY DEF PageFlip, FlipAll
<1>2. new \in FlipRec
  BY EnabledCount DEF IInv, TypeOK, FlipRec
<1>3. new # None
  BY <1>2, SetsAssumption
<1>4. Live' = (Live \ gone) \cup {p}
  BY <1>1, <1>3 DEF Live
<1>5. \A q \in Live \ gone : flip'[q] = flip[q]
  BY <1>1 DEF Live
<1>6. flip'[p].old_fb_id = fb_id /\ flip'[p].flip_count = n
  BY <1>1
<1>7. f \in Fb \ fbs
  BY <1>1 DEF Fresh
<1> QED
  BY <1>1, <1>4, <1>5, <1>6, <1>7

\* A page flip adds the framebuffer it made, and keeps the one it replaces for
\* its handler to remove.
LEMMA PageFlipFbs ==
  ASSUME IInv, FbsAccounted, NEW c \in Cmd, NEW gone \in SUBSET Live, PageFlip(c, gone)
  PROVE  FbsAccounted'
<1>1. PICK p \in Flip \ Live, f \in Fb \ fbs :
        /\ Live' = (Live \ gone) \cup {p}
        /\ flip'[p].old_fb_id = fb_id
        /\ \A q \in Live \ gone : flip'[q] = flip[q]
        /\ fbs' = (fbs \cup {f}) \ OldFbs(gone)
        /\ fb_id' = f
  BY PageFlipMakes
<1>2. OldFbs(Live)' = OldFbs(Live \ gone) \cup {fb_id}
  BY <1>1 DEF OldFbs
<1>3. /\ fbs = ({fb_id} \cup OldFbs(Live)) \ {None}
      /\ OldFbs(Live) = OldFbs(gone) \cup OldFbs(Live \ gone)
  BY DEF FbsAccounted, OldFbs
<1>4. \A x \in OldFbs(gone) : x # None => x # fb_id /\ x \notin OldFbs(Live \ gone)
  BY DEF FbsAccounted, OldFbs
<1>5. f # None
  BY SetsAssumption
<1>6. fbs' = ({f} \cup OldFbs(Live)') \ {None}
  BY <1>1, <1>2, <1>3, <1>4, <1>5
<1>7. f \notin OldFbs(Live)'
  BY <1>2, <1>3, <1>5
<1>8. \A q, r \in Live' :
        flip'[q].old_fb_id = flip'[r].old_fb_id /\ flip'[q].old_fb_id # None => q = r
  BY <1>1 DEF FbsAccounted, OldFbs
<1> QED
  BY <1>1, <1>6, <1>7, <1>8 DEF FbsAccounted

\* drmModeRmFB at the end of the handler removes what the finished flip replaced.
LEMMA FreeFlipdataFbs ==
  ASSUME FbsAccounted, NEW p \in Live, FreeFlipdata({p})
  PROVE  FbsAccounted'
<1>1. Live' = Live \ {p} /\ \A q \in Live \ {p} : flip'[q] = flip[q]
  BY FreeFlipdataLive
<1>2. fbs' = fbs \ OldFbs({p}) /\ fb_id' = fb_id
  BY DEF FreeFlipdata
<1>3. OldFbs(Live)' = OldFbs(Live \ {p})
  BY <1>1 DEF OldFbs
<1>4. /\ fbs = ({fb_id} \cup OldFbs(Live)) \ {None}
      /\ OldFbs(Live) = OldFbs({p}) \cup OldFbs(Live \ {p})
  BY DEF FbsAccounted, OldFbs
<1>5. \A x \in OldFbs({p}) : x # None => x # fb_id /\ x \notin OldFbs(Live \ {p})
  BY DEF FbsAccounted, OldFbs
<1>6. fbs' = ({fb_id} \cup OldFbs(Live \ {p})) \ {None}
  BY <1>2, <1>4, <1>5
<1>7. fb_id # None => fb_id \notin OldFbs(Live \ {p})
  BY <1>4 DEF FbsAccounted
<1>8. \A q, r \in Live' :
        flip'[q].old_fb_id = flip'[r].old_fb_id /\ flip'[q].old_fb_id # None => q = r
  BY <1>1 DEF FbsAccounted
<1> QED
  BY <1>2, <1>3, <1>6, <1>7, <1>8 DEF FbsAccounted

\* Steps that leave framebuffers and the flips under way alone.
LEMMA FbsKept ==
  ASSUME FbsAccounted, UNCHANGED <<flip, fbs, fb_id>>
  PROVE  FbsAccounted'
BY DEF FbsAccounted, OldFbs, Live

\* The framebuffer that drmmode_restore_crtc needs is there or made.
LEMMA SetCrtcFbs ==
  ASSUME FbsAccounted, NEW k \in Crtc, SetCrtc(k)
  PROVE  FbsAccounted'
<1>1. PICK f \in Fb : AddFb(f) /\ fb_id' = f /\ fbs' = fbs \cup {f}
  BY DEF SetCrtc
<1>2. OldFbs(Live)' = OldFbs(Live) /\ Live' = Live /\ flip' = flip
  BY DEF SetCrtc, OldFbs, Live
<1>3. f # None /\ (fb_id = None => f \in Fb \ fbs) /\ (fb_id # None => f = fb_id)
  BY <1>1, SetsAssumption DEF AddFb, Fresh
<1> QED
  BY <1>1, <1>2, <1>3 DEF FbsAccounted

\* The scanout buffer is replaced: the current framebuffer is removed, and what
\* the flips under way will remove is left to them.
LEMMA ReplaceFbFbs ==
  ASSUME FbsAccounted, NEW f, NEW lit, f = None \/ f \in Fb \ (fbs \ {fb_id}),
         ReplaceFb(f, lit), UNCHANGED flip
  PROVE  FbsAccounted'
<1>1. OldFbs(Live)' = OldFbs(Live) /\ Live' = Live
  BY DEF OldFbs, Live
<1>2. fb_id' = f /\ fbs' = (fbs \ {fb_id}) \cup ({f} \ {None})
  BY DEF ReplaceFb
<1>3. fbs \ {fb_id} = OldFbs(Live) \ {None}
  BY DEF FbsAccounted
<1> QED
  BY <1>1, <1>2, <1>3 DEF FbsAccounted

\* A rotation replaces the framebuffer by a new one or none, a resize by none.
LEMMA Replaces ==
  ASSUME Resize \/ \E k \in Crtc : Rotate(k)
  PROVE  \E f \in Fb \cup {None} : \E lit :
           /\ f = None \/ f \in Fb \ (fbs \ {fb_id})
           /\ ReplaceFb(f, lit)
           /\ enabled \subseteq enabled' /\ enabled' \subseteq enabled \cup lit
           /\ UNCHANGED <<flip, events>>
<1>1. CASE Resize
  BY <1>1 DEF Resize
<1>2. ASSUME NEW k \in Crtc, Rotate(k)
      PROVE  \E f \in Fb \cup {None} : \E lit :
               /\ f = None \/ f \in Fb \ (fbs \ {fb_id})
               /\ ReplaceFb(f, lit)
               /\ enabled \subseteq enabled' /\ enabled' \subseteq enabled \cup lit
               /\ UNCHANGED <<flip, events>>
  <2>1. PICK f \in Fb \cup {None}, lit \in SUBSET (enabled \cup {k}) :
          /\ IF f = None THEN lit = {} ELSE Fresh(f, Fb \ (fbs \ {fb_id}))
          /\ ReplaceFb(f, lit)
          /\ enabled' = enabled \cup (lit \cap {k})
    BY <1>2 DEF Rotate
  <2>2. f = None \/ f \in Fb \ (fbs \ {fb_id})
    BY <2>1 DEF Fresh
  <2>3. UNCHANGED <<flip, events>>
    BY <1>2 DEF Rotate
  <2> QED
    BY <2>1, <2>2, <2>3
<1> QED
  BY <1>1, <1>2

\* With nothing to free, the flip data stays as it is.
LEMMA FreeNothing ==
  ASSUME IInv, FreeFlipdata({})
  PROVE  UNCHANGED <<flip, fbs, fb_id>>
BY DEF FreeFlipdata, OldFbs, IInv, TypeOK

\* A completion either dispatches a flip or only frees the flip data.
LEMMA SwapCompleteFlips ==
  ASSUME IInv, NEW p \in Live, SwapComplete(flip[p].priv, {p})
  PROVE  \/ FreeFlipdata({p}) /\ (UNCHANGED pend \/ LateFailure)
         \/ \E w \in Cmd : PageFlip(w, {p})
<1> DEFINE c == flip[p].priv
           w == queued[cmd[c].draw_id]
<1>1. Unqueue(cmd[c].draw_id) => w \in Cmd
  BY QueuedCommand
<1>2. CASE CompleteThenFlip(c, {p})
  BY <1>1, <1>2 DEF CompleteThenFlip
<1>3. CASE CompleteOrphan(c, {p}) \/ CompleteLast(c, {p}) \/ CompleteBoth(c, {p})
  BY <1>3 DEF CompleteOrphan, CompleteLast, CompleteBoth, NoPageFlip
<1> QED
  BY <1>2, <1>3 DEF SwapComplete

\* An event that is not the last of its flip only lowers a count.
LEMMA CountedFlips ==
  ASSUME IInv, HandleCounted
  PROVE  /\ Live' = Live
         /\ \A q \in Live : flip'[q].old_fb_id = flip[q].old_fb_id
         /\ \A q \in Live : flip'[q].priv = flip[q].priv
         /\ \A q \in Live \ {Head(events)} : flip'[q] = flip[q]
         /\ Head(events) \in Live
         /\ flip[Head(events)].flip_count \in Int
         /\ flip[Head(events)].flip_count > 1
         /\ flip'[Head(events)].flip_count = flip[Head(events)].flip_count - 1
<1> DEFINE p == Head(events)
<1>1. /\ p \in Live /\ flip' = [flip EXCEPT ![p].flip_count = @ - 1]
      /\ flip[p].flip_count > 1
  BY DEF HandleCounted
<1>2. flip[p] \in FlipRec /\ p \in Flip
  BY <1>1 DEF IInv, TypeOK, Live
<1>3. /\ [flip[p] EXCEPT !.flip_count = @ - 1] \in FlipRec
      /\ [flip[p] EXCEPT !.flip_count = @ - 1].old_fb_id = flip[p].old_fb_id
      /\ [flip[p] EXCEPT !.flip_count = @ - 1].priv = flip[p].priv
      /\ [flip[p] EXCEPT !.flip_count = @ - 1].flip_count = flip[p].flip_count - 1
  BY <1>2 DEF FlipRec
<1>4. /\ \A q \in Flip \ {p} : flip'[q] = flip[q]
      /\ flip'[p] = [flip[p] EXCEPT !.flip_count = @ - 1]
  BY <1>1, <1>2 DEF IInv, TypeOK
<1>5. Live' = Live
  BY <1>1, <1>2, <1>3, <1>4, SetsAssumption DEF Live
<1> QED
  BY <1>1, <1>2, <1>3, <1>4, <1>5 DEF Live, FlipRec

\* Every step keeps the framebuffers accounted for.
LEMMA FbsStep == IInv /\ FbsAccounted /\ [Next]_vars => FbsAccounted'
<1> SUFFICES ASSUME IInv, FbsAccounted, [Next]_vars PROVE FbsAccounted'
  OBVIOUS
<1>1. ASSUME NEW d \in Window, ScheduleSwap(d) PROVE FbsAccounted'
  <2>1. CASE ScheduleCopy(d)
    BY <2>1, FreeNothing, FbsKept DEF ScheduleCopy, NoPageFlip
  <2>2. ASSUME NEW c \in Cmd, ScheduleQueued(d, c) \/ ScheduleRefused(d, c) PROVE FbsAccounted'
    BY <2>2, FbsKept DEF ScheduleQueued, ScheduleRefused, flipVars
  <2>3. ASSUME NEW c \in Cmd, ScheduleFlip(d, c) PROVE FbsAccounted'
    <3>1. PageFlip(c, {}) /\ {} \in SUBSET Live
      BY <2>3 DEF ScheduleFlip
    <3> QED
      BY <3>1, PageFlipFbs
  <2> QED
    BY <1>1, <2>1, <2>2, <2>3 DEF ScheduleSwap
<1>2. CASE HandleCounted
  <2>1. fbs' = fbs /\ fb_id' = fb_id
    BY <1>2 DEF HandleCounted
  <2>2. Live' = Live /\ \A q \in Live : flip'[q].old_fb_id = flip[q].old_fb_id
    BY <1>2, CountedFlips
  <2> QED
    BY <2>1, <2>2 DEF FbsAccounted, OldFbs
<1>3. CASE HandleLast
  <2>1. PICK p \in Live : SwapComplete(flip[p].priv, {p})
    BY <1>3 DEF HandleLast
  <2>2. CASE FreeFlipdata({p})
    BY <2>2, FreeFlipdataFbs
  <2>3. ASSUME NEW w \in Cmd, PageFlip(w, {p}) PROVE FbsAccounted'
    <3>1. {p} \in SUBSET Live
      OBVIOUS
    <3> QED
      BY <2>3, <3>1, PageFlipFbs
  <2> QED
    BY <2>1, <2>2, <2>3, SwapCompleteFlips
<1>4. ASSUME NEW d \in Window,
             \/ Detach(d) \/ DestroyWindow(d) \/ CreateWindow(d)
             \/ \E f, b \in Buf : GetBuffers(d, f, b)
      PROVE  FbsAccounted'
  BY <1>4, FbsKept DEF Detach, DestroyWindow, CreateWindow, GetBuffers, flipVars
<1>5. CASE RandR \/ Kernel
  <2>1. ASSUME NEW k \in Crtc, SetCrtc(k) PROVE FbsAccounted'
    BY <2>1, SetCrtcFbs
  <2>2. ASSUME Resize \/ \E k \in Crtc : Rotate(k) PROVE FbsAccounted'
    BY <2>2, Replaces, ReplaceFbFbs
  <2>3. ASSUME NEW k \in Crtc, DisableCrtc(k) \/ Vblank(k) PROVE FbsAccounted'
    BY <2>3, FbsKept DEF DisableCrtc, Vblank, flipVars
  <2> QED
    BY <1>5, <2>1, <2>2, <2>3 DEF RandR, Kernel
<1>6. CASE HandleFreed \/ BeginClose \/ FinishClose \/ Stopped \/ UNCHANGED vars
  BY <1>6, FbsKept DEF HandleFreed, BeginClose, FinishClose, MoveTo, Stopped, vars, flipVars
<1>7. CASE Client
  BY <1>1, <1>4, <1>7 DEF Client
<1> QED
  BY <1>2, <1>3, <1>5, <1>6, <1>7 DEF Next, HandleEvent

\* At first there is one framebuffer and no flip.
LEMMA FbsBase == Init => FbsAccounted
<1> SUFFICES ASSUME Init PROVE FbsAccounted
  OBVIOUS
<1>1. Live = {}
  BY DEF Init, Live
<1>2. OldFbs(Live) = {}
  BY <1>1 DEF OldFbs
<1>3. fb_id \in Fb /\ fb_id # None
  BY SetsAssumption DEF Init, Fresh
<1> QED
  BY <1>1, <1>2, <1>3 DEF Init, FbsAccounted

\* The framebuffers that exist are the current one and, for each flip under way,
\* the one its handler will remove: drmmode_page_flip, page_flip_handler and the
\* replacement of the scanout buffer leak none and remove none twice, even when
\* flips fail half way, and when the current one goes while flips to it pend.
THEOREM FramebuffersAccounted == Spec => []FbsAccounted
BY FbsBase, FbsStep, Invariant, PTL DEF Spec

-----------------------------------------------------------------------------
(* Events *)

Owed(p) == {k \in Crtc : pend[k] # None /\ pend[k].data = p}

PlacesOf(s, p) == {i \in 1 .. Len(s) : s[i] = p}

\* Every event the kernel owes or has sent is one its flip still waits for, and
\* a flip data address that is free is named by none.
EventsMatched ==
  \A p \in Flip : Outstanding(p) = IF p \in Live THEN flip[p].flip_count ELSE 0

\* What a CRTC will flip to is the current framebuffer, or it will be switched off
\* because that was removed;
FlipsPending ==
  \A k \in Crtc : pend[k] # None => k \in enabled /\ pend[k].fb \in {fb_id, None}

\* and what it shows meanwhile is the one this flip replaces.
ScansShown ==
  \A k \in enabled :
    scan[k] \in {None, IF pend[k] = None THEN fb_id ELSE flip[pend[k].data].old_fb_id}

KernInv == EventsMatched /\ FlipsPending /\ ScansShown

\* The places in a sequence are finitely many.
LEMMA PlacesFinite ==
  ASSUME NEW s \in Seq(Flip), NEW p
  PROVE  IsFiniteSet(PlacesOf(s, p)) /\ Cardinality(PlacesOf(s, p)) \in Nat
<1>1. Len(s) \in Nat
  OBVIOUS
<1>2. IsFiniteSet(1 .. Len(s))
  BY <1>1, FS_Interval
<1> QED
  BY <1>2, FS_Subset, FS_CardinalityType DEF PlacesOf

\* One event more.
LEMMA AppendPlaces ==
  ASSUME NEW s \in Seq(Flip), NEW q \in Flip, NEW p
  PROVE  Cardinality(PlacesOf(Append(s, q), p))
           = Cardinality(PlacesOf(s, p)) + (IF q = p THEN 1 ELSE 0)
<1> DEFINE t == Append(s, q)
           n == Len(s) + 1
<1>1. /\ t \in Seq(Flip) /\ Len(t) = n /\ t[n] = q /\ Len(s) \in Nat
      /\ \A i \in 1 .. Len(s) : t[i] = s[i]
  OBVIOUS
<1> HIDE DEF t
<1>2. \A i \in 1 .. Len(t) : i = n \/ i \in 1 .. Len(s)
  BY <1>1
<1>3. PlacesOf(t, p) = PlacesOf(s, p) \cup (IF q = p THEN {n} ELSE {})
  BY <1>1, <1>2 DEF PlacesOf
<1>4. n \notin PlacesOf(s, p)
  BY <1>1 DEF PlacesOf
<1>5. IsFiniteSet(PlacesOf(s, p)) /\ Cardinality(PlacesOf(s, p)) \in Nat
  BY PlacesFinite
<1>6. Cardinality(PlacesOf(s, p) \cup {n}) = Cardinality(PlacesOf(s, p)) + 1
  BY <1>4, <1>5, FS_AddElement
<1>7. CASE q = p
  BY <1>3, <1>6, <1>7 DEF t
<1>8. CASE q # p
  <2>1. PlacesOf(t, p) = PlacesOf(s, p)
    BY <1>3, <1>8
  <2> QED
    BY <1>5, <1>8, <2>1 DEF t
<1> QED
  BY <1>7, <1>8

\* The oldest event less: the places of the others move by one.
LEMMA TailPlaces ==
  ASSUME NEW s \in Seq(Flip), s # <<>>, NEW p
  PROVE  Cardinality(PlacesOf(Tail(s), p))
           = Cardinality(PlacesOf(s, p)) - (IF Head(s) = p THEN 1 ELSE 0)
<1> DEFINE t == Tail(s)
           B == PlacesOf(t, p)
           C == PlacesOf(s, p) \ {1}
           f == [i \in B |-> i + 1]
<1>1. /\ t \in Seq(Flip) /\ Len(t) = Len(s) - 1 /\ Len(s) \in Nat \ {0} /\ Head(s) = s[1]
      /\ \A i \in 1 .. Len(t) : t[i] = s[i + 1]
  OBVIOUS
<1> HIDE DEF t
<1>2. f \in [B -> C]
  <2>1. \A i \in B : i + 1 \in 1 .. Len(s) /\ i + 1 # 1 /\ s[i + 1] = p
    BY <1>1 DEF PlacesOf
  <2> QED
    BY <2>1 DEF PlacesOf
<1>3. \A j \in C : \E i \in B : f[i] = j
  <2>1. \A j \in C : j - 1 \in B /\ (j - 1) + 1 = j
    BY <1>1 DEF PlacesOf
  <2> QED
    BY <2>1
<1>4. \A i, j \in B : f[i] = f[j] => i = j
  BY <1>1 DEF PlacesOf
<1>5. f \in Bijection(B, C)
  <2> HIDE DEF f, B, C
  <2> QED
    BY <1>2, <1>3, <1>4, Fun_IsBij
<1>6. IsFiniteSet(B) /\ IsFiniteSet(PlacesOf(s, p)) /\ Cardinality(PlacesOf(s, p)) \in Nat
  BY <1>1, PlacesFinite
<1>7. Cardinality(C) = Cardinality(B)
  BY <1>5, <1>6, FS_Bijection DEF ExistsBijection
<1>8. 1 \in PlacesOf(s, p) <=> Head(s) = p
  BY <1>1 DEF PlacesOf
<1>9. Cardinality(C) = IF 1 \in PlacesOf(s, p) THEN Cardinality(PlacesOf(s, p)) - 1
                       ELSE Cardinality(PlacesOf(s, p))
  BY <1>6, FS_RemoveElement
<1> QED
  BY <1>6, <1>7, <1>8, <1>9 DEF t

\* What is outstanding, in parts.
LEMMA OutstandingParts ==
  ASSUME IInv, NEW p
  PROVE  /\ Outstanding(p) = Cardinality(Owed(p)) + Cardinality(PlacesOf(events, p))
         /\ IsFiniteSet(Owed(p)) /\ Cardinality(Owed(p)) \in Nat
         /\ IsFiniteSet(PlacesOf(events, p)) /\ Cardinality(PlacesOf(events, p)) \in Nat
<1>1. IsFiniteSet(Crtc)
  BY FS_Interval, NumbersAssumption DEF Crtc
<1>2. IsFiniteSet(Owed(p)) /\ Cardinality(Owed(p)) \in Nat
  BY <1>1, FS_Subset, FS_CardinalityType DEF Owed
<1>3. IsFiniteSet(PlacesOf(events, p)) /\ Cardinality(PlacesOf(events, p)) \in Nat
  BY PlacesFinite DEF IInv, TypeOK
<1> QED
  BY <1>2, <1>3 DEF Outstanding, Owed, PlacesOf

\* Nothing is outstanding only if nobody owes or has sent anything.
LEMMA NoneOutstanding ==
  ASSUME IInv, NEW p, Outstanding(p) = 0
  PROVE  Owed(p) = {} /\ PlacesOf(events, p) = {}
<1>1. Cardinality(Owed(p)) = 0 /\ Cardinality(PlacesOf(events, p)) = 0
  BY OutstandingParts
<1> QED
  BY <1>1, OutstandingParts, FS_EmptySet

\* What the kernel owes and has sent after a step, in parts.
LEMMA OutstandingNext ==
  ASSUME NEW p
  PROVE  Outstanding(p)' = Cardinality(Owed(p)') + Cardinality(PlacesOf(events', p))
BY DEF Outstanding, Owed, PlacesOf

\* Steps that touch neither flips nor CRTCs nor events.
LEMMA KernKept ==
  ASSUME KernInv, UNCHANGED <<flip, fb_id, pend, enabled, scan, events>>
  PROVE  KernInv'
BY DEF KernInv, EventsMatched, FlipsPending, ScansShown, Outstanding, Live

\* The flip data at p, if any, is freed: nothing names it any more.
Forgets(gone) ==
  /\ \A q \in gone : Owed(q) = {} /\ PlacesOf(events', q) = {}
  /\ \A q \in Flip \ gone :
       Cardinality(PlacesOf(events', q)) = Cardinality(PlacesOf(events, q))

\* drmmode_page_flip on every CRTC that is enabled: no other owes a flip.
LEMMA PageFlipKern ==
  ASSUME IInv, KernInv, NEW c \in Cmd, NEW gone \in SUBSET Live, PageFlip(c, gone),
         Forgets(gone), UNCHANGED <<enabled, scan>>
  PROVE  KernInv'
<1>1. PICK p \in Flip \ Live, f \in Fb \ fbs :
        /\ Live' = (Live \ gone) \cup {p}
        /\ flip'[p].old_fb_id = fb_id
        /\ flip'[p].flip_count = Cardinality(enabled)
        /\ \A q \in Live \ gone : flip'[q] = flip[q]
        /\ fb_id' = f
        /\ \A k \in enabled : pend[k] = None
        /\ FlipOn(enabled, p, f)
  BY PageFlipMakes
<1>2. /\ enabled \subseteq Crtc
      /\ \A k \in Crtc : pend[k] = None
      /\ p \notin gone
      /\ gone \subseteq Flip
  BY <1>1 DEF KernInv, FlipsPending, IInv, TypeOK, Live
<1>3. /\ \A k \in enabled : pend'[k] # None /\ pend'[k].data = p /\ pend'[k].fb = f
      /\ \A k \in Crtc \ enabled : pend'[k] = None
  <2>1. [data |-> p, fb |-> f] \in PendRec
    BY DEF PendRec
  <2>2. [data |-> p, fb |-> f] # None
    BY <2>1, SetsAssumption
  <2>3. /\ \A k \in enabled : pend'[k] = [data |-> p, fb |-> f]
        /\ \A k \in Crtc \ enabled : pend'[k] = pend[k]
    BY <1>1, <1>2 DEF FlipOn
  <2> QED
    BY <1>2, <2>2, <2>3
<1>4. /\ Owed(p)' = enabled
      /\ \A q : Owed(q) = {}
      /\ \A q \in Flip \ {p} : Owed(q)' = {}
  BY <1>2, <1>3 DEF Owed
<1>5. \A q \in Flip : Outstanding(q) = Cardinality(PlacesOf(events, q))
  <2> SUFFICES ASSUME NEW q \in Flip
               PROVE  Outstanding(q) = Cardinality(PlacesOf(events, q))
    OBVIOUS
  <2>1. Cardinality(Owed(q)) = 0
    BY <1>4, FS_EmptySet
  <2> QED
    BY <2>1, OutstandingParts
<1>6. Cardinality(enabled) \in Nat
  BY EnabledCount DEF IInv
<1>7. ASSUME NEW q \in Flip
      PROVE  Outstanding(q)' = IF q \in Live' THEN flip'[q].flip_count ELSE 0
  <2>1. Outstanding(q)' = Cardinality(Owed(q)') + Cardinality(PlacesOf(events', q))
    BY OutstandingNext
  <2>2. Outstanding(q) = IF q \in Live THEN flip[q].flip_count ELSE 0
    BY DEF KernInv, EventsMatched
  <2>3. CASE q = p
    <3>1. Cardinality(PlacesOf(events', q)) = 0
      BY <1>1, <1>2, <1>5, <2>2, <2>3 DEF Forgets
    <3>2. Owed(q)' = enabled
      BY <1>4, <2>3
    <3> QED
      BY <1>1, <1>6, <2>1, <2>3, <3>1, <3>2
  <2>4. CASE q \in gone
    <3>1. PlacesOf(events', q) = {} /\ Owed(q)' = {} /\ q \notin Live'
      BY <1>1, <1>2, <1>4, <2>4 DEF Forgets
    <3> QED
      BY <2>1, <3>1, FS_EmptySet
  <2>5. CASE q # p /\ q \notin gone
    <3>1. Cardinality(PlacesOf(events', q)) = Cardinality(PlacesOf(events, q)) /\ Owed(q)' = {}
      BY <1>4, <2>5 DEF Forgets
    <3>2. Cardinality(PlacesOf(events, q)) \in Nat /\ Cardinality({}) = 0
      BY OutstandingParts, FS_EmptySet
    <3>3. Outstanding(q)' = Outstanding(q)
      BY <1>5, <2>1, <3>1, <3>2
    <3>4. q \in Live' <=> q \in Live
      BY <1>1, <2>5
    <3>5. q \in Live => flip'[q] = flip[q]
      BY <1>1, <2>5
    <3> QED
      BY <2>2, <3>3, <3>4, <3>5
  <2> QED
    BY <2>3, <2>4, <2>5
<1>8. EventsMatched'
  BY <1>7 DEF EventsMatched
<1>9. FlipsPending' /\ ScansShown'
  BY <1>1, <1>2, <1>3 DEF KernInv, FlipsPending, ScansShown
<1> QED
  BY <1>8, <1>9 DEF KernInv

\* What a CRTC will flip to is under way.
LEMMA AwaitedIsLive ==
  ASSUME IInv, EventsMatched, NEW k \in Crtc, pend[k] # None
  PROVE  pend[k].data \in Live
<1> DEFINE q == pend[k].data
<1>1. q \in Flip /\ k \in Owed(q)
  BY DEF IInv, TypeOK, PendRec, Owed
<1>2. Outstanding(q) # 0
  <2> HIDE DEF q
  <2> QED
    BY <1>1, NoneOutstanding
<1> QED
  BY <1>1, <1>2 DEF EventsMatched

\* The flip data is freed, and no CRTC flips.
LEMMA FreeKern ==
  ASSUME IInv, KernInv, NEW p \in Live, FreeFlipdata({p}), Forgets({p}),
         UNCHANGED <<pend, enabled, scan>>
  PROVE  KernInv'
<1>1. Live' = Live \ {p} /\ (\A q \in Live \ {p} : flip'[q] = flip[q]) /\ p \in Flip
  BY FreeFlipdataLive DEF Live
<1>2. fb_id' = fb_id
  BY DEF FreeFlipdata
<1>3. \A q : Owed(q)' = Owed(q)
  BY DEF Owed
<1>4. ASSUME NEW q \in Flip
      PROVE  Outstanding(q)' = IF q \in Live' THEN flip'[q].flip_count ELSE 0
  <2>1. Outstanding(q)' = Cardinality(Owed(q)) + Cardinality(PlacesOf(events', q))
    BY <1>3, OutstandingNext
  <2>2. Outstanding(q) = IF q \in Live THEN flip[q].flip_count ELSE 0
    BY DEF KernInv, EventsMatched
  <2>3. CASE q = p
    <3>1. Owed(q) = {} /\ PlacesOf(events', q) = {}
      BY <2>3 DEF Forgets
    <3> QED
      BY <1>1, <2>1, <2>3, <3>1, FS_EmptySet
  <2>4. CASE q # p
    <3>1. Cardinality(PlacesOf(events', q)) = Cardinality(PlacesOf(events, q))
      BY <2>4 DEF Forgets
    <3>2. Outstanding(q) = Cardinality(Owed(q)) + Cardinality(PlacesOf(events, q))
      BY OutstandingParts
    <3> QED
      BY <1>1, <2>1, <2>2, <2>4, <3>1, <3>2
  <2> QED
    BY <2>3, <2>4
<1>5. EventsMatched'
  BY <1>4 DEF EventsMatched
<1>6. FlipsPending'
  BY <1>2 DEF KernInv, FlipsPending
<1>7. ScansShown'
  <2>1. \A k \in enabled : pend[k] # None => pend[k].data \in Live \ {p}
    <3> SUFFICES ASSUME NEW k \in enabled, pend[k] # None
                 PROVE  pend[k].data \in Live \ {p}
      OBVIOUS
    <3>1. k \in Crtc /\ k \in Owed(pend[k].data)
      BY DEF IInv, TypeOK, Owed
    <3>2. pend[k].data # p
      BY <3>1 DEF Forgets
    <3> QED
      BY <3>1, <3>2, AwaitedIsLive DEF KernInv
  <2> QED
    BY <1>1, <1>2, <2>1 DEF KernInv, ScansShown
<1> QED
  BY <1>5, <1>6, <1>7 DEF KernInv

\* The event that is handled last is the only one still outstanding.
LEMMA LastEvent ==
  ASSUME IInv, EventsMatched, HandleLast
  PROVE  Forgets({Head(events)}) /\ Head(events) \in Live
<1> DEFINE p == Head(events)
<1>1. p \in Live /\ p \in Flip /\ flip[p].flip_count <= 1 /\ events # <<>>
      /\ events' = Tail(events) /\ events \in Seq(Flip)
  BY DEF HandleLast, Reading, Live, IInv, TypeOK
<1>2. Outstanding(p) = flip[p].flip_count
  BY <1>1 DEF EventsMatched
<1>3. /\ Outstanding(p) = Cardinality(Owed(p)) + Cardinality(PlacesOf(events, p))
      /\ IsFiniteSet(Owed(p)) /\ Cardinality(Owed(p)) \in Nat
      /\ Cardinality(PlacesOf(events, p)) \in Nat
  BY OutstandingParts
<1> HIDE DEF p
<1>4. \A q : Cardinality(PlacesOf(events', q))
               = Cardinality(PlacesOf(events, q)) - (IF p = q THEN 1 ELSE 0)
  BY <1>1, TailPlaces DEF p
<1>5. events' \in Seq(Flip)
  BY <1>1
<1>6. IsFiniteSet(PlacesOf(events', p)) /\ Cardinality(PlacesOf(events', p)) \in Nat
  BY <1>5, PlacesFinite
<1>7. Cardinality(PlacesOf(events', p)) = Cardinality(PlacesOf(events, p)) - 1
  BY <1>4
<1>8. Cardinality(Owed(p)) = 0 /\ Cardinality(PlacesOf(events', p)) = 0
  BY <1>1, <1>2, <1>3, <1>6, <1>7
<1>9. Owed(p) = {} /\ PlacesOf(events', p) = {}
  BY <1>3, <1>6, <1>8, FS_EmptySet
<1>10. ASSUME NEW q \in Flip \ {p}
       PROVE  Cardinality(PlacesOf(events', q)) = Cardinality(PlacesOf(events, q))
  <2>1. Cardinality(PlacesOf(events, q)) \in Nat
    BY <1>1, PlacesFinite
  <2> QED
    BY <1>4, <2>1
<1> QED
  BY <1>1, <1>9, <1>10 DEF Forgets, p

\* A vblank turns a flip that is owed into an event that is sent.
LEMMA VblankKern ==
  ASSUME IInv, KernInv, NEW k \in Crtc, Vblank(k)
  PROVE  KernInv'
<1> DEFINE q == pend[k].data
<1>1. /\ q \in Flip /\ pend[k] # None /\ pend[k].fb \in {fb_id, None}
      /\ scan' = [scan EXCEPT ![k] = pend[k].fb]
      /\ pend' = [pend EXCEPT ![k] = None]
      /\ events' = Append(events, q) /\ events \in Seq(Flip)
      /\ UNCHANGED <<flip, fb_id, enabled>>
  BY DEF Vblank, IInv, TypeOK, PendRec, KernInv, FlipsPending
<1>2. pend'[k] = None /\ \A j \in Crtc \ {k} : pend'[j] = pend[j] /\ scan'[j] = scan[j]
  BY <1>1 DEF IInv, TypeOK
<1>3. enabled \subseteq Crtc /\ scan'[k] \in {fb_id, None}
  BY <1>1 DEF IInv, TypeOK
<1>4. ASSUME NEW p \in Flip
      PROVE  Outstanding(p)' = Outstanding(p)
  <2> DEFINE S == Owed(p)
             T == Owed(p)'
             m == Cardinality(PlacesOf(events, p))
  <2>1. IsFiniteSet(S) /\ Cardinality(S) \in Nat /\ m \in Nat /\ Outstanding(p) = Cardinality(S) + m
    BY OutstandingParts
  <2>2. T \in SUBSET S
    BY <1>2 DEF Owed
  <2>3. /\ \A j : j # k => (j \in S <=> j \in T)
        /\ k \in S <=> q = p
        /\ k \notin T
    BY <1>1, <1>2 DEF Owed
  <2>4. Outstanding(p)' = Cardinality(T) + Cardinality(PlacesOf(events', p))
    BY OutstandingNext
  <2>5. Cardinality(PlacesOf(events', p)) = m + (IF q = p THEN 1 ELSE 0)
    <3> HIDE DEF q
    <3> QED
      BY <1>1, AppendPlaces
  <2> HIDE DEF S, T, q, m
  <2>6. IsFiniteSet(T)
    BY <2>1, <2>2, FS_Subset
  <2>7. Cardinality(T) = Cardinality(S) - (IF k \in S THEN 1 ELSE 0) + (IF k \in T THEN 1 ELSE 0)
    BY <2>1, <2>3, <2>6, CountChanges
  <2> QED
    BY <2>1, <2>3, <2>4, <2>5, <2>7
<1>5. EventsMatched'
  <2>1. Live' = Live
    BY <1>1 DEF Live
  <2> QED
    BY <1>1, <1>4, <2>1 DEF KernInv, EventsMatched
<1>6. FlipsPending'
  BY <1>1, <1>2 DEF KernInv, FlipsPending
<1>7. ScansShown'
  BY <1>1, <1>2, <1>3 DEF KernInv, ScansShown
<1> QED
  BY <1>5, <1>6, <1>7 DEF KernInv

\* An event that is not the last of its flip is one its flip no longer waits for.
LEMMA HandleCountedKern ==
  ASSUME IInv, KernInv, HandleCounted
  PROVE  KernInv'
<1> DEFINE p == Head(events)
<1>1. /\ Live' = Live
      /\ \A q \in Live : flip'[q].old_fb_id = flip[q].old_fb_id
      /\ \A q \in Live \ {p} : flip'[q] = flip[q]
      /\ p \in Live /\ flip[p].flip_count \in Int
      /\ flip'[p].flip_count = flip[p].flip_count - 1
  BY CountedFlips
<1>2. /\ events \in Seq(Flip) /\ events # <<>> /\ events' = Tail(events)
      /\ UNCHANGED <<fb_id, pend, enabled, scan>>
  BY DEF HandleCounted, Reading, IInv, TypeOK, screenVars
<1> HIDE DEF p
<1>3. ASSUME NEW q \in Flip
      PROVE  Outstanding(q)' = Outstanding(q) - (IF p = q THEN 1 ELSE 0)
  <2>1. Outstanding(q)' = Cardinality(Owed(q)') + Cardinality(PlacesOf(events', q))
    BY OutstandingNext
  <2>2. Owed(q)' = Owed(q)
    BY <1>2 DEF Owed
  <2>3. Cardinality(PlacesOf(events', q))
          = Cardinality(PlacesOf(events, q)) - (IF p = q THEN 1 ELSE 0)
    BY <1>2, TailPlaces DEF p
  <2>4. /\ Outstanding(q) = Cardinality(Owed(q)) + Cardinality(PlacesOf(events, q))
        /\ Cardinality(Owed(q)) \in Nat /\ Cardinality(PlacesOf(events, q)) \in Nat
    BY OutstandingParts
  <2> QED
    BY <2>1, <2>2, <2>3, <2>4
<1>4. EventsMatched'
  <2> SUFFICES ASSUME NEW q \in Flip
               PROVE  Outstanding(q)' = IF q \in Live' THEN flip'[q].flip_count ELSE 0
    BY DEF EventsMatched
  <2>1. Outstanding(q) = IF q \in Live THEN flip[q].flip_count ELSE 0
    BY DEF KernInv, EventsMatched
  <2>2. Outstanding(q) \in Nat
    BY OutstandingParts
  <2>3. Outstanding(q)' = Outstanding(q) - (IF p = q THEN 1 ELSE 0)
    BY <1>3
  <2>4. q \in Live' <=> q \in Live
    BY <1>1
  <2>5. CASE q = p
    BY <1>1, <2>1, <2>3, <2>4, <2>5
  <2>6. CASE q # p
    BY <1>1, <2>1, <2>2, <2>3, <2>4, <2>6
  <2> QED
    BY <2>5, <2>6
<1>5. FlipsPending'
  BY <1>2 DEF KernInv, FlipsPending
<1>6. ScansShown'
  <2>1. \A k \in enabled : pend[k] # None => pend[k].data \in Live
    BY AwaitedIsLive DEF KernInv, IInv, TypeOK
  <2> QED
    BY <1>1, <1>2, <2>1 DEF KernInv, ScansShown
<1> QED
  BY <1>4, <1>5, <1>6 DEF KernInv

\* Every event that is read finds its flip.
LEMMA EventFindsFlip == IInv /\ EventsMatched => ~HandleFreed
<1> SUFFICES ASSUME IInv, EventsMatched, HandleFreed PROVE FALSE
  OBVIOUS
<1> DEFINE p == Head(events)
<1>1. events \in Seq(Flip) /\ events # <<>> /\ p \notin Live
  BY DEF HandleFreed, Reading, IInv, TypeOK
<1>2. p = events[1] /\ p \in Flip /\ 1 \in 1 .. Len(events)
  BY <1>1
<1> HIDE DEF p
<1>3. Outstanding(p) = 0
  BY <1>1, <1>2 DEF EventsMatched
<1>4. PlacesOf(events, p) = {}
  BY <1>3, NoneOutstanding
<1> QED
  BY <1>2, <1>4 DEF PlacesOf

\* A CRTC that owes no flip is set; if there is no framebuffer, one is made.
LEMMA SetCrtcKern ==
  ASSUME IInv, KernInv, NEW k \in Crtc, SetCrtc(k)
  PROVE  KernInv'
<1>1. PICK f \in Fb :
        /\ AddFb(f) /\ fb_id' = f
        /\ \/ enabled' = enabled \cup {k} /\ scan' = [scan EXCEPT ![k] = f]
           \/ UNCHANGED <<enabled, scan>>
  BY DEF SetCrtc
<1>2. UNCHANGED <<flip, pend, events>> /\ pend[k] = None
  BY DEF SetCrtc
<1>3. fb_id = None \/ fb_id = f
  BY <1>1 DEF AddFb
<1>4. EventsMatched'
  BY <1>2 DEF KernInv, EventsMatched, Outstanding, Live
<1>5. FlipsPending'
  BY <1>1, <1>2, <1>3 DEF KernInv, FlipsPending
<1>6. ScansShown'
  <2>1. CASE UNCHANGED <<enabled, scan>>
    BY <1>1, <1>2, <1>3, <2>1 DEF KernInv, ScansShown
  <2>2. CASE enabled' = enabled \cup {k} /\ scan' = [scan EXCEPT ![k] = f]
    BY <1>1, <1>2, <1>3, <2>2 DEF KernInv, ScansShown, IInv, TypeOK
  <2> QED
    BY <1>1, <2>1, <2>2
<1> QED
  BY <1>4, <1>5, <1>6 DEF KernInv

\* RandR darkens a CRTC that owes no flip.
LEMMA DisableCrtcKern ==
  ASSUME IInv, KernInv, NEW k \in Crtc, DisableCrtc(k)
  PROVE  KernInv'
<1>1. UNCHANGED <<flip, fb_id, pend, scan, events>> /\ pend[k] = None /\ enabled' = enabled \ {k}
  BY DEF DisableCrtc, flipVars
<1>2. EventsMatched'
  BY <1>1 DEF KernInv, EventsMatched, Outstanding, Live
<1>3. FlipsPending' /\ ScansShown'
  BY <1>1 DEF KernInv, FlipsPending, ScansShown
<1> QED
  BY <1>2, <1>3 DEF KernInv

\* The scanout buffer is replaced: a CRTC that owes a flip still sends its event,
\* and none is left with the framebuffer that was removed.
LEMMA ReplaceFbKern ==
  ASSUME IInv, KernInv, Resize \/ \E k \in Crtc : Rotate(k)
  PROVE  KernInv'
<1>0. PICK f \in Fb \cup {None} : \E lit :
        /\ ReplaceFb(f, lit)
        /\ enabled \subseteq enabled' /\ enabled' \subseteq enabled \cup lit
        /\ UNCHANGED <<flip, events>>
  BY Replaces
<1>1. PICK lit :
        /\ ReplaceFb(f, lit)
        /\ enabled \subseteq enabled' /\ enabled' \subseteq enabled \cup lit
        /\ UNCHANGED <<flip, events>>
  BY <1>0
<1> DEFINE shown(k, fb) == IF k \in lit THEN f ELSE IF fb = fb_id THEN None ELSE fb
<1>2. /\ fb_id' = f
      /\ \A k \in Crtc : scan'[k] = IF pend[k] = None THEN shown(k, scan[k]) ELSE scan[k]
      /\ \A k \in Crtc : pend'[k] = IF pend[k] = None THEN None
                                   ELSE [pend[k] EXCEPT !.fb = shown(k, @)]
  BY <1>1 DEF ReplaceFb
<1>3. ASSUME NEW k \in Crtc, pend[k] # None
      PROVE  /\ pend'[k] # None
             /\ pend'[k].data = pend[k].data
             /\ pend'[k].fb = shown(k, pend[k].fb)
             /\ pend[k].fb \in {fb_id, None}
  <2>1. pend[k] \in PendRec /\ f \in Fb \cup {None}
    BY <1>3 DEF IInv, TypeOK
  <2>2. \A fb \in Fb \cup {None} : [pend[k] EXCEPT !.fb = fb] \in PendRec
    BY <2>1 DEF PendRec
  <2>3. shown(k, pend[k].fb) \in Fb \cup {None}
    BY <2>1 DEF PendRec
  <2>4. pend'[k] = [pend[k] EXCEPT !.fb = shown(k, pend[k].fb)]
    BY <1>2, <1>3
  <2>5. pend'[k] # None
    BY <2>2, <2>3, <2>4, SetsAssumption
  <2>6. pend'[k].data = pend[k].data /\ pend'[k].fb = shown(k, pend[k].fb)
    BY <2>1, <2>4 DEF PendRec
  <2> QED
    BY <1>3, <2>5, <2>6 DEF KernInv, FlipsPending
<1>4. \A k \in Crtc : pend[k] = None => pend'[k] = None
  BY <1>2
<1>5. EventsMatched'
  <2>1. \A q : Owed(q)' = Owed(q)
    BY <1>3, <1>4 DEF Owed
  <2>2. Live' = Live /\ \A q : Outstanding(q)' = Outstanding(q)
    BY <1>1, <2>1 DEF Outstanding, Owed, Live
  <2> QED
    BY <1>1, <2>2 DEF KernInv, EventsMatched
<1>6. FlipsPending'
  <2> SUFFICES ASSUME NEW k \in Crtc, pend'[k] # None
               PROVE  k \in enabled' /\ pend'[k].fb \in {f, None}
    BY <1>2 DEF FlipsPending
  <2>1. pend[k] # None
    BY <1>4
  <2>2. k \in enabled
    BY <2>1 DEF KernInv, FlipsPending
  <2> QED
    BY <1>1, <1>3, <2>1, <2>2
<1>7. ScansShown'
  <2> SUFFICES ASSUME NEW k \in enabled'
               PROVE  scan'[k] \in {None, IF pend'[k] = None THEN f
                                          ELSE flip[pend'[k].data].old_fb_id}
    BY <1>1, <1>2 DEF ScansShown
  <2>1. k \in Crtc
    <3>1. IInv'
      BY RotateInv, ResizeInv
    <3> QED
      BY <3>1 DEF IInv, TypeOK
  <2>2. CASE pend[k] = None
    <3>1. k \in lit \/ (k \in enabled /\ scan[k] \in {None, fb_id})
      BY <1>1, <2>2 DEF KernInv, ScansShown
    <3> QED
      BY <1>2, <1>4, <2>1, <2>2, <3>1
  <2>3. CASE pend[k] # None
    <3>1. k \in enabled /\ scan[k] \in {None, flip[pend[k].data].old_fb_id}
      BY <2>1, <2>3 DEF KernInv, FlipsPending, ScansShown
    <3> QED
      BY <1>2, <1>3, <2>1, <2>3, <3>1
  <2> QED
    BY <2>2, <2>3
<1> QED
  BY <1>5, <1>6, <1>7 DEF KernInv

\* At first nothing flips.
LEMMA KernBase == Init => KernInv
<1> SUFFICES ASSUME Init PROVE KernInv
  OBVIOUS
<1>1. Live = {} /\ events = <<>> /\ \A k \in Crtc : pend[k] = None /\ scan[k] = fb_id
  BY DEF Init, Live
<1>2. ASSUME NEW p \in Flip PROVE Outstanding(p) = 0
  <2>1. Owed(p) = {} /\ PlacesOf(events, p) = {}
    BY <1>1 DEF Owed, PlacesOf
  <2>2. IInv
    BY Base
  <2> QED
    BY <2>1, <2>2, OutstandingParts, FS_EmptySet
<1>3. EventsMatched
  BY <1>1, <1>2 DEF EventsMatched
<1>4. FlipsPending /\ ScansShown
  BY <1>1 DEF FlipsPending, ScansShown, Init
<1> QED
  BY <1>3, <1>4 DEF KernInv

\* Unless drmModePageFlip fails half way, every step keeps the kernel's events
\* and the flips under way in step.
LEMMA KernStep == ~MayFailLate /\ IInv /\ KernInv /\ [Next]_vars => KernInv'
<1> SUFFICES ASSUME ~MayFailLate, IInv, KernInv, [Next]_vars PROVE KernInv'
  OBVIOUS
<1> USE DEF flipVars, screenVars
<1>1. ~LateFailure
  BY DEF LateFailure
<1>2. ASSUME NEW d \in Window, ScheduleSwap(d) PROVE KernInv'
  <2>1. CASE ScheduleCopy(d)
    BY <1>1, <2>1, FreeNothing, KernKept DEF ScheduleCopy, NoPageFlip
  <2>2. ASSUME NEW c \in Cmd, ScheduleQueued(d, c) \/ ScheduleRefused(d, c) PROVE KernInv'
    BY <2>2, KernKept DEF ScheduleQueued, ScheduleRefused
  <2>3. ASSUME NEW c \in Cmd, ScheduleFlip(d, c) PROVE KernInv'
    <3>1. PageFlip(c, {}) /\ {} \in SUBSET Live /\ UNCHANGED <<enabled, scan, events>>
      BY <2>3 DEF ScheduleFlip
    <3>2. Forgets({})
      BY <3>1 DEF Forgets
    <3> QED
      BY <3>1, <3>2, PageFlipKern
  <2> QED
    BY <1>2, <2>1, <2>2, <2>3 DEF ScheduleSwap
<1>3. ASSUME NEW d \in Window,
             \/ Detach(d) \/ DestroyWindow(d) \/ CreateWindow(d)
             \/ \E f, b \in Buf : GetBuffers(d, f, b)
      PROVE  KernInv'
  BY <1>3, KernKept DEF Detach, DestroyWindow, CreateWindow, GetBuffers
<1>4. CASE HandleLast
  <2> DEFINE p == Head(events)
  <2>1. /\ p \in Live /\ Forgets({p}) /\ SwapComplete(flip[p].priv, {p})
        /\ UNCHANGED <<enabled, scan>>
    BY <1>4, LastEvent DEF HandleLast, KernInv
  <2> HIDE DEF p
  <2>2. CASE FreeFlipdata({p}) /\ UNCHANGED pend
    BY <2>1, <2>2, FreeKern
  <2>3. ASSUME NEW w \in Cmd, PageFlip(w, {p}) PROVE KernInv'
    <3>1. {p} \in SUBSET Live
      BY <2>1
    <3> QED
      BY <2>1, <2>3, <3>1, PageFlipKern
  <2> QED
    BY <1>1, <2>1, <2>2, <2>3, SwapCompleteFlips
<1>5. CASE RandR
  BY <1>5, SetCrtcKern, ReplaceFbKern, DisableCrtcKern DEF RandR
<1>6. CASE Kernel
  BY <1>6, VblankKern DEF Kernel
<1>7. CASE HandleEvent
  BY <1>4, <1>7, HandleCountedKern, EventFindsFlip DEF HandleEvent, KernInv
<1>8. CASE BeginClose \/ FinishClose \/ Stopped \/ UNCHANGED vars
  BY <1>8, KernKept DEF BeginClose, FinishClose, MoveTo, Stopped, vars
<1>9. CASE Client
  BY <1>2, <1>3, <1>9 DEF Client
<1> QED
  BY <1>5, <1>6, <1>7, <1>8, <1>9 DEF Next

-----------------------------------------------------------------------------
(* What the kernel may still do to a flip, unless one fails half way *)

EventInv == IInv /\ KernInv

LEMMA EventInvariant == ~MayFailLate => (Spec => []EventInv)
<1> SUFFICES ASSUME ~MayFailLate PROVE Spec => []EventInv
  OBVIOUS
<1>1. Init => EventInv
  BY Base, KernBase DEF EventInv
<1>2. EventInv /\ [Next]_vars => EventInv'
  BY Step, KernStep DEF EventInv
<1> QED
  BY <1>1, <1>2, PTL DEF Spec

\* A command that is allocated holds both its buffers.
LEMMA CommandHolds ==
  ASSUME IInv, RefInv, NEW c \in Allocated
  PROVE  ref[cmd[c].src] > 0 /\ ref[cmd[c].dst] > 0
<1>1. cmd[c].src \in Buf /\ cmd[c].dst \in Buf
  BY DEF IInv, TypeOK, Allocated, CmdRec
<1>2. ASSUME NEW b \in Buf, b = cmd[c].src \/ b = cmd[c].dst
      PROVE  ref[b] > 0
  <2> DEFINE R == {x \in Allocated : cmd[x].src = b}
             W == {x \in Allocated : cmd[x].dst = b}
  <2>1. IsFiniteSet(R) /\ IsFiniteSet(W)
    BY SetsAssumption, FS_Subset DEF Allocated
  <2>2. c \in R \/ c \in W
    BY <1>2
  <2>3. ref[b] = AttachedIn(front, b) + AttachedIn(back, b) + (Cardinality(R) + Cardinality(W))
    BY DEF RefInv, RefsBalanced, AttachedIn, Holds
  <2>4. AttachedIn(front, b) \in Nat /\ AttachedIn(back, b) \in Nat
    BY AttachedType
  <2> HIDE DEF R, W
  <2>5. Cardinality(R) \in Nat /\ Cardinality(W) \in Nat
    BY <2>1, FS_CardinalityType
  <2>6. ~(Cardinality(R) = 0 /\ Cardinality(W) = 0)
    BY <2>1, <2>2, FS_EmptySet
  <2> QED
    BY <2>3, <2>4, <2>5, <2>6
<1> QED
  BY <1>1, <1>2

\* "obtain extra ref on buffers to avoid them going away while we await the page
\* flip event": whatever event the kernel still owes or has sent, its flip data,
\* its command and both buffers are there, unless a flip failed half way.
THEOREM AwaitedEventsSafe == ~MayFailLate => (Spec => []AwaitedBuffersHeld)
<1> SUFFICES ASSUME ~MayFailLate PROVE Spec => []AwaitedBuffersHeld
  OBVIOUS
<1>1. EventInv /\ RefInv => AwaitedBuffersHeld
  <2> SUFFICES ASSUME EventInv, RefInv, NEW p \in Flip, Outstanding(p) > 0
               PROVE  /\ p \in Live
                      /\ flip[p].priv \in Allocated
                      /\ ref[cmd[flip[p].priv].src] > 0
                      /\ ref[cmd[flip[p].priv].dst] > 0
    BY DEF AwaitedBuffersHeld
  <2>1. p \in Live
    BY DEF EventInv, KernInv, EventsMatched
  <2>2. flip[p].priv \in Allocated
    BY <2>1, LastFlip DEF EventInv
  <2> QED
    BY <2>1, <2>2, CommandHolds DEF EventInv
<1>2. EventInv /\ RefInv /\ [Next]_vars => RefInv'
  BY RefStep DEF EventInv
<1> QED
  BY <1>1, <1>2, EventInvariant, RefBase, PTL DEF Spec

\* No flip that completes removes a framebuffer that an enabled CRTC shows or is
\* about to flip to: each shows the current one, or until its vblank the one its
\* flip replaces, which stays until the last event of that flip.  When the current
\* one goes with the scanout buffer, flips to it under way or not, the CRTCs are
\* switched off or shown the next, and no id that is gone stays with any of them.
THEOREM ScanoutStaysAlive == ~MayFailLate => (Spec => []ScanoutAlive)
<1> SUFFICES ASSUME ~MayFailLate PROVE Spec => []ScanoutAlive
  OBVIOUS
<1>1. EventInv /\ FbsAccounted => ScanoutAlive
  <2> SUFFICES ASSUME EventInv, FbsAccounted, NEW k \in Crtc
               PROVE  /\ k \in enabled => scan[k] \in fbs \cup {None}
                      /\ pend[k] # None => pend[k].fb \in fbs \cup {None}
    BY DEF ScanoutAlive
  <2>1. fb_id \in fbs \cup {None}
    BY DEF FbsAccounted
  <2>2. \A p \in Live : flip[p].old_fb_id \in fbs \cup {None}
    BY DEF FbsAccounted, OldFbs
  <2>3. pend[k] # None => pend[k].fb \in {fb_id, None} /\ pend[k].data \in Live
    BY AwaitedIsLive DEF EventInv, KernInv, FlipsPending
  <2>4. k \in enabled => scan[k] \in {None, IF pend[k] = None THEN fb_id
                                            ELSE flip[pend[k].data].old_fb_id}
    BY DEF EventInv, KernInv, ScansShown
  <2> QED
    BY <2>1, <2>2, <2>3, <2>4
<1> QED
  BY <1>1, EventInvariant, FramebuffersAccounted, PTL

\* No flip is under way on a screen that is closed.
ClosedNoFlips == phase = "closed" => Live = {}

\* Once the phase is "closed" nothing is dispatched, so no flip begins.
LEMMA ClosedStep == IInv /\ ClosedNoFlips /\ [Next]_vars => ClosedNoFlips'
<1> SUFFICES ASSUME IInv, ClosedNoFlips, [Next]_vars PROVE ClosedNoFlips'
  OBVIOUS
<1> USE DEF screenVars, flipVars
<1>1. CASE Client
  BY <1>1 DEF Client, ScheduleSwap, ScheduleCopy, ScheduleQueued, ScheduleRefused, ScheduleFlip,
              MayRequest, GetBuffers, Detach, DestroyWindow, CreateWindow, ClosedNoFlips
<1>2. CASE RandR \/ BeginClose
  BY <1>2 DEF RandR, SetCrtc, Rotate, Resize, DisableCrtc, BeginClose, MoveTo, ClosedNoFlips
<1>3. CASE Kernel
  BY <1>3 DEF Kernel, Vblank, ClosedNoFlips, Live
<1>4. CASE HandleEvent
  BY <1>4 DEF HandleEvent, HandleCounted, HandleLast, HandleFreed, Reading, ClosedNoFlips
<1>5. CASE FinishClose
  <2>1. Cardinality(Live) = 0
    BY <1>5, LiveFinite DEF FinishClose, IInv, Ownership, FlipsCounted
  <2>2. Live = {}
    BY <2>1, LiveFinite, FS_EmptySet
  <2> QED
    BY <1>5, <2>2 DEF FinishClose, MoveTo, ClosedNoFlips, Live
<1>6. CASE Stopped \/ UNCHANGED vars
  BY <1>6 DEF Stopped, vars, ClosedNoFlips, Live
<1> QED
  BY <1>1, <1>2, <1>3, <1>4, <1>5, <1>6 DEF Next

\* CloseScreen leaves nothing behind that a later event could reach: no flip is
\* under way, no CRTC owes one and no event waits, unless a flip failed half way.
THEOREM CloseLeavesQuiet == ~MayFailLate => (Spec => []ClosedIsQuiet)
<1> SUFFICES ASSUME ~MayFailLate PROVE Spec => []ClosedIsQuiet
  OBVIOUS
<1>1. EventInv /\ ClosedNoFlips => ClosedIsQuiet
  <2> SUFFICES ASSUME EventInv, Live = {}
               PROVE  (\A k \in Crtc : pend[k] = None) /\ events = <<>>
    BY DEF ClosedNoFlips, ClosedIsQuiet
  <2>1. \A k \in Crtc : pend[k] = None
    BY AwaitedIsLive DEF EventInv, KernInv
  <2>2. \A p \in Flip : PlacesOf(events, p) = {}
    <3> SUFFICES ASSUME NEW p \in Flip PROVE PlacesOf(events, p) = {}
      OBVIOUS
    <3>1. Outstanding(p) = 0
      BY DEF EventInv, KernInv, EventsMatched
    <3> QED
      BY <3>1, NoneOutstanding DEF EventInv
  <2>3. events \in Seq(Flip)
    BY DEF EventInv, IInv, TypeOK
  <2>4. \A i \in 1 .. Len(events) : FALSE
    BY <2>2, <2>3 DEF PlacesOf
  <2> QED
    BY <2>1, <2>3, <2>4
<1>2. Init => ClosedNoFlips
  BY DEF Init, ClosedNoFlips
<1>3. EventInv /\ ClosedNoFlips /\ [Next]_vars => ClosedNoFlips'
  BY ClosedStep DEF EventInv
<1> QED
  BY <1>1, <1>2, <1>3, EventInvariant, PTL DEF Spec

\* While some CRTC stays enabled, a flip under way waits for an event at least.
FlipsWait == enabled # {} /\ \A p \in Live : flip[p].flip_count > 0

\* drmmode_page_flip counts the CRTCs that are enabled, and page_flip_handler
\* keeps a flip only while its count is positive.
LEMMA FlipsWaitStep ==
  ~MayFailLate /\ ~MayDisableAll /\ IInv /\ FlipsWait /\ [Next]_vars => FlipsWait'
<1> SUFFICES ASSUME ~MayFailLate, ~MayDisableAll, IInv, FlipsWait, [Next]_vars PROVE FlipsWait'
  OBVIOUS
<1> USE DEF flipVars, screenVars
<1>1. ASSUME UNCHANGED <<flip, enabled>> PROVE FlipsWait'
  BY <1>1 DEF FlipsWait, Live
<1>2. ASSUME NEW c \in Cmd, NEW gone \in SUBSET Live, PageFlip(c, gone), UNCHANGED enabled
      PROVE  FlipsWait'
  <2>1. PICK p \in Flip \ Live, f \in Fb \ fbs :
          /\ Live' = (Live \ gone) \cup {p}
          /\ flip'[p].flip_count = Cardinality(enabled)
          /\ \A q \in Live \ gone : flip'[q] = flip[q]
    BY <1>2, PageFlipMakes
  <2>2. Cardinality(enabled) > 0
    <3>1. IsFiniteSet(enabled)
      <4>1. IsFiniteSet(Crtc)
        BY FS_Interval, NumbersAssumption DEF Crtc
      <4> QED
        BY <4>1, FS_Subset DEF IInv, TypeOK
    <3> QED
      BY <3>1, FS_EmptySet, FS_CardinalityType DEF FlipsWait
  <2> QED
    BY <1>2, <2>1, <2>2 DEF FlipsWait
<1>3. ASSUME NEW d \in Window, ScheduleSwap(d) PROVE FlipsWait'
  <2>1. CASE ScheduleCopy(d)
    BY <1>1, <2>1, FreeNothing DEF ScheduleCopy, NoPageFlip
  <2>2. ASSUME NEW c \in Cmd, ScheduleQueued(d, c) \/ ScheduleRefused(d, c) PROVE FlipsWait'
    BY <1>1, <2>2 DEF ScheduleQueued, ScheduleRefused
  <2>3. ASSUME NEW c \in Cmd, ScheduleFlip(d, c) PROVE FlipsWait'
    <3>1. PageFlip(c, {}) /\ {} \in SUBSET Live /\ UNCHANGED enabled
      BY <2>3 DEF ScheduleFlip
    <3> QED
      BY <1>2, <3>1
  <2> QED
    BY <1>3, <2>1, <2>2, <2>3 DEF ScheduleSwap
<1>4. ASSUME NEW d \in Window,
             \/ Detach(d) \/ DestroyWindow(d) \/ CreateWindow(d)
             \/ \E f, b \in Buf : GetBuffers(d, f, b)
      PROVE  FlipsWait'
  BY <1>1, <1>4 DEF Detach, DestroyWindow, CreateWindow, GetBuffers
<1>5. CASE HandleLast
  <2> DEFINE p == Head(events)
  <2>1. p \in Live /\ SwapComplete(flip[p].priv, {p}) /\ UNCHANGED enabled
    BY <1>5 DEF HandleLast
  <2> HIDE DEF p
  <2>2. CASE FreeFlipdata({p})
    BY <2>1, <2>2, FreeFlipdataLive DEF FlipsWait
  <2>3. ASSUME NEW w \in Cmd, PageFlip(w, {p}) PROVE FlipsWait'
    <3>1. {p} \in SUBSET Live
      BY <2>1
    <3> QED
      BY <1>2, <2>1, <2>3, <3>1
  <2> QED
    BY <2>1, <2>2, <2>3, SwapCompleteFlips
<1>6. CASE HandleCounted
  <2> DEFINE p == Head(events)
  <2>1. /\ Live' = Live /\ \A q \in Live \ {p} : flip'[q] = flip[q]
        /\ flip'[p].flip_count = flip[p].flip_count - 1
        /\ flip[p].flip_count \in Int /\ flip[p].flip_count > 1
    BY <1>6, CountedFlips
  <2>2. UNCHANGED enabled
    BY <1>6 DEF HandleCounted
  <2> HIDE DEF p
  <2> QED
    BY <2>1, <2>2 DEF FlipsWait
<1>7. CASE RandR
  <2>1. flip' = flip
    BY <1>7 DEF RandR, SetCrtc, Rotate, Resize, DisableCrtc
  <2>2. enabled' # {}
    BY <1>7 DEF RandR, SetCrtc, Rotate, Resize, DisableCrtc, FlipsWait
  <2> QED
    BY <2>1, <2>2 DEF FlipsWait, Live
<1>8. CASE Kernel \/ HandleFreed
  BY <1>1, <1>8 DEF Kernel, Vblank, HandleFreed
<1>9. CASE BeginClose \/ FinishClose \/ Stopped \/ UNCHANGED vars
  BY <1>1, <1>9 DEF BeginClose, FinishClose, MoveTo, Stopped, vars
<1>10. CASE Client
  BY <1>3, <1>4, <1>10 DEF Client
<1> QED
  BY <1>5, <1>6, <1>7, <1>8, <1>9, <1>10 DEF Next, HandleEvent

\* A flip that counts as pending has one event on its way for each CRTC it still
\* waits for, and waits for at least one, so CloseScreen's loop has something to
\* read; unless every CRTC is disabled or a flip failed half way.
THEOREM FlipsAwaitTheirEvents ==
  ~MayFailLate /\ ~MayDisableAll => (Spec => []FlipsAwaitEvents)
<1> SUFFICES ASSUME ~MayFailLate, ~MayDisableAll PROVE Spec => []FlipsAwaitEvents
  OBVIOUS
<1>1. EventInv /\ FlipsWait => FlipsAwaitEvents
  BY DEF EventInv, KernInv, EventsMatched, FlipsWait, FlipsAwaitEvents, Live
<1>2. Init => FlipsWait
  <2>1. 1 \in Crtc
    BY NumbersAssumption DEF Crtc
  <2> QED
    BY <2>1 DEF Init, FlipsWait, Live
<1>3. EventInv /\ FlipsWait /\ [Next]_vars => FlipsWait'
  BY FlipsWaitStep DEF EventInv
<1> QED
  BY <1>1, <1>2, <1>3, EventInvariant, PTL DEF Spec
=============================================================================
