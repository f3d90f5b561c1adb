----------------------------- MODULE SwapOrder -----------------------------
(***************************************************************************)
(* What the driver promises the DRI2 module about SwapBuffers: the swaps   *)
(* of a window that did not finish within the request are reported         *)
(* complete in the order they were scheduled, each once, and never more    *)
(* than the swap limit of them are outstanding.  Only the destruction of   *)
(* the window takes a swap away without a report.                          *)
(***************************************************************************)
EXTENDS Naturals, Sequences

CONSTANTS Window, Cmd, SwapLimit

VARIABLES
  alive,         \* the windows that exist
  order,         \* for each window its outstanding swaps, oldest first
  swapsPending   \* the swaps of each window the DRI2 module still waits for

vars == <<alive, order, swapsPending>>

Init ==
  /\ alive = {}
  /\ order = [d \in Window |-> <<>>]
  /\ swapsPending = [d \in Window |-> 0]

\* A swap is accepted and stays outstanding.
Schedule(d) ==
  /\ d \in alive
  /\ Len(order[d]) < SwapLimit
  /\ \E c \in Cmd :
       /\ \A e \in Window : \A i \in 1..Len(order[e]) : order[e][i] # c
       /\ order' = [order EXCEPT ![d] = Append(@, c)]
  /\ swapsPending' = [swapsPending EXCEPT ![d] = @ + 1]
  /\ UNCHANGED alive

\* The oldest n swaps complete and are reported (one page-flip event completes
\* two when the swap queued behind the flip turns out to be a copy).
Complete(d) ==
  \E n \in 1..Len(order[d]) :
    /\ order' = [order EXCEPT ![d] = SubSeq(@, n + 1, Len(@))]
    /\ swapsPending' = [swapsPending EXCEPT ![d] = @ - n]
    /\ UNCHANGED alive

Create(d) ==
  /\ alive' = alive \cup {d}
  /\ UNCHANGED <<order, swapsPending>>

Destroy(d) ==
  /\ alive' = alive \ {d}
  /\ order' = [order EXCEPT ![d] = <<>>]
  /\ swapsPending' = [swapsPending EXCEPT ![d] = 0]

Next == \E d \in Window : Schedule(d) \/ Complete(d) \/ Create(d) \/ Destroy(d)

Spec == Init /\ [][Next]_vars

\* Every outstanding swap is reported eventually.
FairSpec == Spec /\ \A d \in Window : WF_vars(Complete(d))
=============================================================================
