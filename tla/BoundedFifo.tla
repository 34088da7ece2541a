---------------------------- MODULE BoundedFifo ----------------------------
(***************************************************************************)
(* What the user of a shared-memory endpoint expects of one direction of   *)
(* it: a first-in first-out queue of at most Capacity packets, numbered in *)
(* the order they are put in.                                              *)
(***************************************************************************)
EXTENDS Naturals, Sequences

CONSTANT Capacity

VARIABLES
  queue,  \* packets put in and not yet taken out, oldest first
  taken   \* packets taken out, in order

Init == queue = <<>> /\ taken = <<>>

Put ==
  /\ Len(queue) < Capacity
  /\ queue' = Append(queue, Len(taken) + Len(queue) + 1)
  /\ UNCHANGED taken

Take ==
  /\ queue # <<>>
  /\ taken' = Append(taken, Head(queue))
  /\ queue' = Tail(queue)

Next == Put \/ Take

Spec == Init /\ [][Next]_<<queue, taken>>
=============================================================================
