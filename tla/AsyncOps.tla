------------------------------ MODULE AsyncOps ------------------------------
(***************************************************************************)
(* What an io_context promises of asynchronous operations on one socket:   *)
(* an operation that is started completes at once or later, or is aborted  *)
(* when the socket is closed, together with all others that are pending;   *)
(* then its handler runs, once.                                            *)
(***************************************************************************)
EXTENDS Naturals

CONSTANT Ops

VARIABLES
  state,  \* of each operation
  runs    \* how often its handler has run

OpStates == {"idle", "pending", "ok", "aborted"}

Init == state = [o \in Ops |-> "idle"] /\ runs = [o \in Ops |-> 0]

Start(o) ==
  /\ state[o] = "idle"
  /\ \E s \in OpStates \ {"idle"} : state' = [state EXCEPT ![o] = s]
  /\ UNCHANGED runs

\* The socket is ready for some of the operations that are pending.
Complete(S) ==
  /\ \A o \in S : state[o] = "pending"
  /\ state' = [o \in Ops |-> IF o \in S THEN "ok" ELSE state[o]]
  /\ UNCHANGED runs

Close ==
  /\ state' = [o \in Ops |-> IF state[o] = "pending" THEN "aborted" ELSE state[o]]
  /\ UNCHANGED runs

Run(o) ==
  /\ state[o] \in {"ok", "aborted"} /\ runs[o] = 0
  /\ runs' = [runs EXCEPT ![o] = 1]
  /\ UNCHANGED state

Next == Close \/ (\E S \in SUBSET Ops : Complete(S)) \/ \E o \in Ops : Start(o) \/ Run(o)

Spec == Init /\ [][Next]_<<state, runs>>
=============================================================================
