----------------------------- MODULE MCShmFifo -----------------------------
(* Model-checking instance of ShmFifo: up to two threads that send and two *)
(* receiving processes.                                                    *)
EXTENDS ShmFifo

CONSTANTS s1, s2, r1, r2

=============================================================================
