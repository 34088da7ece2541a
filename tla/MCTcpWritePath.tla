--------------------------- MODULE MCTcpWritePath ---------------------------
(* Model-checking instance of TcpWritePath: two application threads.       *)
EXTENDS TcpWritePath, TLC

CONSTANTS s1, s2

\* The threads run the same code and are never compared.
Perms == Permutations(Senders)
=============================================================================
