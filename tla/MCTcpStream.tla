---------------------------- MODULE MCTcpStream ----------------------------
(* Model-checking instance of TcpStream.                                   *)
EXTENDS TcpStream

MCZero == [f |-> 0, i |-> 0]
=============================================================================
