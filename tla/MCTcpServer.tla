---------------------------- MODULE MCTcpServer ----------------------------
(* Model-checking instance of TcpServer.                                   *)
EXTENDS TcpServer
=============================================================================
