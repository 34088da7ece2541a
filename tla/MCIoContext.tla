----------------------------- MODULE MCIoContext -----------------------------
(* Model-checking instance of IoContext.                                   *)
EXTENDS IoContext
=============================================================================
