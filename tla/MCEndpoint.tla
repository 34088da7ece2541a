------------------------------ MODULE MCEndpoint ------------------------------
(* Model-checking instance of Endpoint.                                    *)
EXTENDS Endpoint
=============================================================================
