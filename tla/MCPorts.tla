------------------------------ MODULE MCPorts ------------------------------
(* A small instance of CoportIPC for TLC. *)
EXTENDS CoportIPC

CONSTANTS t1, t2, t3
=============================================================================
