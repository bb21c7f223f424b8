---------------------------- MODULE MCSECClient -----------------------------
(* Threads of one client, as model values. *)
EXTENDS SECClient

CONSTANTS t1, t2
=============================================================================
