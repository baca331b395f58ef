------------------------------ MODULE MCProxy -------------------------------
(* Small instances of Proxy.                                               *)
EXTENDS Proxy
=============================================================================
