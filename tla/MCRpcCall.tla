----------------------------- MODULE MCRpcCall -----------------------------
(* The instance of RpcCall that TLC checks: two callers with the server's   *)
(* key and one with another.  They are not declared interchangeable, which  *)
(* would not be sound for the liveness properties.                          *)
EXTENDS RpcCall
=============================================================================
