----------------------------- MODULE MCExchange -----------------------------
(* The instance of Exchange that TLC checks: lengths of two binary digits, *)
(* and sealed messages that do not fit them.                               *)
EXTENDS Exchange
=============================================================================
