---------------------------- MODULE MCRetention -----------------------------
(* A small instance of Retention. *)
EXTENDS Retention

CONSTANTS d1, d2

OneDaemon == <<d1>>
TwoDaemons == <<d1, d2>>
=============================================================================
