------------------------------ MODULE MCAlertStore ------------------------------
(* One fingerprint, so every Put after the first meets a stored alert;     *)
(* two putters, so their Get and Set interleave.                           *)
EXTENDS AlertStore

CONSTANTS f1, p1, p2, c1, noAlert
==============================================================================
