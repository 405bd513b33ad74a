----------------------------- MODULE MCYachNotify -----------------------------
(* Two owners, so a batch can carry two different workcodes.               *)
EXTENDS YachNotify
==============================================================================
