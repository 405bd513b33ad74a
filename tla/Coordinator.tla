------------------------------ MODULE Coordinator ------------------------------
(***************************************************************************)
(* The configuration coordinator's contract, as spec section 4.6 states  *)
(* it.  Reloads are serialized: one at a time loads the hand-off file.  A  *)
(* parse failure keeps the previous configuration and sets the success     *)
(* gauge to 0.  A parse success makes the new configuration current, then  *)
(* hands it to the subscriber.  The subscriber either commits it as the    *)
(* applied routing snapshot, in one swap, with gauge 1, or fails and sets  *)
(* gauge 0.  The file is written by the environment at any time.          *)
(* ConfigReload is checked to implement this specification.              *)
(***************************************************************************)
CONSTANTS Configs, Garbage, NoConfig

VARIABLES
  file,     \* content of the hand-off file
  config,   \* the current configuration
  applied,  \* the routing snapshot the subscriber last committed
  gauge,    \* last reload successful
  phase     \* "Idle", "Load" (reading the file), "Notify" (subscriber),
            \* "Down" (the process has exited)

cvars == <<file, config, applied, gauge, phase>>

\* The one-time start-up load is in progress.
Init ==
  /\ file \in Configs \cup Garbage
  /\ config = NoConfig /\ applied = NoConfig /\ gauge = 0
  /\ phase = "Load"

\* A file-write notification or a reload signal starts a reload.
Begin == phase = "Idle" /\ phase' = "Load" /\ UNCHANGED <<file, config, applied, gauge>>

LoadFail ==
  /\ phase = "Load" /\ file \notin Configs
  /\ gauge' = 0 /\ phase' = "Idle"
  /\ UNCHANGED <<file, config, applied>>

LoadOk ==
  /\ phase = "Load" /\ file \in Configs
  /\ config' = file /\ phase' = "Notify"
  /\ UNCHANGED <<file, applied, gauge>>

NotifyFail ==
  /\ phase = "Notify"
  /\ gauge' = 0 /\ phase' = "Idle"
  /\ UNCHANGED <<file, config, applied>>

NotifyOk ==
  /\ phase = "Notify"
  /\ applied' = config /\ gauge' = 1 /\ phase' = "Idle"
  /\ UNCHANGED <<file, config>>

Write(c) == file' = c /\ UNCHANGED <<config, applied, gauge, phase>>

\* A panic elsewhere in the process ends it, a reload in progress included.
Halt == phase # "Down" /\ phase' = "Down" /\ UNCHANGED <<file, config, applied, gauge>>

Complete == LoadFail \/ LoadOk \/ NotifyFail \/ NotifyOk

Next == Begin \/ Complete \/ Halt \/ \E c \in Configs \cup Garbage : Write(c)

\* A reload that has begun completes.
Spec == Init /\ [][Next]_cvars /\ WF_cvars(Complete)
================================================================================
