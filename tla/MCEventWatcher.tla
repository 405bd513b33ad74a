---------------------------- MODULE MCEventWatcher ----------------------------
(* Two Events, one of them blocked by the filter; both "dev" (log only)    *)
(* and a production env (history rows) are possible initial states.        *)
EXTENDS EventWatcher

CONSTANTS k1, k2

MCKeys == {k1, k2}
MCBlocked == {k2}
MCEnvs == {"dev", "prod"}
==============================================================================
