---------------------------- MODULE MCConfigReload ----------------------------
(* Three configurations route.yml can hold: c1 routes namespace "a" to    *)
(* r1; c2 routes "a" to r2 and, through a second EventRoute whose matcher  *)
(* accepts "a" and "b", everything else to r1, which the first route       *)
(* shadows for "a"; c3 routes "b" to r3, whose notifier cannot be built,   *)
(* so c3 is never applied.  Every one defines the receivers it routes to.  *)
(* One event in each namespace.  The routing tree is checked on every tree *)
(* of depth 2 and fan-out 2 whose routes accept "a" or both namespaces.    *)
EXTENDS ConfigReload

CONSTANTS ev1, ev2, garbage, noConfig

DefaultEntry == [name |-> "default", configured |-> FALSE]

MCc1 == [routes |-> <<[matchers |-> {"a"}, receiver |-> "r1"]>>,
         receivers |-> <<DefaultEntry, [name |-> "r1", configured |-> TRUE]>>]
MCc2 == [routes |-> <<[matchers |-> {"a"}, receiver |-> "r2"],
                      [matchers |-> {"a", "b"}, receiver |-> "r1"]>>,
         receivers |-> <<DefaultEntry, [name |-> "r1", configured |-> TRUE],
                        [name |-> "r2", configured |-> TRUE]>>]
MCc3 == [routes |-> <<[matchers |-> {"b"}, receiver |-> "r3"]>>,
         receivers |-> <<DefaultEntry, [name |-> "r3", configured |-> TRUE]>>]

MCConfigs == {MCc1, MCc2, MCc3}
MCBadReceivers == {"r3"}
MCGarbage == {garbage}
MCEvents == {ev1, ev2}
MCEventNs == (ev1 :> "a") @@ (ev2 :> "b")
MCLabels == {"a", "b"}
MCMatchers == {{"a"}, {"a", "b"}}
==============================================================================
