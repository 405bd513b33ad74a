----------------------------- MODULE MCEventFilter -----------------------------
(* Four keys from filter.go's lists: a default blocked reason, a default    *)
(* blocked component, a default exception and a key in no list.  The      *)
(* cluster's lists are any subsets of them, from config.yml's only entry   *)
(* for the cluster or its first of two; a file with no entry for it too.  *)
EXTENDS EventFilter

CONSTANTS s1, s2, s3, s4, noEvent

MCKeys == {"SuccessfulCreate", "pipeline-controller", "Killing",
           "cronjob-controller"}
MCDefaultFilters == {"SuccessfulCreate", "pipeline-controller"}
MCDefaultNotFilters == {"Killing"}
MCCluster == "k8s-a"
Sink(c, f, n) == [cluster |-> c, filters |-> f, notFilters |-> n]
MCSinkLists ==
  {<<>>, <<Sink("k8s-b", MCKeys, {})>>}
  \cup {<<Sink("k8s-b", {}, MCKeys), Sink(MCCluster, f, n)>> : f, n \in SUBSET MCKeys}
  \cup {<<Sink(MCCluster, f, n), Sink(MCCluster, MCKeys, {})>> : f, n \in SUBSET MCKeys}

MCSigs == {s1, s2, s3, s4}

\* A hash under which no two keys share a fingerprint and bucket pair.
MCHashInjective ==
  {[k \in MCKeys |->
      CASE k = "SuccessfulCreate"    -> s1
        [] k = "pipeline-controller" -> s2
        [] k = "Killing"             -> s3
        [] k = "cronjob-controller"  -> s4]}

==============================================================================
