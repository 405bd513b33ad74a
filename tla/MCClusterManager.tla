---------------------------- MODULE MCClusterManager ----------------------------
(* The dev cluster, one of the three excluded clusters and one ordinary     *)
(* cluster, named as in clustermanager.go.                                 *)
EXTENDS ClusterManager

MCNames == {"k8s-dev", "aliyun-us-rock-online", "c1"}
MCExcluded == {"aliyun-us-rock-online"}
==============================================================================
