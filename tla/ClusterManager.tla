---------------------------- MODULE ClusterManager ----------------------------
(***************************************************************************)
(* The cluster manager (src/pkg/k8s/clustermesh): the Cluster informer's   *)
(* handler goroutine turns Cluster resources into per-cluster event        *)
(* watchers.                                                               *)
(*                                                                         *)
(* AddCluster skips every cluster but the dev one when env is "dev", gets  *)
(* a client (cached in kcClients, or built by reading the Cluster back     *)
(* from the API server), and unless the cluster is on the excluded list    *)
(* starts NewEventControllerWatcher and stores it under cluster.Name.      *)
(* With a nil client NewEventControllerWatcher dereferences it and the     *)
(* process panics.  UpdateCluster does nothing.  DeleteCluster looks the   *)
(* watcher up under the object's metadata.clusterName, calls Stop only when *)
(* the lookup FAILS (on the nil watcher, a panic), and deletes the map and *)
(* client entries under clusterName.  A started watcher runs until its     *)
(* StopCh is signalled, which no reachable path does, so `running` only    *)
(* grows.                                                                  *)
(*                                                                         *)
(* All handlers run on the informer's one processor goroutine, in the      *)
(* order the API server's notifications are queued; the API server runs   *)
(* concurrently with it.                                                   *)
(***************************************************************************)
EXTENDS Naturals, Sequences, FiniteSets, Functions, TLC

CONSTANTS
  Names,          \* Cluster resource names
  DevCluster,     \* "k8s-dev"
  Excluded,       \* the three names AddCluster never watches
  BadConfig,      \* clusters whose kubeconfig yields no client
  Envs,           \* values of the env variable
  MaxOps          \* bound on API server changes

ASSUME DevCluster \in Names /\ Excluded \subseteq Names /\ BadConfig \subseteq Names

VARIABLES
  env,            \* os.Getenv("env"), fixed for the process
  api,            \* live Cluster objects: name -> metadata.clusterName
  q,              \* the informer's queued notifications
  eventWatchers,  \* m.eventWatchers: key -> watcher
  kcClients,      \* keys of m.clusterClient.kcClients
  running,        \* watchers whose informer is running
  nextId,         \* watchers created so far
  crashed,        \* the process has panicked
  ops             \* API server changes so far

vars == <<env, api, q, eventWatchers, kcClients, running, nextId, crashed, ops>>

Keys == Names \cup {""}
Watcher == [name : Names, id : Nat]
Notification == [op : {"add", "update", "delete"}, name : Names, cn : Keys,
                 changed : BOOLEAN]

Alive == ~crashed

-----------------------------------------------------------------------------
(* The API server and the Cluster informer                                  *)

\* A Cluster is created by name; its deprecated metadata.clusterName is
\* left empty, as the API server stores it.
ApiCreate(n) ==
  /\ Alive /\ ops < MaxOps
  /\ n \notin DOMAIN api
  /\ api' = api @@ (n :> "")
  /\ q' = Append(q, [op |-> "add", name |-> n, cn |-> "", changed |-> TRUE])
  /\ ops' = ops + 1
  /\ UNCHANGED <<env, eventWatchers, kcClients, running, nextId, crashed>>

\* An edit of the Cluster, or the one-minute resync's update(old = new).
ApiUpdate(n) ==
  /\ Alive /\ ops < MaxOps
  /\ n \in DOMAIN api
  /\ \E changed \in BOOLEAN :
       q' = Append(q, [op |-> "update", name |-> n, cn |-> api[n],
                       changed |-> changed])
  /\ ops' = ops + 1
  /\ UNCHANGED <<env, api, eventWatchers, kcClients, running, nextId, crashed>>

ApiDelete(n) ==
  /\ Alive /\ ops < MaxOps
  /\ n \in DOMAIN api
  /\ api' = Restrict(api, DOMAIN api \ {n})
  /\ q' = Append(q, [op |-> "delete", name |-> n, cn |-> api[n], changed |-> TRUE])
  /\ ops' = ops + 1
  /\ UNCHANGED <<env, eventWatchers, kcClients, running, nextId, crashed>>

-----------------------------------------------------------------------------
(* The handlers                                                             *)

\* ClusterClient.GetClient: a cached client, or CreateClient, which Gets the
\* Cluster from the API server now and loads its kubeconfig.
\* kubeutil.LoadConfig of the Cluster's spec.kubeConfig: a config that does
\* not parse is log.Fatalf (the process exits), one with no context is an
\* error and a nil client; either way AddCluster ends the process.
LoadConfig(n) == n \notin BadConfig

ClientOk(n) == n \in kcClients \/ (n \in DOMAIN api /\ LoadConfig(n))

\* AddCluster's early return in the dev environment.
DevSkip(n) == env = "dev" /\ n # DevCluster

\* NewEventControllerWatcher, whose controller runs until StopCh, stored
\* under cluster.Name (overwriting any watcher already there).
StartWatcher(n) ==
  LET w == [name |-> n, id |-> nextId + 1] IN
  /\ eventWatchers' = [k \in DOMAIN eventWatchers \cup {n} |->
                         IF k = n THEN w ELSE eventWatchers[k]]
  /\ running' = running \cup {w}
  /\ nextId' = nextId + 1

\* ClusterManager.AddCluster(cluster): the dev gate, GetClient (its error
\* only logged), then unless the cluster is excluded a new watcher stored
\* under cluster.Name; a nil client makes NewEventControllerWatcher panic.
AddCluster(n) ==
  IF DevSkip(n)
    THEN UNCHANGED <<eventWatchers, kcClients, running, nextId, crashed>>
    ELSE
      /\ kcClients' = IF ClientOk(n) THEN kcClients \cup {n} ELSE kcClients
      /\ IF n \in Excluded
           THEN UNCHANGED <<eventWatchers, running, nextId, crashed>>
         ELSE IF ~ClientOk(n)
           THEN crashed' = TRUE
                /\ UNCHANGED <<eventWatchers, running, nextId>>
         ELSE StartWatcher(n) /\ UNCHANGED crashed

\* ClusterManager.DeleteCluster(cluster), keyed by metadata.clusterName: the
\* inverted lookup calls Stop on the nil watcher when the key is absent;
\* otherwise both map entries are deleted and the watcher is not stopped.
DeleteCluster(cn) ==
  IF cn \notin DOMAIN eventWatchers
    THEN crashed' = TRUE
         /\ UNCHANGED <<eventWatchers, kcClients>>
    ELSE /\ eventWatchers' = Restrict(eventWatchers, DOMAIN eventWatchers \ {cn})
         /\ kcClients' = kcClients \ {cn}
         /\ UNCHANGED crashed

\* The informer's handlers, one notification at a time.  AddFunc: convert,
\* DeepCopy, AddCluster.
AddFunc ==
  /\ Alive /\ q # <<>> /\ Head(q).op = "add"
  /\ AddCluster(Head(q).name)
  /\ q' = Tail(q)
  /\ UNCHANGED <<env, api, ops>>

\* UpdateFunc: returns on DeepEqual; otherwise UpdateCluster only logs.
UpdateFunc ==
  /\ Alive /\ q # <<>> /\ Head(q).op = "update"
  /\ q' = Tail(q)
  /\ UNCHANGED <<env, api, eventWatchers, kcClients, running, nextId, crashed, ops>>

\* DeleteFunc: ObjToV1beta1Cluster unwraps a tombstone to the last known
\* state; DeleteCluster.
DeleteFunc ==
  /\ Alive /\ q # <<>> /\ Head(q).op = "delete"
  /\ DeleteCluster(Head(q).cn)
  /\ q' = Tail(q)
  /\ UNCHANGED <<env, api, running, nextId, ops>>

\* After a panic the process is gone; once the API server's changes are
\* used up and handled, the handler goroutine waits for the next one.
Stopped == (crashed \/ (ops = MaxOps /\ q = <<>>)) /\ UNCHANGED vars

-----------------------------------------------------------------------------

\* NewClusterManager (its client error only logged) builds empty maps;
\* ClusterMeshInit then starts the informer over an empty cache.
Init ==
  /\ env \in Envs
  /\ api = <<>> /\ q = <<>>
  /\ eventWatchers = <<>> /\ kcClients = {} /\ running = {}
  /\ nextId = 0 /\ crashed = FALSE /\ ops = 0

Next ==
  \/ \E n \in Names : ApiCreate(n) \/ ApiUpdate(n) \/ ApiDelete(n)
  \/ AddFunc \/ UpdateFunc \/ DeleteFunc
  \/ Stopped

Spec == Init /\ [][Next]_vars

-----------------------------------------------------------------------------
(* Properties                                                               *)

\* No informer notification panics the process: deleting a cluster, or
\* adding one the API server no longer has, is not a fatal error.
NoHandlerPanic == Alive
=============================================================================
