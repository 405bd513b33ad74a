# TLA+ models of event-mesh

event-mesh watches Kubernetes events in several clusters, filters them, stores
them in MySQL and turns the admitted ones into notifications routed by an
Alertmanager-style routing tree. The routing tree lives in `config/route.yml`.
The process generates that file itself from two kinds of custom resources,
`Receiver` and `EventRoute`, and reloads it whenever it changes.

This directory holds TLA+ modules for the concurrent parts of that pipeline,
the TLC configurations that check them, and `PROJECT.json`. `PROJECT.json`
lists the components, runs, mutants, source map, findings and hazards.

## The system (inventory)

| Part | Source | State | Operations | Concurrency |
|---|---|---|---|---|
| Start-up | `cmd/main.go`, `cmd/module/k8s.go` | – | `SetupK8s` starts `EnableK8sWatcher` in a goroutine, then `RunAlertDispatch` runs | The watchers and the dispatcher start in parallel |
| Route manager and generator | `pkg/k8s/events/route.go`, `config_generator.go` | `cg.Receivers`, `cg.Route.Routes`, `listerSynced*` flags, `route.yml` | Add/Update/Delete for Receiver and EventRoute; `GeneratorConfig` | One handler goroutine per informer, plus the start-up goroutine; an RWMutex (misused in `appendReceiver`) |
| Config coordinator | `pkg/config/coordinator.go` | `c.config`, success gauge | `Reload` = load, subscribers, gauge | Called by the start-up code and by the reload goroutine, under a mutex |
| Dispatch wiring | `cmd/module/alert.go` | `config.StaticRoute`, `config.StaticPipeline` | The subscriber builds integrations and publishes the route tree and the pipeline; `configWatcher`; the SIGHUP/reload loop | fsnotify goroutine, reload goroutine |
| Event watcher | `pkg/k8s/events/watcher.go`, `controller.go` | The informer's FIFO and indexer | List, watch, relist after a broken watch; `AddFunc`/`UpdateFunc` filter the event | The reflector and the processor goroutine of each cluster's informer |
| Event handling | `pkg/k8s/events/handler.go` | – | `go Handle2`: `insertMysql`, then `go insertAlerts` (match the route, execute the pipeline) | One goroutine per admitted event |
| Admission filter | `pkg/k8s/events/filter.go`, `cmd/config/config.go` | A cuckoo filter of components and reasons; the start time | `InitDefault`, `Append*`, `Filter`; the cluster's lists from the resolver | Per-cluster informer goroutine |
| Cluster manager | `pkg/k8s/clustermesh/*`, `pkg/k8s/kubeutil/config.go` | `eventWatchers`, clients | `AddFunc` → `AddCluster`, `DeleteFunc` → `DeleteCluster` | Cluster informer goroutine vs `GetClient` readers |
| Yach notifier | `pkg/notify/yach/yach_robot.go` | – | `Notify`: sign, POST, classify the result | Inside the pipeline |
| Alert store | `pkg/provider/mem/mem.go` | Alerts, listeners | `Put`, `Subscribe`, GC | Nothing calls `Put` (it is commented out in `insertAlerts`) |

How the parts interact: the informer handlers rebuild the generator's tree and
write `route.yml`. The write fires fsnotify. `configWatcher` asks the reload
goroutine to call `Reload`. The subscriber publishes a new route and pipeline.
The event goroutines read both to notify.

Hard behaviours:
- unsynchronised writers of one file;
- a snapshot written after the lock is released;
- flags set before the handlers have caught up;
- two globals published in two steps;
- goroutines that read the globals before the first publication;
- a watch that starts after the first read;
- a reload whose failure leaves part of the state changed.

## Modules

### `RouteConfigGenerator.tla`: route manager and generator

This module models `route.go` and `config_generator.go`. Its state is as
follows:
- the API server's objects (`rcvApi`, `routeApi`);
- the notifications buffered for each handler goroutine (`rcvQ`, `routeQ`);
- the two synced flags;
- the generator's lists (`receivers`, `routes`);
- `route.yml` (`file`).

There are three goroutines:
- `init`: `EnableK8sWatcher` running `ReceiverInit`, then `EventRouteInit`;
- `rcv` and `route`: the informers' handlers.

Each has a program counter `pc`. `ret` is the return point of the shared
`GeneratorConfig` subroutine.

The actions, and the code each one models:
- `AddReceiver`, `UpdateReceiver` + `UpdateReceiverAppend`, `DeleteReceiver`
  (and the same for EventRoute) are the handler closures. Each ends with the
  `if synced && synced { GeneratorConfig() }` check (`AfterMutation`). An
  update with a changed spec is two steps because `removeReceiver` and
  `appendReceiver` take the lock separately.
- `GenSnap` is `generateYaml` under the read lock.
- `GenTrunc` and `GenWrite` are `ioutil.WriteFile`: an open with O_TRUNC, then
  a write at offset 0. When a shorter write follows a longer one, the file is
  marked torn.
- `ReceiverInitSynced`, `EventRouteInitStart` and `EventRouteInitSynced` are
  the start-up sequence. `WaitForCacheSync` returns once the initial list is
  queued, not once it has been handled.
- `ApiWrite*` and `Resync*` are the API server and the informers' one-minute
  resync, which delivers update(old = new).
- `WatchBreak(k)` is a broken watch: changes made while it is down reach no
  handler. `ReceiverRelist` and `EventRouteRelist` are the reflector's relist
  (client-go `DeltaFIFO.Replace`). Each listed object is queued as an add, or
  as an update whose old value comes from the informer's cache
  (`rcvCache`, `routeCache`). Each cached object the list no longer has is
  queued as a `DeletedFinalStateUnknown` tombstone. `Replace` and
  `ListDeltas` model this from client-go, which is not in the source tree.
- `DeleteReceiver` and `DeleteEventRoute` go through `ObjToV1Receiver` and
  `ObjToV1EventRoute` (route.go), which unwrap a tombstone. A delete whose
  unwrap fails is ignored.

Data is abstracted as follows. A Receiver's spec is whether it keeps an
integration. An EventRoute's spec is the receiver it names; that receiver may
be any name in `RcvRefs`, because nothing checks that it exists.

### `ConfigReload.tla`: coordinator, reload loop, watcher and event reads

This module models `coordinator.go`, `alert.go` and `insertAlerts` in
`handler.go`.

A configuration is a record: an ordered list of child routes (each has
the set of label values its matchers accept, and names a receiver; an event's
label is its namespace), and a receiver list.
- `Pipeline(c)` is the subscriber's receivers map: active receivers only, with
  the last entry of a name winning.
- `RouteOf(c)` is `generateYaml`'s tree (config_generator.go): a root that
  names the default receiver and accepts every alert, with one child per
  route, each with continue=false. `MatchedReceivers` applies
  `RoutingTree`'s `Match` to it, the way `insertAlerts` does.
- `Exec` is the routing stage's receiver lookup, also modelled from the spec.

The actions, and the code each one models:
- Reload goroutine: `ReloadOnHup` and `ReloadOnWatch` (its `select`),
  `loadFromFile`, `SubscriberBuild` (`notifySubscribers`, which fails when
  `buildReceiverIntegrations` fails for a receiver some route uses),
  `PublishRoute`, and `PublishPipeline` with the gauge set to 1 (`ReloadSucceeded`).
  `Finish` returns the result over `errc`, or exits on a start-up failure.
  `Init` is `NewCoordinator`: no configuration and the gauge at 0.
- A receiver fails to build when its notifier constructor fails
  (`NotifierNew`, i.e. `yach.New`'s HTTP client); `BadReceivers` names them.
- configWatcher: `WatcherStart` (`watcher.Add`), `WatcherOnWrite`, and
  `WatcherOnRemove`, which re-adds the watch after a Remove but requests no
  reload (the call is commented out).
- Environment: `WriteFile` (a generator write, possibly of garbage: an empty
  or torn file), `RotateFile` (a ConfigMap-style symlink swap, seen as a
  Remove) and `SendHup`.
- Events: `ReadRoute` (`StaticRoute` and Match: the matched receivers are
  stored as the event's pending list) and `ExecPipeline`, one turn of
  `insertAlerts`' loop over them. Each turn reads `StaticPipeline` again.
  A read before the first publication panics (outcome `"crash"`). This is
  reachable, because `main` starts the watchers (`SetupK8s`) before
  `RunAlertDispatch`'s start-up Reload.
- An event's outcome is the set of receivers it reached, or `"drop"` or
  `"crash"`.

`Alive` is false once the process has exited or panicked. After that, only the
`Stopped` stutter remains.

### `RoutingTree.tla`: the routing tree's Match

This module models `dispatch.Route`'s `Match` and `Walk` from the spec's
RoutingEngine contract (section 4.4), because `pkg/dispatch` is not in the
source tree. A route is a record: its receiver, the label values its matcher
list accepts, its continue flag, and its children in order. `Match` and
`MatchChildren` are mutually recursive:
- a route that rejects the alert matches nothing;
- the children are tried in order, and the loop stops after the first child
  that matched with continue=false;
- a matching route none of whose children matched is itself the match.

No property is checked of `Match` alone. It is not code of this repository,
so a check of it against another definition would hold whatever the code
does. What the runs check is the code around it: the tree `generateYaml`
builds (`RouteOf`) and how `insertAlerts` reads it.

`ConfigReload` extends this module and routes events through it.

### `Coordinator.tla`: the coordinator's contract, and the refinement

`Coordinator` is the abstract specification of spec section 4.6, written from
the spec. Reloads are serialized. Each reload loads the file. A parse
failure keeps the configuration and sets the gauge to 0. A parse success
makes the file current and hands it to the subscriber, which either commits it
in one swap with gauge 1 or fails with gauge 0. `Halt` is the process
ending, and `WF(Complete)` says a reload that began completes.

`ConfigReload` ends with `Coord == INSTANCE Coordinator WITH ...`, and the
`reload` run checks `ImplementsCoordinator == Coord!Spec`. The mapping:
- `config` is `c.config`;
- `applied` is `config.StaticRoute`: the commit is `PublishRoute`;
- `gauge` is the success gauge, read as 1 from the route publication on;
  `PublishPipeline` is then a stutter;
- `phase` is `Load` while loading, `Notify` from the load's success to the
  route publication, `Down` once an event goroutine has panicked, else `Idle`.

The refinement holds. What it does not say, because the contract has one
committed snapshot, is that the pipeline is published in a second step;
`NoSpuriousDrop` (violated) shows what that costs.

### `EventWatcher.tla`: one cluster's event informer

This module models `NewEventControllerWatcher` (`watcher.go`),
`EventsController.Run` (`controller.go`) and the goroutines the handlers start
(`handler.go`). The informer itself is client-go, outside the tree. Its
observable behaviour is modelled:
- `ListAndReplace`: list, then `DeltaFIFO.Replace`, which queues a Sync for
  each listed Event and a tombstone for each known Event that is gone. Then
  the watch starts.
- `WatchRecv`: the reflector moves a watch event into the FIFO.
- `WatchBreak`: the watch ends with "too old resource version". Undelivered
  changes are lost, and the reflector must list again.
- `ProcessUpsert` and `ProcessDelete`: the processor pops a delta, updates the
  indexer, and calls `OnUpdate` when the key was in the indexer, else
  `OnAdd`. The `DeleteFunc` is empty.
- `OnAdd` and `OnUpdate` are the repository's handlers: unless the filter
  drops the (new) Event, `go Handle2`.
- `Handle2` runs `insertMysql` (no write with env "" or "dev"; otherwise
  `AddEventHistory`, which may fail and is only logged) and starts
  `insertAlerts`, recorded as the Event state it routes.

The API server creates Events, bumps their count and expires them. An Event
is a key, a count, and whether its timestamp is after the watcher's start.
Events already present when the watcher starts are not fresh.

### `EventFilter.tla`: the admission filter

This module models `filter.go`. `NewEventFilter` runs four loops, one key per
step: `InitDefaultAdd`, `InitDefaultDelete`, `AppendFilterList` and
`AppendNotFilterList`, then `NextLoop` moves on. `FilterEvent` is `Filter`:
`filterTime` (strict `After`), then the component and reason lookups.

The cuckoo table is abstracted to the set of fingerprint-and-bucket
signatures it holds (`cf`), under a hash `sig` fixed in `Init`. Two keys with
one signature are one key to the table. `AddUnique` stores nothing for the
second, and `Delete` of either removes the shared tag. The table's capacity is
not modelled, because the cuckoo library is outside the source tree.

The cluster's lists come from the `ConfigResolver`: `GetEventSinksFilters` and
`GetEventSinksNotFilters` take the first `eventSinks` entry for the cluster,
and a later entry for the same cluster is ignored. `Init` takes them from any
of `SinkLists`.

### `ClusterManager.tla`: the cluster manager

This module models `clustermanager.go`, `client.go` and `kubeutil.LoadConfig`.
The API server (`ApiCreate`, `ApiUpdate`, `ApiDelete`) queues notifications
for the informer's one handler goroutine. `AddFunc`, `UpdateFunc` and
`DeleteFunc` are its callbacks; they call the manager's methods.
- `AddCluster` follows the code's order. The dev gate comes first. Then
  `GetClient` caches the client, or builds it by reading the Cluster back
  (`LoadConfig` of a bad kubeconfig exits or yields no client).
  Then the exclusion list is checked. Finally `NewEventControllerWatcher`
  starts, or panics on a nil client.
- `UpdateFunc` returns on equal objects; `UpdateCluster` only logs.
- `DeleteCluster` looks up `metadata.clusterName`. It panics when the lookup
  fails, because it calls `Stop` on the nil watcher. Otherwise it deletes the
  map entries and never stops the watcher.
- `ApiCreate` leaves `metadata.clusterName` empty, as the API server stores
  it. `AddCluster` stores watchers under `Name`, so the lookup always fails,
  and every handled delete panics. No property about tracking clusters across
  deletions can therefore hold, and the module is checked only for its panic
  (`cluster_handler_panic`).

### `YachNotify.tla`: the Yach robot notifier

This module models `yach_robot.go`.
- `genMarkdown` is abstracted to each alert's heading and the `@` mention
  (the last non-empty workcode wins).
- `Classify` is `Notify`'s mapping of a response to `(retry, err)`.
- The robot's behaviour on each attempt is chosen from `Outcomes`.
- The retry stage around it (`Retry`, `GiveUp`, `CtxExpire`) is Alertmanager's
  `RetryStage`, modelled from the spec.

### `AlertStore.tla`: the in-memory alert store

This module models `mem.go`. Each goroutine of the code is a process of the
model:
- `Put` takes three steps: `PutGet` (Get and the merge decision), `PutSet`
  (Set and `go Listeners`), and `PutSubscribe` (the trailing `Subscribe`,
  whose iterator is dropped).
- Each `Listeners` goroutine takes three steps: `LLock`, then `LSend` once per
  listener, then `LUnlock`. `LSend` is the `select` of the send and
  `<-l.done`. With neither ready, it blocks while holding the mutex.
- Clients call `Subscribe`, then `Receive` and `CloseIter`. These stand for
  the iterator.
- `Subscribe` pre-fills the channel with `List()` and registers the listener
  under the mutex. The client is then owed that snapshot (`owed`), and every
  alert stored while it stays subscribed.
- `NewAlerts` starts the GC loop (`go a.alerts.Run`), but
  `SetALertMemProvider` defers `alerts.Close()`. The loop's context is
  therefore cancelled as the provider is returned, 30 minutes before its
  first tick. The model's GC loop has one step, `GCRunExit`. The GC sweep and
  the callback that reaps closed listeners (mem.go:59-78) never run, so they
  are not modelled.

`store.Alerts` (its Set and List) and `types.Alert.Merge` come from
Alertmanager and are modelled from the spec. An alert is a fingerprint plus an
activity range, and is identified by the number of the `Put` that stored it.

## Runs

| Run | Result | What it shows |
|---|---|---|
| `generator_matches_api` | pass | `GeneratorMatchesApi` holds: once a handler has drained its queue and its watch is up, the generator has exactly one entry per live resource, with its current spec. This holds across creations, edits, resyncs, deletions, broken watches, relists with tombstones, and the start-up sequence. |
| `generator_file_stale` | violation of `FileCurrentWhenQuiescent` | Once everything is quiescent, `route.yml` should be untorn and equal to the generator's YAML. Start-up's snapshot (taken without the route) is written last. `route.yml` then lacks a route the generator holds. Nothing rewrites it until the next change or the informers' one-minute resync. |
| `reload` | pass | Four properties hold. `GaugeMeansApplied`: the gauge is 1 only over a fully applied `c.config`. `WatchRequestAnswered`: every configWatcher request is answered. `ReportedWriteApplied`: a reported write of a buildable configuration ends up running. `ImplementsCoordinator`: the reload path refines `Coordinator`. |
| `reload_mixed_read` | violation of `NoSpuriousDrop` | An event matches with the new `StaticRoute`, then runs the old `StaticPipeline`. The receiver is missing from that pipeline, so the event is dropped. |
| `reload_missed_write` | violation of `EventuallyRunsFile` | `route.yml` is written between the start-up Reload's read and `watcher.Add`, or replaced by a symlink swap that only yields a Remove. No reload follows, so the old configuration keeps running until `route.yml` is written again (at the latest by the generator's resync-driven rewrite). |
| `filter_matches_reference` | pass | When the hash tells the keys apart, `Filter` drops exactly the events the spec's layered block set or start-time rule drops. This holds for every cluster list and start time. |
| `event_watcher_relist` | pass | `LatestStateRouted`: through creations, bumps, expiries, a broken watch and the relist after it, the latest admitted state of every Event reaches `insertAlerts`. |
| `cluster_handler_panic` | violation of `NoHandlerPanic` | A Cluster is deleted before its add is handled. `CreateClient` fails, and the nil client is dereferenced. |
| `yach_retry` | pass | `Notify` marks every failure it sees as retryable, so the stage gives up only when attempts run out or the context expires. |
| `alert_store_fanout` | pass | `NoLostAlert` holds: an alert in the store when a client subscribes, or stored while it is subscribed, reaches the client through its snapshot or its feed. |
| `alert_store_gc_cancelled` | violation of `ClosedSubscriberReaped` | The spec says a closed subscriber is reaped at the next GC cycle. The deferred `alerts.Close()` cancels the GC loop at start-up, so a closed subscriber's listener stays registered for good. |
| `alert_store_put_stall` | violation of `PutReturns` | A channel nobody reads fills up. `Listeners` then blocks with the mutex held, and `Put`'s `Subscribe` never returns. Deadlock checking is off in this cfg because the stall is itself a deadlock, and the run reports it as the liveness violation. |

Each property of a passing run has a mutant in `PROJECT.json`: a plausible bug
in the mapped code that TLC catches with the run's own cfg.

## Bounds and why they suffice

`MCRouteConfigGenerator` uses:
- one Receiver name and one EventRoute name;
- two receiver names a route may name;
- three API changes or resyncs, and watch breaks among them.

Under these bounds every handler path is reached: add, update with and without
a change, and delete. Initial lists in any order, and start-up racing the
handlers, are reached too. Tearing needs only a longer write followed by a
shorter one, and staleness needs only one snapshot that misses one entry. With
two Receiver names the state space grows beyond the time budget without adding
new cases. A relist after one broken watch is enough for both a tombstone
(the object was deleted while the watch was down) and an update whose old
value is the cache's. The run has about 5.2 M states and takes about 2 min.

`MCConfigReload` uses three configurations:
- c1 routes label a to r1. c2 routes a to r2 first and {a,b} to r1 second,
  so its second route is shadowed for a. Mixing c1 and c2 drops an event;
- c2 also lists a receiver that no route of it uses;
- c3 routes b to r3, whose notifier constructor fails (`BadReceivers`), so
  `buildReceiverIntegrations` fails.

It also has one garbage content, two events, and three writes or SIGHUPs.
That is enough for these orders: a write before the watch, a write during a
reload, a SIGHUP competing with a watcher request, and a failure after a
success.

`MCEventFilter` uses four keys: two defaults, one exception and one other.
Every cluster list over them and start times 1..2 are included, and
`FilterEvent` ranges over every event shape. The lists come from a resolver
with no entry for the cluster, with one after another cluster's entry, or
with two entries for the cluster (the second ignored).

`MCEventWatcher` uses two Event keys, one of them blocked by the filter, and
the envs "dev" (no history write) and "prod". Counts go up to 2, with three
API changes and one watch break. That is enough for a change lost in a
broken watch, an Event that expires unseen and becomes a tombstone, and an
update racing the relist. The run has about 51 k states and takes 10 s.


`MCClusterManager` uses three names: the dev cluster, an excluded one and an
ordinary one. It checks both environments and four API changes, which is
enough for a create, a delete and a resync around one handler step. The
panic it finds takes three steps: a create, a delete, and then the queued add.

`MCYachNotify` uses batches of up to two alerts, two workcodes and three
attempts. Every robot outcome can occur at every attempt.

`MCAlertStore` uses one fingerprint and ranges in 0..2. It
has one putter with two `Put`s, one client and a channel length of 3. The
stall cfg uses a channel length of 1. Two `Put`s give two `Listeners`
goroutines, and a subscriber can arrive before, between and after them. With
three `Put`s and a channel length of 3, `Put`'s own unread listener fills up,
and the run stalls as `alert_store_put_stall` shows. A second client passes
too (7.3 M states), but takes close to 3 min and adds no case a single client
subscribing before, between and after the `Put`s misses. The pass run has
about 68 k states and takes a few seconds.

## Fairness

Weak fairness is assumed only for goroutines the Go runtime keeps runnable:
- the handler goroutines, the start-up goroutine and `GeneratorConfig`'s steps;
- the reflector's relist after a broken watch (client-go retries the list
  and watch in a loop);
- the reload goroutine, `configWatcher`, and each `insertAlerts` goroutine that
  has started;
- in `EventWatcher`, the informer's reflector and processor and each started
  `Handle2` and `insertAlerts` goroutine. The API server owes nothing: an
  Event may never change again, and the watch may break (up to the bound).

In `AlertStore` these are the putters, each `Listeners` goroutine and the GC
loop's exit. Clients read at their own pace. Even with this fairness, nothing
reaps a closed subscriber: that is what `alert_store_gc_cancelled` shows.

The API server, file writers, SIGHUPs, event arrivals and subscribers get no
fairness.

## Not modelled, and the plan

Modelled: the generator and the reload path; the admission filter, the
cluster manager, the Yach notifier and the alert store; the event informer
with relists; the coordinator's contract with its refinement; the symlink
rotation and notifier build failures; the resolver lookups; the recursive
routing tree; and the generator's own informers with
broken watches, relists and tombstones.

Not done, and why:
- **Composition of the generator and the reload path.** `route.yml` written by
  `RouteConfigGenerator`'s file steps and read by `ConfigReload`'s load. The
  generator alone has 5.2 M states, and the product does not finish within the
  run budget. `ConfigReload`'s `Garbage` stands for the empty and torn files
  the generator can leave (shown by `generator_file_stale`).
- **The order of routes in the generator** (config_generator.go:122): an
  updated EventRoute is re-appended last. Checking its effect needs two
  EventRoutes with overlapping matchers, which multiplies the generator's
  state space. c2 shows first-match shadowing in the reload path.
- **Events before the first Reload** (handler.go:187): reachable and modelled
  (`"crash"`), but no run checks a property against it.
- Dispatcher aggregation groups, group_wait and repeat timers, and
  inhibition: `pkg/dispatch` is not in the tree.

Left out for good:
- the alert store's `GetPending` and `Get`: read-only, with no caller;
- concurrent `Put`s of one fingerprint: left out for state-space reasons;
- the GC sweep and its callback: the program cancels the GC loop before its
  first tick;
- a property of `Match` alone: it is spec-modelled code outside the tree;
- `api/model` CRUD (receivers, rules, history queries): it has no caller in
  the tree, and the spec puts persistence out of scope. `Db` and `DbPlat` are
  set only by `NewMysqlConn`, which nothing calls either. The models take the
  database as opened elsewhere; `AddEventHistory` may still fail;
- `EventWatcher.Stop`: it is reached only through `DeleteCluster`'s inverted
  lookup, with a nil watcher, and that path is the panic `ClusterManager`
  models;
- the resolver's `GetDbConfig`, `GetSessionStore` and `GetSlsConfig`: no
  caller; flag parsing: read once;
- `ElEvent.Handle` and `log`: no caller;
- CRD types, the generated clientset and logging.
