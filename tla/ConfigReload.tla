----------------------------- MODULE ConfigReload -----------------------------
(***************************************************************************)
(* Hot reload of the routing configuration and its use by event handlers.  *)
(*                                                                         *)
(*  - Coordinator.Reload (src/pkg/config/coordinator.go) parses            *)
(*    route.yml and calls the single subscriber that RunAlertDispatch      *)
(*    (src/cmd/module/alert.go) registers; the subscriber builds the       *)
(*    receiver integrations and publishes the route tree and the pipeline  *)
(*    in two plain assignments to the globals config.StaticRoute and       *)
(*    config.StaticPipeline.                                               *)
(*  - configWatcher (alert.go) turns an fsnotify Write on route.yml into a *)
(*    reload request and waits for its result; SIGHUP requests one too.    *)
(*  - ElEvent.insertAlerts (src/pkg/k8s/events/handler.go), one goroutine  *)
(*    per admitted event, reads StaticRoute, matches the event's labels    *)
(*    (RoutingTree), then for each matched route reads StaticPipeline and  *)
(*    executes it for the route's receiver.                                *)
(*                                                                         *)
(* A configuration is a record: the child routes of the root, in order,    *)
(* each with the namespaces its matchers accept and the receiver it names, *)
(* and the receiver list, each receiver with or without an integration.    *)
(***************************************************************************)
EXTENDS Naturals, Sequences, FiniteSets, SequencesExt, RoutingTree

CONSTANTS
  Configs,      \* configurations route.yml can hold and LoadFile accepts
  Garbage,      \* content LoadFile rejects (empty, torn, malformed)
  BadReceivers, \* receivers whose notifier constructor returns an error
  Events,       \* admitted cluster events
  EventNs,      \* EventNs[e]: the namespace label of event e
  DefaultRcv,   \* the root route's receiver
  NoConfig,     \* nothing published yet
  MaxWrites     \* bound on writes of route.yml and SIGHUPs

\* Every event carries a namespace label some route can accept.
ASSUME EventNs \in [Events -> Labels]

VARIABLES
  file,         \* content of route.yml
  fileEvent,    \* an fsnotify Write event is queued (inotify coalesces them)
  removeEvent,  \* an fsnotify Remove event is queued (symlink rotation)
  watchOn,      \* configWatcher has added its watch
  watcherPc,    \* configWatcher: "Off", "Wait", "Requested", "Awaiting"
  hup,          \* a SIGHUP is buffered in the hup channel (capacity 1)
  reloadPc,     \* the goroutine running Reload
  reloadCause,  \* "startup", "watch" or "hup"
  coordConfig,  \* c.config
  building,     \* the configuration the subscriber is applying
  successGauge, \* alertmanager_config_last_reload_successful
  staticRoute,  \* config.StaticRoute (the configuration it came from)
  staticPipeline, \* config.StaticPipeline: receiver -> has integrations
  evPc,         \* per event goroutine: "NotYet", "Matched", "Done"
  evRcv,        \* receivers of the matched routes the loop has still to run
  outcome,      \* results so far: "delivered", "silent" (no integration),
                \* "dropped", "crash"
  writes        \* writes and signals so far

vars == <<file, fileEvent, removeEvent, watchOn, watcherPc, hup, reloadPc, reloadCause,
          coordConfig, building, successGauge, staticRoute, staticPipeline,
          evPc, evRcv, outcome, writes>>

envVars == <<file, writes, removeEvent>>
reloadVars == <<fileEvent, watchOn, watcherPc, hup, reloadPc, reloadCause,
                coordConfig, building, successGauge, staticRoute,
                staticPipeline>>
eventVars == <<evPc, evRcv, outcome>>

-----------------------------------------------------------------------------
(* Routing and the pipeline                                                *)

RcvNamesOf(c) == {c.receivers[i].name : i \in 1..Len(c.receivers)}

\* The route tree route.yml holds, as configGenerator builds it: a root
\* naming "default" with no matchers, and one child per EventRoute with
\* its matchers and continue=false.
RouteOf(c) ==
  [receiver |-> DefaultRcv, matchers |-> Labels, continue |-> FALSE,
   routes |-> [i \in 1..Len(c.routes) |->
                [receiver |-> c.routes[i].receiver,
                 matchers |-> c.routes[i].matchers,
                 continue |-> FALSE, routes |-> <<>>]]]

\* The receivers of dispatch.NewRoute(route, nil).Match(labels), in order.
MatchedReceivers(c, ns) ==
  LET m == Match(RouteOf(c), ns) IN [i \in 1..Len(m) |-> m[i].receiver]

\* routes.Walk collects the receivers the tree uses.
ActiveReceivers(c) == WalkReceivers(RouteOf(c))

\* The subscriber's receivers map: one entry per receiver that is both
\* listed and active, `receivers[rcv.Name] = integrations` (the last listed
\* entry of a name wins); the value says whether it has any integration.
Pipeline(c) ==
  [n \in ActiveReceivers(c) \cap RcvNamesOf(c) |->
     c.receivers[SelectLastInSeq(c.receivers, LAMBDA r : r.name = n)].configured]

\* A notifier constructor (yach.New; webhook.New and wechat.New likewise):
\* commoncfg.NewClientFromConfig fails on the receiver's http_config.
NotifierNew(rcv) == rcv.name \notin BadReceivers

\* buildReceiverIntegrations: a constructor for each of the receiver's
\* configs; any error is collected and fails the receiver.
buildReceiverIntegrations(rcv) == NotifierNew(rcv)

\* The subscriber's loop over conf.Receivers: a receiver no route uses is
\* skipped, and the first build error aborts the subscriber.
BuildsOk(c) ==
  \A i \in 1..Len(c.receivers) :
    c.receivers[i].name \in ActiveReceivers(c) => buildReceiverIntegrations(c.receivers[i])

Unbuildable == {c \in Configs : ~BuildsOk(c)}

\* The pipeline's RoutingStage looks the receiver up; a missing receiver is
\* an error ("stage for receiver missing") and the alert goes nowhere.
Exec(p, rcv) ==
  IF rcv \notin DOMAIN p THEN "dropped"
  ELSE IF p[rcv] THEN "delivered" ELSE "silent"

\* The process runs until the start-up Reload fails (RunAlertDispatch
\* returns 1) or an insertAlerts goroutine panics.
Alive == reloadPc # "Exited" /\ \A e \in Events : "crash" \notin outcome[e]

\* The bounds are spent and the reload goroutine and every event goroutine
\* are done: the process idles in RunAlertDispatch's wait for SIGTERM.
Quiet ==
  /\ writes = MaxWrites /\ reloadPc = "Idle" /\ ~hup
  /\ \A e \in Events : evPc[e] = "Done"

-----------------------------------------------------------------------------
(* Coordinator.Reload and the subscriber                                   *)

\* NewCoordinator: no configuration until the first Reload; registerMetrics
\* creates the success gauge at 0.
NewCoordinator == coordConfig = NoConfig /\ successGauge = 0

\* The reload goroutine's select: a SIGHUP or a request from configWatcher.
ReloadOnHup ==
  /\ Alive
  /\ reloadPc = "Idle" /\ hup
  /\ hup' = FALSE
  /\ reloadPc' = "Load" /\ reloadCause' = "hup"
  /\ UNCHANGED <<fileEvent, watchOn, watcherPc, coordConfig, building,
                 successGauge, staticRoute, staticPipeline>>
  /\ UNCHANGED <<envVars, eventVars>>

ReloadOnWatch ==
  /\ Alive
  /\ reloadPc = "Idle" /\ watcherPc = "Requested"
  /\ watcherPc' = "Awaiting"
  /\ reloadPc' = "Load" /\ reloadCause' = "watch"
  /\ UNCHANGED <<fileEvent, watchOn, hup, coordConfig, building, successGauge,
                 staticRoute, staticPipeline>>
  /\ UNCHANGED <<envVars, eventVars>>

\* Mutant: the watcher's request served like a SIGHUP, its errc never
\* answered.
FinishNoAnswer(ok) ==
  /\ reloadPc' = IF reloadCause = "startup" /\ ~ok THEN "Exited" ELSE "Idle"
  /\ UNCHANGED watcherPc

\* Reload returns: the result goes back to configWatcher over errc when it
\* asked; the start-up call's error makes RunAlertDispatch return 1.
Finish(ok) ==
  /\ reloadPc' = IF reloadCause = "startup" /\ ~ok THEN "Exited" ELSE "Idle"
  /\ watcherPc' = IF reloadCause = "watch" THEN "Wait" ELSE watcherPc

\* Mutant: LoadFile's error not returned, its result kept as c.config.
loadFromFileNoCheck ==
  /\ Alive
  /\ reloadPc = "Load"
  /\ coordConfig' = file
  /\ building' = file
  /\ reloadPc' = "Build"
  /\ UNCHANGED <<successGauge, watcherPc>>
  /\ UNCHANGED <<fileEvent, watchOn, hup, reloadCause, staticRoute, staticPipeline>>
  /\ UNCHANGED <<envVars, eventVars>>

\* Mutant: the new configuration handed to the subscriber without
\* c.config = conf.
loadFromFileKeepsOld ==
  /\ Alive
  /\ reloadPc = "Load"
  /\ IF file \in Configs
       THEN /\ building' = file
            /\ reloadPc' = "Build"
            /\ UNCHANGED <<successGauge, watcherPc, coordConfig>>
       ELSE /\ successGauge' = 0
            /\ Finish(FALSE)
            /\ UNCHANGED <<coordConfig, building>>
  /\ UNCHANGED <<fileEvent, watchOn, hup, reloadCause, staticRoute, staticPipeline>>
  /\ UNCHANGED <<envVars, eventVars>>

\* loadFromFile: LoadFile, and on success c.config = conf.
loadFromFile ==
  /\ Alive
  /\ reloadPc = "Load"
  /\ IF file \in Configs
       THEN /\ coordConfig' = file
            /\ building' = file
            /\ reloadPc' = "Build"
            /\ UNCHANGED <<successGauge, watcherPc>>
       ELSE /\ successGauge' = 0
            /\ Finish(FALSE)
            /\ UNCHANGED <<coordConfig, building>>
  /\ UNCHANGED <<fileEvent, watchOn, hup, reloadCause, staticRoute, staticPipeline>>
  /\ UNCHANGED <<envVars, eventVars>>

\* Mutant: a subscriber error that leaves the success gauge as it was.
SubscriberBuildKeepsGauge ==
  /\ Alive
  /\ reloadPc = "Build"
  /\ IF building \in Unbuildable
       THEN /\ Finish(FALSE)
       ELSE /\ reloadPc' = "PubRoute"
            /\ UNCHANGED watcherPc
  /\ UNCHANGED <<fileEvent, watchOn, hup, reloadCause, coordConfig, building,
                 staticRoute, staticPipeline, successGauge>>
  /\ UNCHANGED <<envVars, eventVars>>

\* notifySubscribers: the one subscriber RunAlertDispatch registered, its
\* error returned as the reload's.
notifySubscribersFails == building \in Unbuildable

\* The subscriber up to the publication: templates, routes.Walk and
\* buildReceiverIntegrations, whose error aborts the reload.
SubscriberBuild ==
  /\ Alive
  /\ reloadPc = "Build"
  /\ IF notifySubscribersFails
       THEN /\ successGauge' = 0
            /\ Finish(FALSE)
       ELSE /\ reloadPc' = "PubRoute"
            /\ UNCHANGED <<successGauge, watcherPc>>
  /\ UNCHANGED <<fileEvent, watchOn, hup, reloadCause, coordConfig, building,
                 staticRoute, staticPipeline>>
  /\ UNCHANGED <<envVars, eventVars>>

\* config.StaticRoute = conf.Route: the first of the two publications.
PublishRoute ==
  /\ Alive
  /\ reloadPc = "PubRoute"
  /\ staticRoute' = building
  /\ reloadPc' = "PubPipeline"
  /\ UNCHANGED <<fileEvent, watchOn, watcherPc, hup, reloadCause, coordConfig,
                 building, successGauge, staticPipeline>>
  /\ UNCHANGED <<envVars, eventVars>>

\* Reload after notifySubscribers returned nil: the success gauge (and the
\* success time and config hash gauges, which nothing reads) is set.
ReloadSucceeded == successGauge' = 1

\* config.StaticPipeline = pipeline, the rest of the subscriber (a new
\* dispatcher that no alert reaches), then Reload's success gauge.
PublishPipeline ==
  /\ Alive
  /\ reloadPc = "PubPipeline"
  /\ staticPipeline' = Pipeline(building)
  /\ ReloadSucceeded
  /\ Finish(TRUE)
  /\ UNCHANGED <<fileEvent, watchOn, hup, reloadCause, coordConfig, building,
                 staticRoute>>
  /\ UNCHANGED <<envVars, eventVars>>

\* The start-up Reload has returned nil; the goroutines after it run.
StartupDone == reloadCause # "startup" \/ reloadPc = "Idle"

-----------------------------------------------------------------------------
(* configWatcher                                                           *)

\* watcher.Add(configfile): writes made before it are never reported.
WatcherStart ==
  /\ Alive
  /\ watcherPc = "Off" /\ StartupDone
  /\ watchOn' = TRUE
  /\ watcherPc' = "Wait"
  /\ UNCHANGED <<fileEvent, hup, reloadPc, reloadCause, coordConfig, building,
                 successGauge, staticRoute, staticPipeline>>
  /\ UNCHANGED <<envVars, eventVars>>

\* Mutant: a Write event handled like a Remove, without a reload request.
WatcherOnWriteNoRequest ==
  /\ Alive
  /\ watcherPc = "Wait" /\ fileEvent
  /\ fileEvent' = FALSE
  /\ UNCHANGED <<watcherPc, watchOn, hup, reloadPc, reloadCause, coordConfig,
                 building, successGauge, staticRoute, staticPipeline>>
  /\ UNCHANGED <<envVars, eventVars>>

\* A Write event: send a fresh errc on reloadCh and block on the answer.
WatcherOnWrite ==
  /\ Alive
  /\ watcherPc = "Wait" /\ fileEvent
  /\ fileEvent' = FALSE
  /\ watcherPc' = "Requested"
  /\ UNCHANGED <<watchOn, hup, reloadPc, reloadCause, coordConfig, building,
                 successGauge, staticRoute, staticPipeline>>
  /\ UNCHANGED <<envVars, eventVars>>

\* A Remove event: watcher.Remove and watcher.Add(configfile) re-establish
\* the watch on the new file; no reload is requested.
WatcherOnRemove ==
  /\ Alive
  /\ watcherPc = "Wait" /\ removeEvent
  /\ removeEvent' = FALSE
  /\ UNCHANGED <<file, writes, fileEvent, watchOn, watcherPc, hup, reloadPc,
                 reloadCause, coordConfig, building, successGauge, staticRoute,
                 staticPipeline>>
  /\ UNCHANGED eventVars

-----------------------------------------------------------------------------
(* The environment: GeneratorConfig rewriting route.yml, an operator's     *)
(* SIGHUP.  A truncated or torn file is Garbage.                           *)

WriteFile(c) ==
  /\ Alive
  /\ writes < MaxWrites
  /\ writes' = writes + 1
  /\ file' = c
  /\ fileEvent' = (fileEvent \/ watchOn)
  /\ UNCHANGED <<watchOn, watcherPc, hup, reloadPc, reloadCause, coordConfig,
                 building, successGauge, staticRoute, staticPipeline, removeEvent>>
  /\ UNCHANGED eventVars

\* A ConfigMap mount swaps its symlink: the new content appears at the path,
\* and the watched file is removed without a Write.
RotateFile(c) ==
  /\ Alive
  /\ writes < MaxWrites
  /\ writes' = writes + 1
  /\ file' = c
  /\ removeEvent' = (removeEvent \/ watchOn)
  /\ UNCHANGED <<fileEvent, watchOn, watcherPc, hup, reloadPc, reloadCause,
                 coordConfig, building, successGauge, staticRoute, staticPipeline>>
  /\ UNCHANGED eventVars

\* signal.Notify(hup, ...) is registered after the start-up Reload; the
\* channel holds one signal and further ones are dropped.
SendHup ==
  /\ Alive
  /\ writes < MaxWrites /\ StartupDone
  /\ writes' = writes + 1
  /\ hup' = TRUE
  /\ UNCHANGED <<file, fileEvent, watchOn, watcherPc, reloadPc, reloadCause,
                 coordConfig, building, successGauge, staticRoute,
                 staticPipeline, removeEvent>>
  /\ UNCHANGED eventVars

-----------------------------------------------------------------------------
(* insertAlerts, one goroutine per event                                    *)

\* route := config.StaticRoute; dispatch.NewRoute(route, nil).Match(labels).
\* Before the first publication the route is nil and NewRoute panics.
ReadRoute(e) ==
  /\ Alive
  /\ evPc[e] = "NotYet"
  /\ IF staticRoute = NoConfig
       THEN /\ evPc' = [evPc EXCEPT ![e] = "Done"]
            /\ outcome' = [outcome EXCEPT ![e] = {"crash"}]
            /\ UNCHANGED evRcv
       ELSE /\ evPc' = [evPc EXCEPT ![e] = "Matched"]
            /\ evRcv' = [evRcv EXCEPT ![e] =
                           MatchedReceivers(staticRoute, EventNs[e])]
            /\ UNCHANGED outcome
  /\ UNCHANGED <<envVars, reloadVars>>

\* One turn of the loop over the matched routes: nt :=
\* config.StaticPipeline.(notify.Stage), read anew in every turn, and
\* nt.Exec(ctx, ...) with the route's receiver in ctx.  The assertion
\* panics on a nil interface.
ExecPipeline(e) ==
  /\ Alive
  /\ evPc[e] = "Matched"
  /\ evRcv' = [evRcv EXCEPT ![e] = Tail(@)]
  /\ evPc' = [evPc EXCEPT ![e] = IF Len(evRcv[e]) = 1 THEN "Done" ELSE @]
  /\ outcome' = [outcome EXCEPT ![e] =
                    @ \cup {IF staticPipeline = NoConfig THEN "crash"
                           ELSE Exec(staticPipeline, Head(evRcv[e]))}]
  /\ UNCHANGED <<envVars, reloadVars>>

-----------------------------------------------------------------------------
(* The specification                                                        *)

\* RunAlertDispatch has built the coordinator and the pipeline builder and
\* registered its subscriber; the start-up Reload is about to read the
\* file, and neither configWatcher nor the SIGHUP goroutine has started.
Init ==
  /\ file \in Configs \cup Garbage
  /\ fileEvent = FALSE /\ removeEvent = FALSE /\ watchOn = FALSE /\ watcherPc = "Off"
  /\ hup = FALSE
  /\ reloadPc = "Load" /\ reloadCause = "startup"
  /\ NewCoordinator /\ building = NoConfig
  /\ staticRoute = NoConfig /\ staticPipeline = NoConfig
  /\ evPc = [e \in Events |-> "NotYet"]
  /\ evRcv = [e \in Events |-> <<>>]
  /\ outcome = [e \in Events |-> {}]
  /\ writes = 0

ReloadStep ==
  \/ ReloadOnHup \/ ReloadOnWatch \/ loadFromFile \/ SubscriberBuild
  \/ PublishRoute \/ PublishPipeline

WatcherStep == WatcherStart \/ WatcherOnWrite \/ WatcherOnRemove

EnvStep == (\E c \in Configs \cup Garbage : WriteFile(c) \/ RotateFile(c)) \/ SendHup

EventStep == \E e \in Events : ReadRoute(e) \/ ExecPipeline(e)

Stopped == (~Alive \/ Quiet) /\ UNCHANGED vars

Next == ReloadStep \/ WatcherStep \/ EnvStep \/ EventStep \/ Stopped

\* The reload goroutine, configWatcher and each started insertAlerts are
\* runnable goroutines; writes, signals and event arrivals are not forced.
Fairness ==
  /\ WF_vars(ReloadStep)
  /\ WF_vars(WatcherStep)
  /\ \A e \in Events : WF_vars(ExecPipeline(e))

Spec == Init /\ [][Next]_vars /\ Fairness

-----------------------------------------------------------------------------
(* Properties                                                               *)

Outcomes == {"delivered", "silent", "dropped", "crash"}

TypeOK ==
  /\ file \in Configs \cup Garbage
  /\ fileEvent \in BOOLEAN /\ removeEvent \in BOOLEAN /\ watchOn \in BOOLEAN /\ hup \in BOOLEAN
  /\ watcherPc \in {"Off", "Wait", "Requested", "Awaiting"}
  /\ reloadPc \in {"Idle", "Load", "Build", "PubRoute", "PubPipeline", "Exited"}
  /\ reloadCause \in {"startup", "watch", "hup"}
  /\ coordConfig \in Configs \cup {NoConfig}
  /\ building \in Configs \cup {NoConfig}
  /\ successGauge \in {0, 1}
  /\ staticRoute \in Configs \cup {NoConfig}
  /\ staticPipeline \in {Pipeline(c) : c \in Configs} \cup {NoConfig}
  /\ evPc \in [Events -> {"NotYet", "Matched", "Done"}]
  /\ evRcv \in [Events -> Seq(UNION {ActiveReceivers(c) : c \in Configs})]
  /\ outcome \in [Events -> SUBSET Outcomes]
  /\ writes \in 0..MaxWrites

\* Reload's success gauge: whenever the reload goroutine is between calls
\* and the gauge reads 1, the route tree and the pipeline the handlers use
\* are both those of c.config.  A failed load or a failed subscriber must
\* leave the gauge at 0, never at 1 over a stale or half-applied config.
GaugeMeansApplied ==
  (StartupDone /\ reloadPc = "Idle" /\ successGauge = 1)
    => /\ staticRoute = coordConfig
       /\ staticPipeline = Pipeline(coordConfig)

\* configWatcher's reload request is eventually answered over errc: the
\* reload goroutine's select takes it and Reload returns, whatever SIGHUPs
\* compete for the same goroutine.
WatchRequestAnswered ==
  (watcherPc = "Requested") ~> (watcherPc = "Wait" \/ ~Alive)

\* A write of a buildable configuration that fsnotify reports ends with the
\* handlers running that configuration, unless route.yml changes again.
ReportedWriteApplied ==
  \A c \in Configs \ Unbuildable :
    (fileEvent /\ file = c)
      ~> (~Alive \/ file # c
          \/ (staticRoute = c /\ staticPipeline = Pipeline(c)))

\* Whatever the timing of writes of route.yml, the handlers eventually run
\* what it holds once it stops changing at a buildable configuration.
EventuallyRunsFile ==
  <>[](Alive /\ file \in Configs \ Unbuildable
         => staticRoute = file /\ staticPipeline = Pipeline(file))

\* insertAlerts drops an event ("stage for receiver missing") only when
\* some loadable configuration itself routes it to an undefined receiver:
\* a route and a pipeline read from two different reloads never combine.
NoSpuriousDrop ==
  \A e \in Events :
    "dropped" \in outcome[e]
      => \E c \in Configs :
           \E i \in DOMAIN MatchedReceivers(c, EventNs[e]) :
             MatchedReceivers(c, EventNs[e])[i] \notin RcvNamesOf(c)

\* ConfigReload implements the coordinator's contract (Coordinator.tla).
\* c.config is the current configuration and the success gauge is the
\* gauge.  The subscriber's commit is config.StaticRoute = conf.Route: from
\* that step on, the gauge reads 1, and PublishPipeline is a stutter.  The
\* pipeline is published separately, and NoSpuriousDrop shows what that
\* costs.  A panicking event goroutine ends the process.
Crashed == \E e \in Events : "crash" \in outcome[e]

Coord == INSTANCE Coordinator WITH
           config  <- coordConfig,
           applied <- staticRoute,
           gauge   <- IF reloadPc = "PubPipeline" THEN 1 ELSE successGauge,
           phase   <- CASE Crashed                             -> "Down"
                        [] reloadPc = "Load"                   -> "Load"
                        [] reloadPc \in {"Build", "PubRoute"} -> "Notify"
                        [] OTHER                               -> "Idle"

\* Every behaviour of the reload path is one the coordinator's contract
\* allows: reloads are serialized and complete, a parse failure keeps
\* c.config, only the configuration just loaded is handed on and
\* committed, and the gauge says whether the last reload succeeded.
ImplementsCoordinator == Coord!Spec
=============================================================================
