------------------------- MODULE RouteConfigGenerator -------------------------
(***************************************************************************)
(* The routing-configuration generator: EventRouteManager                  *)
(* (src/pkg/k8s/events/route.go) driving configGenerator                   *)
(* (src/pkg/k8s/events/config_generator.go).                               *)
(*                                                                         *)
(* Three goroutines touch the generator:                                   *)
(*   "init"  EnableK8sWatcher: ReceiverInit, then EventRouteInit;          *)
(*   "rcv"   the Receiver informer's handler goroutine;                    *)
(*   "route" the EventRoute informer's handler goroutine.                  *)
(* Each handler mutates the in-memory tree under the generator's lock and, *)
(* once both listers report synced, calls GeneratorConfig, which takes a   *)
(* snapshot under the read lock and then writes ./config/route.yml with    *)
(* ioutil.WriteFile: an open with O_TRUNC followed by a write at offset 0. *)
(* Nothing orders the file writes of the two handler goroutines.           *)
(*                                                                         *)
(* Data abstraction: a Receiver's spec is whether it carries an integration *)
(* that appendReceiver keeps (non-empty URL, TaskId > 0 or AccessToken);   *)
(* an EventRoute's spec is the receiver it names.  A snapshot's length is  *)
(* its number of entries, standing for the length of its YAML.             *)
(***************************************************************************)
EXTENDS Naturals, Sequences, FiniteSets, SequencesExt

CONSTANTS
  RcvNames,     \* names of Receiver custom resources
  RouteNames,   \* names of EventRoute custom resources
  RcvRefs,      \* receiver names an EventRoute may name (nothing checks
                \* that a Receiver of that name exists)
  DefaultRcv,   \* the receiver "default" that NewConfigGenerator installs
  Absent,       \* a resource that does not exist in the API server
  OldFile,      \* whatever ./config/route.yml held before the process started
  MaxChanges    \* bound on API-server writes, informer resyncs and watch
                \* breaks

ASSUME DefaultRcv \notin RcvNames

VARIABLES
  rcvApi,       \* Receiver objects in the API server
  routeApi,     \* EventRoute objects in the API server
  rcvCache,     \* the Receiver informer's indexer (what the handler was told)
  routeCache,   \* the EventRoute informer's indexer
  watching,     \* per kind: the informer's reflector holds a watch
  rcvQ,         \* notifications buffered for the Receiver handler
  routeQ,       \* notifications buffered for the EventRoute handler
  routeInformerOn, \* EventRouteInit has started the EventRoute informer
  syncedRcv,    \* s.listerSyncedReceiver
  syncedRoute,  \* s.listerSyncedEventRoute
  receivers,    \* cg.Receivers
  routes,       \* cg.Route.Routes
  pc,           \* program counter of each goroutine
  ret,          \* where a goroutine resumes after GeneratorConfig
  cur,          \* notification a handler is working on
  snap,         \* the bytes generateYaml returned to a goroutine
  file,         \* ./config/route.yml
  changes       \* API writes and resyncs so far

vars == <<rcvApi, routeApi, rcvCache, routeCache, watching, rcvQ, routeQ,
          routeInformerOn, syncedRcv, syncedRoute, receivers, routes, pc, ret,
          cur, snap, file, changes>>
informerVars == <<rcvCache, routeCache, watching>>

Threads == {"init", "rcv", "route"}
Kinds == {"rcv", "route"}
RcvSpec == BOOLEAN          \* has an integration appendReceiver keeps
RouteSpec == RcvRefs        \* the receiver an EventRoute names
RcvEntry == [name : RcvNames \cup {DefaultRcv}, configured : BOOLEAN]
RouteEntry == [name : RouteNames, receiver : RcvRefs]
\* tomb: the object is a cache.DeletedFinalStateUnknown wrapping the last
\* state the indexer knew, which Replace delivers for a missed deletion.
Notification(Names, Specs) ==
  [op : {"add", "update", "delete"}, name : Names,
   old : Specs \cup {Absent}, new : Specs \cup {Absent}, tomb : BOOLEAN]
Snapshot == [rcvs : Seq(RcvEntry), routes : Seq(RouteEntry)]

\* File content: a whole snapshot, or the bytes of a longer earlier write
\* showing through after a shorter write at offset 0 (torn).
SerialLen(s) == Len(s.rcvs) + Len(s.routes)
OldFileLen == 1

-----------------------------------------------------------------------------
(* The informers (client-go, outside the source tree)                      *)

\* What a (re)list hands the handler: DeltaFIFO.Replace queues a Sync for
\* each listed object, in list order, which the informer delivers as OnAdd
\* when its indexer lacks the object and as OnUpdate from the indexed state
\* otherwise; then a tombstone for each indexed object the list lacks.
Replace(api, cache, listed, gone) ==
  [i \in 1..Len(listed) |->
     [op |-> IF cache[listed[i]] = Absent THEN "add" ELSE "update",
      name |-> listed[i], old |-> cache[listed[i]], new |-> api[listed[i]],
      tomb |-> FALSE]]
  \o [i \in 1..Len(gone) |->
        [op |-> "delete", name |-> gone[i], old |-> cache[gone[i]],
         new |-> Absent, tomb |-> TRUE]]

ListDeltas(api, cache, Names) ==
  {Replace(api, cache, l, g) :
     l \in SetToSeqs({n \in Names : api[n] # Absent}),
     g \in SetToSeqs({n \in Names : api[n] = Absent /\ cache[n] # Absent})}

-----------------------------------------------------------------------------
(* configGenerator                                                         *)

\* NewConfigGenerator: root route to "default", one receiver "default".
DefaultEntry == [name |-> DefaultRcv, configured |-> FALSE]

\* appendReceiver: the receiver is appended whether or not it has an
\* integration; only the integration lists depend on the spec.
appendReceiver(name, spec) ==
  receivers' = Append(receivers, [name |-> name, configured |-> spec])

removeReceiver(name) ==
  receivers' = SelectSeq(receivers, LAMBDA e : e.name # name)

\* appendEventRoute: matchers, group_by and durations are not told apart;
\* the route keeps its name and the receiver it names, Continue is false.
appendEventRoute(name, spec) ==
  routes' = Append(routes, [name |-> name, receiver |-> spec])

\* removeEventRoute also resets cg.Route.Continue, which is always false.
removeEventRoute(name) ==
  routes' = SelectSeq(routes, LAMBDA e : e.name # name)

\* generateYaml: the serialisation of the tree read under the read lock.
generateYaml == [rcvs |-> receivers, routes |-> routes]

-----------------------------------------------------------------------------
(* GeneratorConfig, in three steps of goroutine t                          *)

BothSynced == syncedRcv /\ syncedRoute

\* What a handler does after its mutation: `if listerSyncedEventRoute &&
\* listerSyncedReceiver { GeneratorConfig() }`.
AfterMutation(t) ==
  IF BothSynced
    THEN /\ pc' = [pc EXCEPT ![t] = "GenSnap"]
         /\ ret' = [ret EXCEPT ![t] = "Idle"]
    ELSE /\ pc' = [pc EXCEPT ![t] = "Idle"]
         /\ UNCHANGED ret

GenSnap(t) ==
  /\ pc[t] = "GenSnap"
  /\ snap' = [snap EXCEPT ![t] = generateYaml]
  /\ pc' = [pc EXCEPT ![t] = "GenTrunc"]
  /\ UNCHANGED <<rcvApi, routeApi, informerVars, rcvQ, routeQ,
                 routeInformerOn, syncedRcv, syncedRoute, receivers, routes,
                 ret, cur, file, changes>>

\* ioutil.WriteFile opens with O_CREATE|O_TRUNC.
GenTrunc(t) ==
  /\ pc[t] = "GenTrunc"
  /\ file' = [content |-> <<>>, len |-> 0, torn |-> FALSE]
  /\ pc' = [pc EXCEPT ![t] = "GenWrite"]
  /\ UNCHANGED <<rcvApi, routeApi, informerVars, rcvQ, routeQ,
                 routeInformerOn, syncedRcv, syncedRoute, receivers, routes,
                 ret, cur, snap, changes>>

\* ... and writes the bytes at offset 0 of its own descriptor.
GenWrite(t) ==
  /\ pc[t] = "GenWrite"
  /\ file' = IF file.len > SerialLen(snap[t])
               THEN [content |-> <<>>, len |-> file.len, torn |-> TRUE]
               ELSE [content |-> snap[t], len |-> SerialLen(snap[t]),
                     torn |-> FALSE]
  /\ pc' = [pc EXCEPT ![t] = ret[t]]
  /\ UNCHANGED <<rcvApi, routeApi, informerVars, rcvQ, routeQ,
                 routeInformerOn, syncedRcv, syncedRoute, receivers, routes,
                 ret, cur, snap, changes>>

-----------------------------------------------------------------------------
(* EnableK8sWatcher: ReceiverInit, then EventRouteInit                     *)

\* WaitForCacheSync returns once the initial list has been handed to the
\* handler's buffer, not once the handler has run: the flag may be set
\* while initial Add notifications are still queued.
ReceiverInitSynced ==
  /\ pc["init"] = "RcvSync"
  /\ syncedRcv' = TRUE
  /\ pc' = [pc EXCEPT !["init"] = "GenSnap"]
  /\ ret' = [ret EXCEPT !["init"] = "RouteStart"]
  /\ UNCHANGED <<rcvApi, routeApi, informerVars, rcvQ, routeQ,
                 routeInformerOn, syncedRoute, receivers, routes, cur, snap,
                 file, changes>>

\* The EventRoute informer lists the existing objects and starts its watch.
EventRouteInitStart ==
  /\ pc["init"] = "RouteStart"
  /\ routeInformerOn' = TRUE
  /\ \E q \in ListDeltas(routeApi, routeCache, RouteNames) : routeQ' = q
  /\ routeCache' = routeApi
  /\ watching' = [watching EXCEPT !["route"] = TRUE]
  /\ pc' = [pc EXCEPT !["init"] = "RouteSync"]
  /\ UNCHANGED <<rcvApi, routeApi, rcvCache, rcvQ, syncedRcv, syncedRoute,
                 receivers, routes, ret, cur, snap, file, changes>>

EventRouteInitSynced ==
  /\ pc["init"] = "RouteSync"
  /\ syncedRoute' = TRUE
  /\ pc' = [pc EXCEPT !["init"] = "GenSnap"]
  /\ ret' = [ret EXCEPT !["init"] = "Done"]
  /\ UNCHANGED <<rcvApi, routeApi, informerVars, rcvQ, routeQ,
                 routeInformerOn, syncedRcv, receivers, routes, cur, snap,
                 file, changes>>

-----------------------------------------------------------------------------
(* Receiver informer handlers (ReceiverInit's ResourceEventHandlerFuncs)   *)

RcvUnchanged == UNCHANGED <<rcvApi, routeApi, informerVars, routeQ,
                            routeInformerOn, syncedRcv, syncedRoute, routes,
                            snap, file, changes>>

\* ObjToV1Receiver: the object itself, or the last state a
\* DeletedFinalStateUnknown tombstone wraps; nil (FALSE) for anything else.
ObjToV1Receiver(m) == m.tomb \in BOOLEAN

\* AddFunc -> AddReceiver -> appendReceiver.
AddReceiver ==
  /\ pc["rcv"] = "Idle"
  /\ rcvQ # <<>> /\ Head(rcvQ).op = "add"
  /\ rcvQ' = Tail(rcvQ)
  /\ appendReceiver(Head(rcvQ).name, Head(rcvQ).new)
  /\ AfterMutation("rcv")
  /\ UNCHANGED cur
  /\ RcvUnchanged

\* Mutant: an update that appends the new spec without removing the old.
UpdateReceiverNoRemove ==
  /\ pc["rcv"] = "Idle"
  /\ rcvQ # <<>> /\ Head(rcvQ).op = "update"
  /\ rcvQ' = Tail(rcvQ)
  /\ IF Head(rcvQ).old # Head(rcvQ).new
       THEN /\ cur' = [cur EXCEPT !["rcv"] = Head(rcvQ)]
            /\ pc' = [pc EXCEPT !["rcv"] = "RcvAppend"]
            /\ UNCHANGED <<ret, receivers>>
       ELSE /\ AfterMutation("rcv")
            /\ UNCHANGED <<receivers, cur>>
  /\ RcvUnchanged

\* UpdateFunc -> UpdateReceiver: when the specs differ, removeReceiver and
\* appendReceiver, each under its own lock; a resync (equal specs) only
\* regenerates.
UpdateReceiver ==
  /\ pc["rcv"] = "Idle"
  /\ rcvQ # <<>> /\ Head(rcvQ).op = "update"
  /\ rcvQ' = Tail(rcvQ)
  /\ IF Head(rcvQ).old # Head(rcvQ).new
       THEN /\ removeReceiver(Head(rcvQ).name)
            /\ cur' = [cur EXCEPT !["rcv"] = Head(rcvQ)]
            /\ pc' = [pc EXCEPT !["rcv"] = "RcvAppend"]
            /\ UNCHANGED ret
       ELSE /\ AfterMutation("rcv")
            /\ UNCHANGED <<receivers, cur>>
  /\ RcvUnchanged

UpdateReceiverAppend ==
  /\ pc["rcv"] = "RcvAppend"
  /\ appendReceiver(cur["rcv"].name, cur["rcv"].new)
  /\ AfterMutation("rcv")
  /\ UNCHANGED <<rcvQ, cur>>
  /\ RcvUnchanged

\* DeleteFunc: return on a nil conversion, else DeleteReceiver ->
\* removeReceiver.
DeleteReceiver ==
  /\ pc["rcv"] = "Idle"
  /\ rcvQ # <<>> /\ Head(rcvQ).op = "delete"
  /\ rcvQ' = Tail(rcvQ)
  /\ IF ObjToV1Receiver(Head(rcvQ))
       THEN removeReceiver(Head(rcvQ).name) /\ AfterMutation("rcv")
       ELSE UNCHANGED <<receivers, pc, ret>>
  /\ UNCHANGED cur
  /\ RcvUnchanged

-----------------------------------------------------------------------------
(* EventRoute informer handlers (EventRouteInit's ResourceEventHandlerFuncs)*)

RouteUnchanged == UNCHANGED <<rcvApi, routeApi, informerVars, rcvQ,
                              routeInformerOn, syncedRcv, syncedRoute,
                              receivers, snap, file, changes>>

\* ObjToV1EventRoute, the same conversion for EventRoutes.
ObjToV1EventRoute(m) == m.tomb \in BOOLEAN

AddEventRoute ==
  /\ pc["route"] = "Idle"
  /\ routeQ # <<>> /\ Head(routeQ).op = "add"
  /\ routeQ' = Tail(routeQ)
  /\ appendEventRoute(Head(routeQ).name, Head(routeQ).new)
  /\ AfterMutation("route")
  /\ UNCHANGED cur
  /\ RouteUnchanged

\* Mutant: the update path taken for any notification, deletions included.
UpdateEventRouteAnyOp ==
  /\ pc["route"] = "Idle"
  /\ routeQ # <<>> /\ Head(routeQ).op \in {"update", "delete"}
  /\ routeQ' = Tail(routeQ)
  /\ IF Head(routeQ).old # Head(routeQ).new
       THEN /\ removeEventRoute(Head(routeQ).name)
            /\ cur' = [cur EXCEPT !["route"] = Head(routeQ)]
            /\ pc' = [pc EXCEPT !["route"] = "RouteAppend"]
            /\ UNCHANGED ret
       ELSE /\ AfterMutation("route")
            /\ UNCHANGED <<routes, cur>>
  /\ RouteUnchanged

UpdateEventRoute ==
  /\ pc["route"] = "Idle"
  /\ routeQ # <<>> /\ Head(routeQ).op = "update"
  /\ routeQ' = Tail(routeQ)
  /\ IF Head(routeQ).old # Head(routeQ).new
       THEN /\ removeEventRoute(Head(routeQ).name)
            /\ cur' = [cur EXCEPT !["route"] = Head(routeQ)]
            /\ pc' = [pc EXCEPT !["route"] = "RouteAppend"]
            /\ UNCHANGED ret
       ELSE /\ AfterMutation("route")
            /\ UNCHANGED <<routes, cur>>
  /\ RouteUnchanged

UpdateEventRouteAppend ==
  /\ pc["route"] = "RouteAppend"
  /\ appendEventRoute(cur["route"].name, cur["route"].new)
  /\ AfterMutation("route")
  /\ UNCHANGED <<routeQ, cur>>
  /\ RouteUnchanged

DeleteEventRoute ==
  /\ pc["route"] = "Idle"
  /\ routeQ # <<>> /\ Head(routeQ).op = "delete"
  /\ routeQ' = Tail(routeQ)
  /\ IF ObjToV1EventRoute(Head(routeQ))
       THEN removeEventRoute(Head(routeQ).name) /\ AfterMutation("route")
       ELSE UNCHANGED <<routes, pc, ret>>
  /\ UNCHANGED cur
  /\ RouteUnchanged

-----------------------------------------------------------------------------
(* The API server: operators create, change and delete resources; while  *)
(* an informer holds its watch, a change appends a notification to its     *)
(* buffer and a resync (every minute) re-delivers an indexed object as an  *)
(* update to itself.  A watch may break ("too old resource version"): the  *)
(* changes made until the reflector relists are never delivered one by     *)
(* one, and the relist's Replace stands for them.                          *)

ApiUnchanged == UNCHANGED <<routeInformerOn, syncedRcv, syncedRoute,
                            receivers, routes, pc, ret, cur, snap, file>>

Notify(q, n, old, new) ==
  Append(q, [op |-> IF old = Absent THEN "add"
                    ELSE IF new = Absent THEN "delete" ELSE "update",
             name |-> n, old |-> old, new |-> new, tomb |-> FALSE])

ApiWriteReceiver(n, s) ==
  /\ changes < MaxChanges
  /\ s # rcvApi[n]
  /\ rcvApi' = [rcvApi EXCEPT ![n] = s]
  /\ IF watching["rcv"]
       THEN /\ rcvQ' = Notify(rcvQ, n, rcvCache[n], s)
            /\ rcvCache' = [rcvCache EXCEPT ![n] = s]
       ELSE UNCHANGED <<rcvQ, rcvCache>>
  /\ changes' = changes + 1
  /\ UNCHANGED <<routeApi, routeQ, routeCache, watching>>
  /\ ApiUnchanged

\* Before EventRouteInit starts the informer a change only alters the
\* initial list.
ApiWriteEventRoute(n, s) ==
  /\ changes < MaxChanges
  /\ s # routeApi[n]
  /\ routeApi' = [routeApi EXCEPT ![n] = s]
  /\ IF watching["route"]
       THEN /\ routeQ' = Notify(routeQ, n, routeCache[n], s)
            /\ routeCache' = [routeCache EXCEPT ![n] = s]
       ELSE UNCHANGED <<routeQ, routeCache>>
  /\ changes' = changes + 1
  /\ UNCHANGED <<rcvApi, rcvQ, rcvCache, watching>>
  /\ ApiUnchanged

ResyncReceiver(n) ==
  /\ changes < MaxChanges
  /\ watching["rcv"] /\ rcvCache[n] # Absent
  /\ rcvQ' = Notify(rcvQ, n, rcvCache[n], rcvCache[n])
  /\ changes' = changes + 1
  /\ UNCHANGED <<rcvApi, routeApi, routeQ, informerVars>>
  /\ ApiUnchanged

ResyncEventRoute(n) ==
  /\ changes < MaxChanges
  /\ watching["route"] /\ routeCache[n] # Absent
  /\ routeQ' = Notify(routeQ, n, routeCache[n], routeCache[n])
  /\ changes' = changes + 1
  /\ UNCHANGED <<rcvApi, routeApi, rcvQ, informerVars>>
  /\ ApiUnchanged

WatchBreak(k) ==
  /\ changes < MaxChanges
  /\ watching[k]
  /\ watching' = [watching EXCEPT ![k] = FALSE]
  /\ changes' = changes + 1
  /\ UNCHANGED <<rcvApi, routeApi, rcvQ, routeQ, rcvCache, routeCache>>
  /\ ApiUnchanged

\* The reflector lists again and Replace hands the difference to the
\* handler; the indexer then holds the listed state.
ReceiverRelist ==
  /\ ~watching["rcv"]
  /\ \E q \in ListDeltas(rcvApi, rcvCache, RcvNames) : rcvQ' = rcvQ \o q
  /\ rcvCache' = rcvApi
  /\ watching' = [watching EXCEPT !["rcv"] = TRUE]
  /\ UNCHANGED <<rcvApi, routeApi, routeQ, routeCache, changes>>
  /\ ApiUnchanged

EventRouteRelist ==
  /\ routeInformerOn /\ ~watching["route"]
  /\ \E q \in ListDeltas(routeApi, routeCache, RouteNames) : routeQ' = routeQ \o q
  /\ routeCache' = routeApi
  /\ watching' = [watching EXCEPT !["route"] = TRUE]
  /\ UNCHANGED <<rcvApi, routeApi, rcvQ, rcvCache, changes>>
  /\ ApiUnchanged

-----------------------------------------------------------------------------

\* The process starts with the Receiver informer running (ReceiverInit has
\* listed the existing Receivers) and the generator as NewConfigGenerator
\* built it.
Init ==
  /\ rcvApi \in [RcvNames -> RcvSpec \cup {Absent}]
  /\ routeApi \in [RouteNames -> RouteSpec \cup {Absent}]
  /\ changes = 0
  /\ rcvQ \in ListDeltas(rcvApi, [n \in RcvNames |-> Absent], RcvNames)
  /\ rcvCache = rcvApi
  /\ routeCache = [n \in RouteNames |-> Absent]
  /\ watching = [k \in Kinds |-> k = "rcv"]
  /\ routeQ = <<>>
  /\ routeInformerOn = FALSE
  /\ syncedRcv = FALSE
  /\ syncedRoute = FALSE
  /\ receivers = <<DefaultEntry>>
  /\ routes = <<>>
  /\ pc = [t \in Threads |-> IF t = "init" THEN "RcvSync" ELSE "Idle"]
  /\ ret = [t \in Threads |-> "Idle"]
  /\ cur = [t \in Threads |-> [op |-> "add", name |-> DefaultRcv,
                               old |-> Absent, new |-> Absent, tomb |-> FALSE]]
  /\ snap = [t \in Threads |-> [rcvs |-> <<>>, routes |-> <<>>]]
  /\ file = [content |-> OldFile, len |-> OldFileLen, torn |-> FALSE]

\* Once the API server has made its last change and every goroutine has
\* drained its work, the informers block on their watches: the process
\* idles, which is not a deadlock.
Settled ==
  /\ changes = MaxChanges
  /\ pc["init"] = "Done"
  /\ \A t \in Threads \ {"init"} : pc[t] = "Idle"
  /\ rcvQ = <<>> /\ routeQ = <<>>
  /\ \A k \in Kinds : watching[k]
  /\ UNCHANGED vars

Next ==
  \/ ReceiverInitSynced \/ EventRouteInitStart \/ EventRouteInitSynced
  \/ AddReceiver \/ UpdateReceiver \/ UpdateReceiverAppend \/ DeleteReceiver
  \/ AddEventRoute \/ UpdateEventRoute \/ UpdateEventRouteAppend
  \/ DeleteEventRoute
  \/ \E t \in Threads : GenSnap(t) \/ GenTrunc(t) \/ GenWrite(t)
  \/ \E n \in RcvNames, s \in RcvSpec \cup {Absent} : ApiWriteReceiver(n, s)
  \/ \E n \in RouteNames, s \in RouteSpec \cup {Absent} : ApiWriteEventRoute(n, s)
  \/ \E n \in RcvNames : ResyncReceiver(n)
  \/ \E n \in RouteNames : ResyncEventRoute(n)
  \/ \E k \in Kinds : WatchBreak(k)
  \/ ReceiverRelist \/ EventRouteRelist
  \/ Settled

\* Every goroutine of the process is scheduled; the API server is not
\* obliged to change anything.
Fairness ==
  /\ WF_vars(ReceiverInitSynced \/ EventRouteInitStart \/ EventRouteInitSynced)
  /\ WF_vars(AddReceiver \/ UpdateReceiver \/ UpdateReceiverAppend
             \/ DeleteReceiver)
  /\ WF_vars(AddEventRoute \/ UpdateEventRoute \/ UpdateEventRouteAppend
             \/ DeleteEventRoute)
  /\ \A t \in Threads : WF_vars(GenSnap(t) \/ GenTrunc(t) \/ GenWrite(t))
  /\ WF_vars(ReceiverRelist) /\ WF_vars(EventRouteRelist)

Spec == Init /\ [][Next]_vars /\ Fairness

-----------------------------------------------------------------------------
(* Properties                                                              *)

TypeOK ==
  /\ rcvApi \in [RcvNames -> RcvSpec \cup {Absent}]
  /\ routeApi \in [RouteNames -> RouteSpec \cup {Absent}]
  /\ rcvCache \in [RcvNames -> RcvSpec \cup {Absent}]
  /\ routeCache \in [RouteNames -> RouteSpec \cup {Absent}]
  /\ watching \in [Kinds -> BOOLEAN]
  /\ rcvQ \in Seq(Notification(RcvNames, RcvSpec))
  /\ routeQ \in Seq(Notification(RouteNames, RouteSpec))
  /\ receivers \in Seq(RcvEntry)
  /\ routes \in Seq(RouteEntry)
  /\ pc \in [Threads -> {"RcvSync", "RouteStart", "RouteSync", "Done", "Idle",
                         "RcvAppend", "RouteAppend", "GenSnap", "GenTrunc",
                         "GenWrite"}]
  /\ snap \in [Threads -> Snapshot]
  /\ file.torn \in BOOLEAN /\ file.len \in Nat
  /\ changes \in 0..MaxChanges

\* The informer holds its watch (any relist is done) and the handler is
\* between notifications with none pending.
RcvHandlerDrained == watching["rcv"] /\ pc["rcv"] = "Idle" /\ rcvQ = <<>>
RouteHandlerDrained ==
  watching["route"] /\ pc["route"] = "Idle" /\ routeQ = <<>>

\* Once a handler has drained its notifications, the generator holds exactly
\* one entry per existing resource of that kind, carrying its current spec
\* (and the built-in "default" receiver first).  This is what the
\* remove-then-append of UpdateReceiver/UpdateEventRoute and the
\* filter-by-name of the removals must preserve across any history of
\* creations, edits, resyncs and deletions, and across a broken watch whose
\* missed changes reach the handler only as the relist's deltas and tombstones.
GeneratorMatchesApi ==
  /\ RcvHandlerDrained =>
       /\ receivers[1] = DefaultEntry
       /\ Len(receivers) = 1 + Cardinality({n \in RcvNames : rcvApi[n] # Absent})
       /\ \A n \in RcvNames : rcvApi[n] # Absent =>
            \E i \in 2..Len(receivers) :
              receivers[i] = [name |-> n, configured |-> rcvApi[n]]
  /\ RouteHandlerDrained =>
       /\ Len(routes) = Cardinality({n \in RouteNames : routeApi[n] # Absent})
       /\ \A n \in RouteNames : routeApi[n] # Absent =>
            \E i \in 1..Len(routes) :
              routes[i] = [name |-> n, receiver |-> routeApi[n]]

\* Nothing is in flight: the start-up sequence is over and both handlers
\* are idle with no notification buffered.
Quiescent ==
  /\ pc["init"] = "Done"
  /\ RcvHandlerDrained /\ RouteHandlerDrained
  /\ \A t \in Threads : pc[t] \notin {"GenSnap", "GenTrunc", "GenWrite"}

\* When nothing is in flight, route.yml is whole and is the serialisation
\* of the current tree: the last GeneratorConfig to write is the one that
\* saw the latest mutation, and no shorter write lands inside a longer one,
\* so neither a stale snapshot nor a torn file outlives the writers.
FileCurrentWhenQuiescent ==
  Quiescent => ~file.torn /\ file.content = generateYaml
=============================================================================
