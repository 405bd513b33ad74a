----------------------------- MODULE EventWatcher -----------------------------
(***************************************************************************)
(* One cluster's event watcher (pkg/k8s/events/watcher.go, controller.go,  *)
(* handler.go).  NewEventControllerWatcher builds an informer over the     *)
(* cluster's Events; EventsController.Run starts it.  The informer's       *)
(* reflector lists the Events, queues them in a DeltaFIFO, then follows a  *)
(* watch stream; one goroutine pops the FIFO, updates the indexer and      *)
(* calls AddFunc/UpdateFunc/DeleteFunc.  Add and Update filter the event   *)
(* and start `go el.Handle2()`, which writes the history row               *)
(* (insertMysql) and starts `go e.insertAlerts()`, the routing step that   *)
(* ConfigReload models in detail.                                          *)
(*                                                                         *)
(* The API server is the environment: Events are created, bumped (count   *)
(* and LastTimestamp) and expire.  The watch may break; the reflector then *)
(* relists, and DeltaFIFO.Replace queues a Sync for every listed Event and *)
(* a tombstone for every known Event the list no longer has.  An Event is  *)
(* a key and a state: its count and whether its LastTimestamp is after the *)
(* watcher's startTime ("fresh"); Events that exist before the watcher     *)
(* starts are not fresh.                                                   *)
(***************************************************************************)
EXTENDS Naturals, Sequences, SequencesExt

CONSTANTS
  Keys,        \* Event objects (namespace/name)
  Blocked,     \* keys whose reason or component the filter blocks
  Envs,        \* values of the "env" variable the process may run with
  MaxCount,    \* bound on an Event's count
  MaxChanges,  \* bound on API server changes
  MaxBreaks    \* bound on watch breaks

ASSUME Blocked \subseteq Keys /\ MaxCount >= 1

Obj == [cnt : 1..MaxCount, fresh : BOOLEAN]
Rec == Keys \X Obj

VARIABLES
  api,       \* the API server's Events: key -> Obj
  wch,       \* the watch stream not yet read by the reflector
  watching,  \* the reflector has listed and holds a watch
  fifo,      \* the DeltaFIFO: deltas not yet popped
  indexer,   \* the informer's store: key -> Obj
  hq,        \* bag of Handle2 goroutines, by the Event they hold
  aq,        \* bag of insertAlerts goroutines
  db,        \* event_history rows written by AddEventHistory
  notified,  \* Event states insertAlerts has routed
  env,       \* os.Getenv("env")
  changes, breaks

vars == <<api, wch, watching, fifo, indexer, hq, aq, db, notified, env,
          changes, breaks>>

One(r) == SetToBag({r})

\* ~eventFilter.Filter(new): the reason and component are not blocked and
\* filterTime finds LastTimestamp not before startTime.
Admit(k, o) == k \notin Blocked /\ o.fresh

Init ==
  /\ api \in UNION {[S -> {[cnt |-> 1, fresh |-> FALSE]}] : S \in SUBSET Keys}
  /\ wch = <<>> /\ watching = FALSE /\ fifo = <<>> /\ indexer = <<>>
  /\ hq = EmptyBag /\ aq = EmptyBag /\ db = {} /\ notified = {}
  /\ env \in Envs
  /\ changes = 0 /\ breaks = 0

-----------------------------------------------------------------------------
(* The API server.  A change reaches the watch stream only while a watch  *)
(* is held.                                                                *)

Emit(t, k, o) ==
  wch' = IF watching THEN Append(wch, [type |-> t, key |-> k, obj |-> o]) ELSE wch

ApiChange(k, o, t) ==
  /\ changes < MaxChanges
  /\ changes' = changes + 1
  /\ Emit(t, k, o)
  /\ UNCHANGED <<watching, fifo, indexer, hq, aq, db, notified, env, breaks>>

Create(k) ==
  /\ k \notin DOMAIN api
  /\ api' = api @@ (k :> [cnt |-> 1, fresh |-> TRUE])
  /\ ApiChange(k, api'[k], "Added")

Bump(k) ==
  /\ k \in DOMAIN api /\ api[k].cnt < MaxCount
  /\ api' = [api EXCEPT ![k] = [cnt |-> @.cnt + 1, fresh |-> TRUE]]
  /\ ApiChange(k, api'[k], "Updated")

Expire(k) ==
  /\ k \in DOMAIN api
  /\ api' = Restrict(api, DOMAIN api \ {k})
  /\ ApiChange(k, api[k], "Deleted")

\* The watch ends with a "too old resource version" error: what it had not
\* delivered is lost, and the reflector must list again.
WatchBreak ==
  /\ watching /\ breaks < MaxBreaks
  /\ watching' = FALSE /\ wch' = <<>> /\ breaks' = breaks + 1
  /\ UNCHANGED <<api, fifo, indexer, hq, aq, db, notified, env, changes>>

-----------------------------------------------------------------------------
(* The informer that EventsController.Run starts.                          *)

\* The newest state the FIFO or the indexer holds of k (Replace's
\* knownObjects and queued items).
Queued(k) == {i \in 1..Len(fifo) : fifo[i].key = k}
Known == DOMAIN indexer \cup {k \in Keys : Queued(k) # {} /\ fifo[Max(Queued(k))].type # "Deleted"}
LastKnown(k) == IF Queued(k) # {} THEN fifo[Max(Queued(k))].obj ELSE indexer[k]

\* ListAndWatch: list, DeltaFIFO.Replace, then watch from the list's
\* version.  Replace queues a Sync per listed Event and a tombstone
\* (DeletedFinalStateUnknown) per known Event that is gone.
ListAndReplace ==
  /\ ~watching
  /\ LET ls   == SetToSeq(DOMAIN api)
         gone == SetToSeq(Known \ DOMAIN api)
     IN fifo' = fifo
                \o [i \in 1..Len(ls) |-> [type |-> "Sync", key |-> ls[i], obj |-> api[ls[i]]]]
                \o [i \in 1..Len(gone) |-> [type |-> "Deleted", key |-> gone[i], obj |-> LastKnown(gone[i])]]
  /\ watching' = TRUE /\ wch' = <<>>
  /\ UNCHANGED <<api, indexer, hq, aq, db, notified, env, changes, breaks>>

WatchRecv ==
  /\ watching /\ wch # <<>>
  /\ fifo' = Append(fifo, Head(wch)) /\ wch' = Tail(wch)
  /\ UNCHANGED <<api, watching, indexer, hq, aq, db, notified, env, changes, breaks>>

\* AddFunc: ObjToV1Event, then unless eventFilter.Filter drops the event,
\* go el.Handle2().
OnAdd(k, o) == hq' = IF Admit(k, o) THEN hq (+) One(<<k, o>>) ELSE hq

\* Mutant: UpdateFunc filters the old state instead of the new one.
OnUpdateFiltersOld(k, old, new) ==
  hq' = IF Admit(k, old) THEN hq (+) One(<<k, new>>) ELSE hq

\* UpdateFunc: the same for the new state; the old one is only converted.
OnUpdate(k, old, new) == hq' = IF Admit(k, new) THEN hq (+) One(<<k, new>>) ELSE hq

\* Mutant: the indexer stores the Delta instead of its Object.
ProcessUpsertStoresDelta ==
  /\ fifo # <<>> /\ Head(fifo).type # "Deleted"
  /\ LET d == Head(fifo) IN
       /\ indexer' = (d.key :> d) @@ indexer
       /\ IF d.key \in DOMAIN indexer THEN OnUpdate(d.key, indexer[d.key], d.obj)
                                     ELSE OnAdd(d.key, d.obj)
  /\ fifo' = Tail(fifo)
  /\ UNCHANGED <<api, wch, watching, aq, db, notified, env, changes, breaks>>

\* processDeltas for one popped delta: Sync, Added and Updated go to
\* indexer.Update and OnUpdate when the key is known, else to indexer.Add
\* and OnAdd; Deleted goes to indexer.Delete and the empty DeleteFunc.
ProcessUpsert ==
  /\ fifo # <<>> /\ Head(fifo).type # "Deleted"
  /\ LET d == Head(fifo) IN
       /\ indexer' = (d.key :> d.obj) @@ indexer
       /\ IF d.key \in DOMAIN indexer THEN OnUpdate(d.key, indexer[d.key], d.obj)
                                     ELSE OnAdd(d.key, d.obj)
  /\ fifo' = Tail(fifo)
  /\ UNCHANGED <<api, wch, watching, aq, db, notified, env, changes, breaks>>

ProcessDelete ==
  /\ fifo # <<>> /\ Head(fifo).type = "Deleted"
  /\ indexer' = Restrict(indexer, DOMAIN indexer \ {Head(fifo).key})
  /\ fifo' = Tail(fifo)
  /\ UNCHANGED <<api, wch, watching, hq, aq, db, notified, env, changes, breaks>>

-----------------------------------------------------------------------------
(* The goroutines the handlers start.                                      *)

\* model.AddEventHistory: Db.Create either stores the row or returns an
\* error.
AddEventHistory(r) == db' \in {db \cup {r}, db}

\* insertMysql: with env "" or "dev" it only logs; otherwise it calls
\* AddEventHistory and logs an error with no retry.
insertMysql(r) == IF env \in {"", "dev"} THEN db' = db ELSE AddEventHistory(r)

Handle2(r) ==
  /\ BagIn(r, hq)
  /\ insertMysql(r)
  /\ hq' = hq (-) One(r) /\ aq' = aq (+) One(r)
  /\ UNCHANGED <<api, wch, watching, fifo, indexer, notified, env, changes, breaks>>

\* insertAlerts builds the labels and routes the alert (ConfigReload's
\* ReadRoute and ExecPipeline); here only that it happened is kept.
insertAlerts(r) ==
  /\ BagIn(r, aq)
  /\ notified' = notified \cup {r} /\ aq' = aq (-) One(r)
  /\ UNCHANGED <<api, wch, watching, fifo, indexer, hq, db, env, changes, breaks>>

-----------------------------------------------------------------------------
\* Nothing left to do: the controller waits on its stop channel.
Idle ==
  /\ changes = MaxChanges /\ watching /\ wch = <<>> /\ fifo = <<>>
  /\ hq = EmptyBag /\ aq = EmptyBag
  /\ UNCHANGED vars

ApiStep == WatchBreak \/ \E k \in Keys : Create(k) \/ Bump(k) \/ Expire(k)
InformerStep == ListAndReplace \/ WatchRecv \/ ProcessUpsert \/ ProcessDelete

Next ==
  \/ ApiStep \/ InformerStep
  \/ \E r \in Rec : Handle2(r) \/ insertAlerts(r)
  \/ Idle

\* The informer's goroutines and every started goroutine are runnable;
\* the API server and the network owe nothing.
Spec ==
  /\ Init /\ [][Next]_vars
  /\ WF_vars(ListAndReplace) /\ WF_vars(WatchRecv)
  /\ WF_vars(ProcessUpsert) /\ WF_vars(ProcessDelete)
  /\ \A r \in Rec : WF_vars(Handle2(r)) /\ WF_vars(insertAlerts(r))

-----------------------------------------------------------------------------
TypeOK ==
  /\ api \in UNION {[S -> Obj] : S \in SUBSET Keys}
  /\ indexer \in UNION {[S -> Obj] : S \in SUBSET Keys}
  /\ watching \in BOOLEAN /\ env \in Envs
  /\ db \subseteq Rec /\ notified \subseteq Rec
  /\ IsABag(hq) /\ BagToSet(hq) \subseteq Rec
  /\ IsABag(aq) /\ BagToSet(aq) \subseteq Rec

\* Every Event's latest state that the filter admits is eventually routed
\* by insertAlerts, broken watches and relists notwithstanding (for an
\* Event that stays on the API server).
LatestStateRouted ==
  <>[](\A k \in DOMAIN api : Admit(k, api[k]) => <<k, api[k]>> \in notified)
=============================================================================
