------------------------------ MODULE EventFilter ------------------------------
(***************************************************************************)
(* The admission filter of a cluster's event watcher                       *)
(* (src/pkg/k8s/events/filter.go).                                         *)
(*                                                                         *)
(* NewEventFilter builds a cuckoo filter in four loops: AddUnique every    *)
(* default filter (the Components, Warnning and Normal lists, in Go map   *)
(* order), Delete every default not-filter, AddUnique the cluster's        *)
(* filters, Delete the cluster's not-filters.  Filter(event) then drops an *)
(* event that predates the watcher's start, or whose source component or  *)
(* reason the cuckoo filter contains.                                      *)
(*                                                                         *)
(* The cuckoo filter stores, per key, a fingerprint in one of two buckets  *)
(* chosen by hashing the key.  Two keys with the same fingerprint and      *)
(* buckets are indistinguishable to it: AddUnique of the second finds the  *)
(* first and stores nothing, Delete of either removes the one tag, and     *)
(* Contain answers the same for both.  The model abstracts the table to    *)
(* the set of signatures (fingerprint and bucket pair) it holds, with the  *)
(* hash `sig` chosen once, as the library's fixed hash does.  Capacity is *)
(* not modelled: the cuckoo library is not in the source tree, so the      *)
(* failure of AddUnique on a full table is left out.                       *)
(***************************************************************************)
EXTENDS Naturals, Sequences, FiniteSets

LOCAL INSTANCE SequencesExt

CONSTANTS
  Keys,               \* component names and reasons
  Sigs,               \* fingerprint-and-bucket signatures
  HashFns,            \* the hashes considered: functions Keys -> Sigs
  DefaultFilters,     \* filterComponents, filterWarnningResons, filterNormalResons
  DefaultNotFilters,  \* notFilterWarnningResons, notFilterNormalResons
  MaxTime,            \* timestamps are 1..MaxTime; 0 is Go's zero time
  NoEvent,
  Cluster,            \* the cluster this watcher serves
  SinkLists           \* the resolver's eventSinks lists config.yml can hold

ASSUME DefaultFilters \cup DefaultNotFilters \subseteq Keys

VARIABLES
  sig,          \* the cuckoo filter's hash
  filters,      \* the cluster's GetEventSinksFilters
  notFilters,   \* the cluster's GetEventSinksNotFilters
  startTime,    \* the watcher's start time
  cf,           \* signatures the cuckoo filter holds
  phase,        \* which loop of NewEventFilter runs, then "Ready"
  todo,         \* keys the running loop has still to visit
  lastEvent,    \* the last event passed to Filter
  lastDrop      \* Filter's answer for it

vars == <<sig, filters, notFilters, startTime, cf, phase, todo, lastEvent,
          lastDrop>>

Times == 0..MaxTime

\* Events as the API server produces them: core/v1 events recorded with
\* FirstTimestamp and LastTimestamp, or events.k8s.io events with EventTime.
LegacyEvents ==
  [component : Keys, reason : Keys, first : Times \ {0},
   last : Times \ {0}, eventTime : {0}]
SeriesEvents ==
  [component : Keys, reason : Keys, first : {0}, last : {0},
   eventTime : Times \ {0}]
EventSpace == LegacyEvents \cup SeriesEvents

-----------------------------------------------------------------------------
(* The cuckoo filter operations used by filter.go                          *)

\* Mutant: the table stores the key itself rather than its tag.
AddUniqueKey(k) == cf' = cf \cup {k}

\* cf.AddUnique: stores the key's tag unless Contain already finds one.
AddUnique(k) == cf' = cf \cup {sig[k]}

\* cf.Delete: removes a tag that matches the key, if there is one, whether
\* or not this key was the one inserted.
Delete(k) == cf' = cf \ {sig[k]}

Contain(k) == sig[k] \in cf

-----------------------------------------------------------------------------
(* NewEventFilter, one loop iteration per step                              *)

\* The loops in order, with the keys each visits.
Phases == <<"DefaultAdd", "DefaultDelete", "FilterAdd", "NotFilterDelete">>
PhaseKeys(p) ==
  CASE p = "DefaultAdd"      -> DefaultFilters
    [] p = "DefaultDelete"   -> DefaultNotFilters
    [] p = "FilterAdd"       -> filters
    [] p = "NotFilterDelete" -> notFilters

\* InitDefault's first loop: for each list of f.filters, AddUnique.
InitDefaultAdd ==
  /\ phase = "DefaultAdd"
  /\ \E k \in todo : AddUnique(k) /\ todo' = todo \ {k}
  /\ UNCHANGED <<sig, filters, notFilters, startTime, phase, lastEvent, lastDrop>>

\* InitDefault's second loop: for each list of f.notFilters, Delete.
InitDefaultDelete ==
  /\ phase = "DefaultDelete"
  /\ \E k \in todo : Delete(k) /\ todo' = todo \ {k}
  /\ UNCHANGED <<sig, filters, notFilters, startTime, phase, lastEvent, lastDrop>>

AppendFilterList ==
  /\ phase = "FilterAdd"
  /\ \E k \in todo : AddUnique(k) /\ todo' = todo \ {k}
  /\ UNCHANGED <<sig, filters, notFilters, startTime, phase, lastEvent, lastDrop>>

AppendNotFilterList ==
  /\ phase = "NotFilterDelete"
  /\ \E k \in todo : Delete(k) /\ todo' = todo \ {k}
  /\ UNCHANGED <<sig, filters, notFilters, startTime, phase, lastEvent, lastDrop>>

\* A loop has visited every key: NewEventFilter goes on with the next call.
NextLoop ==
  /\ phase # "Ready" /\ todo = {}
  /\ LET i == CHOOSE j \in 1..Len(Phases) : Phases[j] = phase
     IN  IF i = Len(Phases)
           THEN phase' = "Ready" /\ todo' = {}
           ELSE phase' = Phases[i + 1] /\ todo' = PhaseKeys(Phases[i + 1])
  /\ UNCHANGED <<sig, filters, notFilters, startTime, cf, lastEvent, lastDrop>>

-----------------------------------------------------------------------------
(* Filter                                                                   *)

\* Mutant: an event stamped exactly at the start time is dropped too.
filterTimeNotStrict(ev) ==
  \/ ev.first # 0 /\ startTime >= ev.last
  \/ ev.eventTime # 0 /\ startTime >= ev.eventTime

\* filterTime: time.After is strict.
filterTime(ev) ==
  \/ ev.first # 0 /\ startTime > ev.last
  \/ ev.eventTime # 0 /\ startTime > ev.eventTime

Filter(ev) ==
  filterTime(ev) \/ Contain(ev.component) \/ Contain(ev.reason)

FilterEvent ==
  /\ phase = "Ready"
  /\ \E ev \in EventSpace :
       /\ lastEvent' = ev
       /\ lastDrop' = Filter(ev)
  /\ UNCHANGED <<sig, filters, notFilters, startTime, cf, phase, todo>>

-----------------------------------------------------------------------------
(* The ConfigResolver lookups NewEventControllerWatcher makes               *)

\* The index of the first eventSinks entry for cluster c, 0 if none.
FirstSink(sinks, c) == SelectInSeq(sinks, LAMBDA s : s.cluster = c)

\* GetEventSinksFilters and GetEventSinksNotFilters: the list of the first
\* matching entry, a later entry for the same cluster ignored; nil if none.
GetEventSinksFilters(sinks, c) ==
  IF FirstSink(sinks, c) = 0 THEN {} ELSE sinks[FirstSink(sinks, c)].filters
GetEventSinksNotFilters(sinks, c) ==
  IF FirstSink(sinks, c) = 0 THEN {} ELSE sinks[FirstSink(sinks, c)].notFilters

-----------------------------------------------------------------------------

Init ==
  /\ sig \in HashFns
  /\ \E sinks \in SinkLists :
       /\ filters = GetEventSinksFilters(sinks, Cluster)
       /\ notFilters = GetEventSinksNotFilters(sinks, Cluster)
  /\ startTime \in 1..MaxTime
  /\ cf = {}
  /\ phase = "DefaultAdd" /\ todo = DefaultFilters
  /\ lastEvent = NoEvent /\ lastDrop = FALSE

Next ==
  \/ InitDefaultAdd \/ InitDefaultDelete \/ AppendFilterList
  \/ AppendNotFilterList \/ NextLoop \/ FilterEvent

Spec == Init /\ [][Next]_vars

-----------------------------------------------------------------------------
(* Properties                                                               *)

TypeOK ==
  /\ sig \in HashFns
  /\ filters \subseteq Keys /\ notFilters \subseteq Keys
  /\ cf \subseteq Sigs
  /\ phase \in {Phases[i] : i \in 1..Len(Phases)} \cup {"Ready"}
  /\ todo \subseteq Keys
  /\ lastEvent \in EventSpace \cup {NoEvent}
  /\ lastDrop \in BOOLEAN

\* The keys the spec says are blocked: the defaults less their exceptions,
\* with the cluster's filters layered on and its exceptions winning last.
Blocked == ((DefaultFilters \ DefaultNotFilters) \cup filters) \ notFilters

\* The time Handle2 gives the event: LastTimestamp, or EventTime when
\* FirstTimestamp is zero.
EventTime(ev) == IF ev.first = 0 THEN ev.eventTime ELSE ev.last

\* The spec's decision: drop an event that predates the watcher's start or
\* whose component or reason is blocked.
RefDrop(ev) ==
  \/ EventTime(ev) < startTime
  \/ ev.component \in Blocked \/ ev.reason \in Blocked

\* Filter decides every event as the spec's definition does, whatever the
\* cluster's lists and start time, provided the hash tells the keys apart:
\* the four loops' order makes exceptions override and layers compose.
FilterMatchesReference ==
  lastEvent # NoEvent => lastDrop = RefDrop(lastEvent)
=============================================================================
