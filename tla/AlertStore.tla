------------------------------ MODULE AlertStore ------------------------------
(***************************************************************************)
(* The in-memory alert provider (src/pkg/provider/mem/mem.go).            *)
(*                                                                         *)
(* Put stores each alert (merged with the stored one of its fingerprint    *)
(* when their activity ranges overlap), starts a Listeners goroutine for   *)
(* it, and ends with a call of Subscribe whose iterator it drops.          *)
(* Listeners takes the mutex and, for every registered listener in map     *)
(* order, blocks until it can send the alert or sees the listener's done  *)
(* channel closed.  Subscribe, under the mutex, registers a listener whose *)
(* channel is pre-filled with the stored alerts.  NewAlerts starts the    *)
(* store's GC loop (Alertmanager's store.Alerts.Run), whose callback would *)
(* reap closed listeners every 30 minutes; but SetALertMemProvider defers  *)
(* alerts.Close(), so the loop's context is cancelled as the provider is   *)
(* returned, and the loop's first select returns.  No GC run, and no      *)
(* reaping, ever happens.                                                  *)
(*                                                                         *)
(* Callers: Putters call Put; each of Clients subscribes once, reads its   *)
(* channel at its own pace and may close its iterator (the dispatcher's    *)
(* Stop on a reload).  An alert is a fingerprint and an activity range in  *)
(* Times; it is identified in channels by the number of the Put that       *)
(* stored it.                                                              *)
(***************************************************************************)
EXTENDS Naturals, Sequences, FiniteSets, Functions, SequencesExt, TLC

CONSTANTS
  FPs,           \* fingerprints
  MaxTime,       \* activity ranges lie in 0..MaxTime
  Putters,       \* goroutines calling Put
  Clients,       \* subscribers
  MaxPuts,       \* bound on Put calls
  Cap,           \* alertChannelLength
  NoAlert

VARIABLES
  store,       \* store.Alerts: fingerprint -> [id, s, e]
  gcPc,        \* the GC loop: "Running" or "Exited"
  mtx,         \* a.mtx: {} when free, else {the holder}
  listeners,   \* a.listeners: id -> [ch, cap, done]
  next,        \* a.next
  pc,          \* each putter: "Idle", "Set" or "Subscribe"
  local,       \* the alert a putter is about to Set
  puts,        \* Put calls so far (the ids handed out)
  lg,          \* Listeners goroutines: put id -> [pc, todo]
  sub,         \* each client's listener id as a singleton, {} before it subscribes
  closed,      \* clients that closed their iterator
  got,         \* ids each client has read
  owed         \* ids each client is owed: its snapshot, and those stored
               \* while it was subscribed

vars == <<store, gcPc, mtx, listeners, next, pc, local, puts,
          lg, sub, closed, got, owed>>

Times == 0..MaxTime
AlertSpace ==
  {[fp |-> f, s |-> s, e |-> e] : f \in FPs, s \in Times, e \in Times} \cap
  {a \in [fp : FPs, s : Times, e : Times] : a.s <= a.e}
Stored == [id : Nat, s : Times, e : Times]

\* a.alerts.List(): the stored alerts' ids, in the store's map order.
List == SetToSeq({store[f].id : f \in DOMAIN store})

\* A listener of a.listeners with the given pre-filled channel; the buffer
\* is max(len(alerts), alertChannelLength).
NewListener(snap) ==
  [ch |-> snap, cap |-> IF Len(snap) > Cap THEN Len(snap) ELSE Cap, done |-> FALSE]

-----------------------------------------------------------------------------
(* Put                                                                      *)

\* The merge condition of Put: the new end or the new start lies strictly
\* inside the old range.
Overlaps(new, old) ==
  \/ new.e > old.s /\ new.e < old.e
  \/ new.s > old.s /\ new.s < old.e

\* types.Alert.Merge: the union of the two ranges, the incoming alert's
\* labels and annotations.
Merge(old, new) ==
  [id |-> new.id,
   s  |-> IF old.s < new.s THEN old.s ELSE new.s,
   e  |-> IF old.e > new.e THEN old.e ELSE new.e]

\* a.alerts.Get, then the merge decision.
PutGet(p) ==
  /\ pc[p] = "Idle" /\ puts < MaxPuts
  /\ \E a \in AlertSpace :
       LET new == [id |-> puts + 1, s |-> a.s, e |-> a.e] IN
       LET old == IF a.fp \in DOMAIN store THEN store[a.fp] ELSE NoAlert IN
       local' = [local EXCEPT ![p] =
                   [fp |-> a.fp, old |-> old, new |-> new,
                    al |-> IF old # NoAlert /\ Overlaps(new, old)
                             THEN Merge(old, new) ELSE new]]
  /\ puts' = puts + 1
  /\ pc' = [pc EXCEPT ![p] = "Set"]
  /\ UNCHANGED <<store, gcPc, mtx, listeners, next, lg, sub,
                 closed, got, owed>>

\* a.alerts.Set, then go a.Listeners(alert).
PutSet(p) ==
  /\ pc[p] = "Set"
  /\ LET fp == local[p].fp
         al == local[p].al IN
     /\ store' = [f \in DOMAIN store \cup {fp} |-> IF f = fp THEN al ELSE store[f]]
     /\ lg' = lg @@ (al.id :> [pc |-> "Lock", todo |-> {}])
     /\ owed' = [c \in Clients |->
                       IF sub[c] # {} /\ c \notin closed
                         THEN owed[c] \cup {al.id} ELSE owed[c]]
  /\ pc' = [pc EXCEPT ![p] = "Subscribe"]
  /\ local' = [local EXCEPT ![p] = NoAlert]
  /\ UNCHANGED <<gcPc, mtx, listeners, next, puts, sub, closed, got>>

\* Mutant: a.next is not advanced, so the next listener replaces this one.
PutSubscribeNoNext(p) ==
  /\ pc[p] = "Subscribe" /\ mtx = {}
  /\ listeners' = listeners @@ (next :> NewListener(List))
  /\ pc' = [pc EXCEPT ![p] = "Idle"]
  /\ UNCHANGED <<store, gcPc, mtx, next, local, puts, lg, sub,
                 closed, got, owed>>

\* The trailing a.Subscribe(): a listener nobody reads or closes.
PutSubscribe(p) ==
  /\ pc[p] = "Subscribe" /\ mtx = {}
  /\ listeners' = listeners @@ (next :> NewListener(List))
  /\ next' = next + 1
  /\ pc' = [pc EXCEPT ![p] = "Idle"]
  /\ UNCHANGED <<store, gcPc, mtx, local, puts, lg, sub,
                 closed, got, owed>>

-----------------------------------------------------------------------------
(* Listeners                                                                *)

\* Every id a.next can hand out: one per Put and one per client.
ListenerIds == 0..(MaxPuts + Cardinality(Clients) - 1)

LLock(k) ==
  /\ k \in DOMAIN lg /\ lg[k].pc = "Lock" /\ mtx = {}
  /\ mtx' = {k}
  /\ lg' = [lg EXCEPT ![k] = [pc |-> "Send", todo |-> DOMAIN listeners]]
  /\ UNCHANGED <<store, gcPc, listeners, next, pc, local, puts,
                 sub, closed, got, owed>>

\* Mutant: the send does not block; a full channel drops the alert.
LSendDropFull(k, i) ==
  /\ k \in DOMAIN lg /\ lg[k].pc = "Send" /\ i \in lg[k].todo
  /\ \/ listeners[i].done /\ UNCHANGED listeners
     \/ Len(listeners[i].ch) < listeners[i].cap
        /\ listeners' = [listeners EXCEPT ![i].ch = Append(@, k)]
     \/ Len(listeners[i].ch) = listeners[i].cap /\ UNCHANGED listeners
  /\ lg' = [lg EXCEPT ![k].todo = @ \ {i}]
  /\ UNCHANGED <<store, gcPc, mtx, next, pc, local, puts, sub,
                 closed, got, owed>>

\* One listener of the range, in map order: whichever of the send and
\* <-l.done is ready; with neither ready the goroutine blocks, mutex held.
LSend(k, i) ==
  /\ k \in DOMAIN lg /\ lg[k].pc = "Send" /\ i \in lg[k].todo
  /\ \/ listeners[i].done /\ UNCHANGED listeners
     \/ Len(listeners[i].ch) < listeners[i].cap
        /\ listeners' = [listeners EXCEPT ![i].ch = Append(@, k)]
  /\ lg' = [lg EXCEPT ![k].todo = @ \ {i}]
  /\ UNCHANGED <<store, gcPc, mtx, next, pc, local, puts, sub,
                 closed, got, owed>>

LUnlock(k) ==
  /\ k \in DOMAIN lg /\ lg[k].pc = "Send" /\ lg[k].todo = {}
  /\ mtx' = {}
  /\ lg' = [lg EXCEPT ![k].pc = "Done"]
  /\ UNCHANGED <<store, gcPc, listeners, next, pc, local, puts,
                 sub, closed, got, owed>>

-----------------------------------------------------------------------------
(* The subscribers                                                          *)

SubId(c) == CHOOSE i \in sub[c] : TRUE

\* Mutant: the channel is made but not pre-filled with the snapshot.
SubscribeNoSnapshot(c) ==
  /\ sub[c] = {} /\ mtx = {}
  /\ listeners' = listeners @@ (next :> NewListener(<<>>))
  /\ sub' = [sub EXCEPT ![c] = {next}]
  /\ next' = next + 1
  /\ owed' = [owed EXCEPT ![c] = {store[f].id : f \in DOMAIN store}]
  /\ UNCHANGED <<store, gcPc, mtx, pc, local, puts, lg, closed, got>>

\* Under the mutex: List() as the pre-filled channel, then the listener
\* registered under a.next.  The client is owed the snapshot.
Subscribe(c) ==
  /\ sub[c] = {} /\ mtx = {}
  /\ listeners' = listeners @@ (next :> NewListener(List))
  /\ sub' = [sub EXCEPT ![c] = {next}]
  /\ next' = next + 1
  /\ owed' = [owed EXCEPT ![c] = {store[f].id : f \in DOMAIN store}]
  /\ UNCHANGED <<store, gcPc, mtx, pc, local, puts, lg, closed, got>>

\* The iterator's Next: one alert off the channel.
Receive(c) ==
  /\ sub[c] \subseteq DOMAIN listeners /\ sub[c] # {} /\ c \notin closed
  /\ listeners[SubId(c)].ch # <<>>
  /\ got' = [got EXCEPT ![c] = @ \cup {Head(listeners[SubId(c)].ch)}]
  /\ listeners' = [listeners EXCEPT ![SubId(c)].ch = Tail(@)]
  /\ UNCHANGED <<store, gcPc, mtx, next, pc, local, puts, lg,
                 sub, closed, owed>>

\* The iterator's Close: its done channel is closed.
CloseIter(c) ==
  /\ sub[c] \subseteq DOMAIN listeners /\ sub[c] # {} /\ c \notin closed
  /\ listeners' = [listeners EXCEPT ![SubId(c)].done = TRUE]
  /\ closed' = closed \cup {c}
  /\ UNCHANGED <<store, gcPc, mtx, next, pc, local, puts, lg,
                 sub, got, owed>>

-----------------------------------------------------------------------------
(* The GC loop                                                             *)

\* store.Alerts.Run's select: the context is already cancelled (the
\* deferred Close ran when SetALertMemProvider returned) long before the
\* first tick, so the loop returns.
GCRunExit ==
  /\ gcPc = "Running"
  /\ gcPc' = "Exited"
  /\ UNCHANGED <<store, mtx, listeners, next, pc, local, puts, lg, sub,
                 closed, got, owed>>

-----------------------------------------------------------------------------

\* SetALertMemProvider: NewAlerts starts the GC loop; the deferred
\* alerts.Close() cancels its context as the function returns.
SetALertMemProvider == gcPc = "Running"

Init ==
  /\ store = <<>> /\ SetALertMemProvider
  /\ mtx = {} /\ listeners = <<>> /\ next = 0
  /\ pc = [p \in Putters |-> "Idle"] /\ local = [p \in Putters |-> NoAlert]
  /\ puts = 0 /\ lg = <<>>
  /\ sub = [c \in Clients |-> {}] /\ closed = {}
  /\ got = [c \in Clients |-> {}] /\ owed = [c \in Clients |-> {}]

\* The callers have made their calls and every goroutine has returned.
Quiet ==
  /\ puts = MaxPuts /\ \A p \in Putters : pc[p] = "Idle"
  /\ \A k \in DOMAIN lg : lg[k].pc = "Done"
  /\ UNCHANGED vars

Next ==
  \/ \E p \in Putters : PutGet(p) \/ PutSet(p) \/ PutSubscribe(p)
  \/ \E k \in 1..MaxPuts : LLock(k)
  \/ \E k \in 1..MaxPuts, i \in ListenerIds : LSend(k, i)
  \/ \E k \in 1..MaxPuts : LUnlock(k)
  \/ \E c \in Clients : Subscribe(c) \/ Receive(c) \/ CloseIter(c)
  \/ GCRunExit
  \/ Quiet

\* The goroutines the runtime schedules: the putters, the Listeners
\* goroutines and the GC loop.  Subscribers read at their own pace.
Fairness ==
  /\ \A p \in Putters : WF_vars(PutSet(p)) /\ WF_vars(PutSubscribe(p))
  /\ \A k \in 1..MaxPuts :
       WF_vars(LLock(k)) /\ WF_vars(\E i \in ListenerIds : LSend(k, i))
       /\ WF_vars(LUnlock(k))
  /\ WF_vars(GCRunExit)

Spec == Init /\ [][Next]_vars /\ Fairness

-----------------------------------------------------------------------------
(* Properties                                                               *)

TypeOK ==
  /\ DOMAIN store \subseteq FPs /\ \A f \in DOMAIN store : store[f] \in Stored
  /\ gcPc \in {"Running", "Exited"}
  /\ mtx \subseteq DOMAIN lg /\ Cardinality(mtx) <= 1
  /\ DOMAIN listeners \subseteq 0..(next - 1)
  /\ \A i \in DOMAIN listeners : Len(listeners[i].ch) <= listeners[i].cap
  /\ pc \in [Putters -> {"Idle", "Set", "Subscribe"}]
  /\ DOMAIN lg \subseteq 1..puts /\ puts \in 0..MaxPuts
  /\ \A c \in Clients : sub[c] \subseteq 0..(next - 1) /\ Cardinality(sub[c]) <= 1
  /\ closed \subseteq Clients

\* Snapshot plus live feed: an alert in the store when a client subscribes,
\* or stored while it is subscribed, is, once its Listeners goroutine has
\* returned, either read by the client or waiting in its channel.
NoLostAlert ==
  \A c \in Clients :
    (sub[c] # {} /\ c \notin closed) =>
      \A k \in owed[c] :
        lg[k].pc = "Done" =>
          \/ k \in got[c]
          \/ SubId(c) \in DOMAIN listeners /\ k \in Range(listeners[SubId(c)].ch)

\* The spec: a subscriber that closed its cancellation signal is reaped
\* by a later GC cycle; its listener slot does not stay for good.
ClosedSubscriberReaped ==
  \A c \in Clients :
    c \in closed ~> sub[c] \cap DOMAIN listeners = {}

\* The spec: a slow or closed subscriber must not stall Put for others;
\* every Put returns.
PutReturns ==
  \A p \in Putters : pc[p] = "Subscribe" ~> pc[p] = "Idle"
=============================================================================
