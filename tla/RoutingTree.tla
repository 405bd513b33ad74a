----------------------------- MODULE RoutingTree -----------------------------
(***************************************************************************)
(* The routing tree: dispatch.Route and its Match and Walk, which          *)
(* insertAlerts (src/pkg/k8s/events/handler.go) and the reload subscriber *)
(* (src/cmd/module/alert.go) call.  pkg/dispatch is not in the source     *)
(* tree; this module follows the RoutingEngine contract of the spec        *)
(* (section 4.4): depth-first, pre-order matching, continue=false stops    *)
(* the siblings but not the children, and the root serves as the fallback  *)
(* receiver.                                                               *)
(*                                                                         *)
(* A route is a record: the receiver it names, the label values its        *)
(* conjunctive matcher list accepts (an alert is abstracted to the one     *)
(* label the routes here tell apart), its continue flag, and its child     *)
(* routes in order.  Match returns the matched routes in order.            *)
(***************************************************************************)
EXTENDS Naturals, Sequences

CONSTANTS
  Labels,      \* label values an alert may carry
  Matchers     \* sets of label values a route's matcher list may accept

ASSUME Matchers \subseteq SUBSET Labels

RECURSIVE Match(_, _), MatchChildren(_, _)

\* Route.Match: a route whose matchers reject the alert matches nothing.
\* Otherwise its children are tried in order; a matching route none of
\* whose children matches is itself the match.
Match(r, a) ==
  IF a \notin r.matchers THEN <<>>
  ELSE LET below == MatchChildren(r.routes, a)
       IN  IF below = <<>> THEN <<r>> ELSE below

\* The loop over the children: each child's matches are appended, and the
\* loop stops after the first child that matched with continue=false.
MatchChildren(cs, a) ==
  IF cs = <<>> THEN <<>>
  ELSE LET m == Match(Head(cs), a)
       IN  IF m # <<>> /\ ~Head(cs).continue THEN m
           ELSE m \o MatchChildren(Tail(cs), a)

\* Route.Walk applied to collect receivers: the receiver of every route.
RECURSIVE WalkReceivers(_)
WalkReceivers(r) ==
  {r.receiver} \cup UNION {WalkReceivers(r.routes[i]) : i \in 1..Len(r.routes)}

=============================================================================
