------------------------------ MODULE YachNotify ------------------------------
(***************************************************************************)
(* The Yach robot integration (src/pkg/notify/yach/yach_robot.go) under   *)
(* the notification pipeline's retry stage.                                *)
(*                                                                         *)
(* Each attempt is one call of Notifier.Notify: genMarkdown renders the    *)
(* batch, sign() signs a fresh timestamp, the POST goes out, and the       *)
(* result is classified into (retry, err).  The robot may post the message *)
(* and answer, post it and have the answer lost, reject it with HTTP 200   *)
(* and an application error code, fail with a non-200 status, or be        *)
(* unreachable.  The retry stage that calls Notify is Alertmanager's       *)
(* notify.RetryStage (not in the source tree; modelled from the spec): it  *)
(* stops on success or a non-retryable error, backs off otherwise, and     *)
(* gives up when the group's context expires or the attempts run out.      *)
(*                                                                         *)
(* An alert is abstracted to what genMarkdown branches on: whether it has  *)
(* an event_reason label, whether EndsAt is set, and its workcode label.   *)
(***************************************************************************)
EXTENDS Naturals, Sequences, SequencesExt

CONSTANTS
  Workcodes,     \* owner work codes an event can carry
  MaxBatch,      \* alerts per batch
  MaxAttempts    \* the retry stage's attempt cap

VARIABLES
  batch,      \* the alerts passed to Notify
  msg,        \* the message the last attempt rendered
  stage,      \* "Attempt", "Backoff", "Succeeded" or "Failed"
  attempts,   \* Notify calls so far
  posted,     \* times the robot posted the message to the chat
  ctxDone     \* the group's context has expired

vars == <<batch, msg, stage, attempts, posted, ctxDone>>

Alert == [event : BOOLEAN, resolved : BOOLEAN, workcode : Workcodes \cup {""}]
Batches == UNION {[1..k -> Alert] : k \in 1..MaxBatch}

\* What the robot does with one POST: whether it posts the message to the
\* chat, and what the client sees.
Outcomes ==
  {[posted |-> TRUE,  resp |-> r] : r \in {"ok", "transport_err", "body_err"}}
  \cup
  {[posted |-> FALSE, resp |-> r] : r \in {"app_err", "http_err", "transport_err"}}

NoMsg == [frames |-> <<>>, ends |-> <<>>, at |-> ""]

-----------------------------------------------------------------------------
(* genMarkdown                                                              *)

\* The heading of an alert: 『事件通知』 when it has an event_reason label,
\* otherwise 『告警恢复』 when EndsAt is set, else 『告警通知』.
Frame(a) ==
  IF a.event THEN "event" ELSE IF a.resolved THEN "resolved" ELSE "firing"

\* msg.At: each alert with a non-empty workcode overwrites it, so the last
\* one wins.
Mention(as) ==
  LET i == SelectLastInSeq(as, LAMBDA a : a.workcode # "") IN
  IF i = 0 THEN "" ELSE as[i].workcode

genMarkdown(as) ==
  [frames |-> [i \in 1..Len(as) |-> Frame(as[i])],
   ends   |-> [i \in 1..Len(as) |-> ~as[i].event /\ as[i].resolved],
   at     |-> Mention(as)]

-----------------------------------------------------------------------------
(* Notify's classification of the response                                 *)

\* Mutant: a non-200 status is reported as not worth retrying.
ClassifyStatusFinal(o) ==
  CASE o.resp = "http_err" -> [retry |-> FALSE, ok |-> FALSE]
    [] o.resp \in {"transport_err", "body_err"} -> [retry |-> TRUE, ok |-> FALSE]
    [] OTHER -> [retry |-> TRUE, ok |-> TRUE]

\* client.Do failing, a non-200 status and a failed body read return
\* (true, err); everything else, whatever YachResponse.Code says, returns
\* (true, nil).
Classify(o) ==
  CASE o.resp \in {"transport_err", "http_err", "body_err"} ->
         [retry |-> TRUE, ok |-> FALSE]
    [] OTHER -> [retry |-> TRUE, ok |-> TRUE]

-----------------------------------------------------------------------------
(* The retry stage and the attempts                                         *)

\* Mutant: the retry stage does not count the attempt.
NotifyUncounted ==
  /\ stage = "Attempt" /\ ~ctxDone /\ attempts < MaxAttempts
  /\ \E o \in Outcomes :
       LET r == Classify(o) IN
       /\ msg' = genMarkdown(batch)
       /\ posted' = IF o.posted THEN posted + 1 ELSE posted
       /\ stage' = IF r.ok THEN "Succeeded"
                   ELSE IF r.retry THEN "Backoff" ELSE "Failed"
  /\ UNCHANGED <<batch, ctxDone, attempts>>

\* One round of RetryStage: Notify is called and its (retry, err) decides
\* between success, giving up and backing off.
Notify ==
  /\ stage = "Attempt" /\ ~ctxDone /\ attempts < MaxAttempts
  /\ \E o \in Outcomes :
       LET r == Classify(o) IN
       /\ msg' = genMarkdown(batch)
       /\ posted' = IF o.posted THEN posted + 1 ELSE posted
       /\ stage' = IF r.ok THEN "Succeeded"
                   ELSE IF r.retry THEN "Backoff" ELSE "Failed"
  /\ attempts' = attempts + 1
  /\ UNCHANGED <<batch, ctxDone>>

\* The backoff ticker fires before the context is done.
Retry ==
  /\ stage = "Backoff" /\ ~ctxDone /\ attempts < MaxAttempts
  /\ stage' = "Attempt"
  /\ UNCHANGED <<batch, msg, attempts, posted, ctxDone>>

\* The context is found done (checked first on every round, and raced
\* against the ticker), or no attempt is left.
GiveUp ==
  /\ \/ stage \in {"Attempt", "Backoff"} /\ ctxDone
     \/ stage = "Backoff" /\ attempts = MaxAttempts
  /\ stage' = "Failed"
  /\ UNCHANGED <<batch, msg, attempts, posted, ctxDone>>

\* The group's timeout.
CtxExpire ==
  /\ ~ctxDone /\ stage \in {"Attempt", "Backoff"}
  /\ ctxDone' = TRUE
  /\ UNCHANGED <<batch, msg, stage, attempts, posted>>

Finished == stage \in {"Succeeded", "Failed"} /\ UNCHANGED vars

Init ==
  /\ batch \in Batches
  /\ msg = NoMsg
  /\ stage = "Attempt" /\ attempts = 0 /\ posted = 0 /\ ctxDone = FALSE

Next == Notify \/ Retry \/ GiveUp \/ CtxExpire \/ Finished

Spec == Init /\ [][Next]_vars

-----------------------------------------------------------------------------
(* Properties                                                               *)

TypeOK ==
  /\ batch \in Batches
  /\ msg = NoMsg \/ msg = genMarkdown(batch)
  /\ stage \in {"Attempt", "Backoff", "Succeeded", "Failed"}
  /\ attempts \in 0..MaxAttempts /\ posted \in 0..attempts
  /\ ctxDone \in BOOLEAN

\* The spec treats any non-success status as retryable: the stage gives up
\* only when its attempts are used up or the group's context has expired.
GivesUpOnlyWhenExhausted ==
  stage = "Failed" => attempts = MaxAttempts \/ ctxDone
=============================================================================
