------------------------- MODULE WebhookDispatcher -------------------------
(***************************************************************************)
(* Partner webhooks (pkg/webhook/dispatcher.go) and the handlers that use  *)
(* them.  A gateway that completes a movement, or a wallet service that    *)
(* blocks one, starts Dispatch in the background: it lists the active      *)
(* subscriptions and sends to each from a goroutine of its own, first the  *)
(* HTTP request and then the delivery record.  Gateways, and only they,    *)
(* also run a retry worker over the shared records; nothing stops two      *)
(* workers from taking the same record, and each writes back the attempt   *)
(* count it read, plus one.                                                *)
(*                                                                         *)
(* A gateway that finds no database when it starts is detached until it is *)
(* restarted: it keeps the subscriptions made with it in its own memory,   *)
(* stores no delivery record and runs no retry worker.                     *)
(*                                                                         *)
(* The backoff is a flag: next_retry_at passes at some later time.         *)
(***************************************************************************)
EXTENDS Naturals, FiniteSets

CONSTANTS
    Pods,         \* the processes that dispatch events
    Gateways,     \* those that are gateways; the others are wallet services
    Subs,         \* subscription ids
    Events,       \* completed or blocked movements, each dispatched once
    Home,         \* event -> the pod that dispatches it
    Interest,     \* pairs <<event, subscription>> for which MatchesEvent holds
    BatchLimit,   \* 50 in ProcessPendingRetries
    MaxAttempts,  \* DefaultMaxAttempts
    MaxFaults,    \* bound on crashes and failed database operations
    None

WebhookConstants ==
    /\ Home \in [Events -> Pods] /\ Gateways \subseteq Pods
    /\ Interest \subseteq Events \X Subs
    /\ BatchLimit \in Nat \ {0} /\ MaxAttempts \in Nat \ {0} /\ MaxFaults \in Nat
ASSUME WebhookAssumption == WebhookConstants

Deliveries == Interest    \* one record per event and subscriber
Ev(d) == d[1]
Sub(d) == d[2]

SubStates == {"none", "active", "inactive"}
Records == [status : {"delivered", "failed", "retry_pending"}, attempts : 1..MaxAttempts, due : BOOLEAN]
Workers == [pc : {"idle", "pick", "send", "mark"}, batch : [Deliveries -> 0..(MaxAttempts - 1)],
            cur : Deliveries \cup {None}, ok : BOOLEAN]

(* None stands for "no record" and "no delivery": it is neither.           *)
NoneIsNoRecord == None \notin Records \cup Deliveries
ASSUME NoneAssumption == NoneIsNoRecord

VARIABLES
    detached,    \* gateways that run without a database
    subs,        \* webhook_subscriptions: id -> "none", "active", "inactive"
    memSubs,     \* pod -> memSubs of its dispatcher, the same
    deliveries,  \* webhook_deliveries: None or [status, attempts, due]
    event,       \* the goroutine of Dispatch: "idle", "list" or "done"
    single,      \* the goroutine of dispatchSingle: "idle", "send", "ok", "error", "done"
    worker,      \* pod -> its retry worker
    sends,       \* requests really sent for a delivery
    accepted,    \* deliveries the endpoint has processed
    spoiled,     \* deliveries a fault or a second worker has interfered with
    faults

subVars == <<detached, subs, memSubs>>
dispatchVars == <<event, single>>
endpointVars == <<sends, accepted>>
vars == <<subVars, deliveries, dispatchVars, worker, endpointVars, spoiled, faults>>

Sleeping == [pc |-> "idle", batch |-> [d \in Deliveries |-> 0], cur |-> None, ok |-> FALSE]

NoSubs == [s \in Subs |-> "none"]

Init ==
    /\ detached \in SUBSET Gateways
    /\ subs = NoSubs
    /\ memSubs = [p \in Pods |-> NoSubs]
    /\ deliveries = [d \in Deliveries |-> None]
    /\ event = [e \in Events |-> "idle"]
    /\ single = [d \in Deliveries |-> "idle"]
    /\ worker = [p \in Pods |-> Sleeping]
    /\ sends = [d \in Deliveries |-> 0]
    /\ accepted = {}
    /\ spoiled = {}
    /\ faults = 0

Fail == faults < MaxFaults /\ faults' = faults + 1
Ok == UNCHANGED faults

-----------------------------------------------------------------------------
(* POST and DELETE of handleWebhookSubscriptions.  A request that fails    *)
(* validation or whose write fails changes nothing.                        *)
Store(p) == IF p \in detached THEN memSubs[p] ELSE subs

StoreSubscription(p, s, state) ==
    IF p \in detached THEN memSubs' = [memSubs EXCEPT ![p][s] = state] /\ UNCHANGED subs
                      ELSE subs' = [subs EXCEPT ![s] = state] /\ UNCHANGED memSubs

(* The id is a new one.                                                    *)
RegisterSubscription(p, s) ==
    /\ subs[s] = "none" /\ \A q \in Pods : memSubs[q][s] = "none"
    /\ StoreSubscription(p, s, "active")
    /\ UNCHANGED <<detached, deliveries, dispatchVars, worker, endpointVars, spoiled, faults>>

DeleteSubscription(p, s) ==
    /\ Store(p)[s] # "none"
    /\ StoreSubscription(p, s, "inactive")
    /\ UNCHANGED <<detached, deliveries, dispatchVars, worker, endpointVars, spoiled, faults>>

HandleWebhookSubscriptions(p, s) == RegisterSubscription(p, s) \/ DeleteSubscription(p, s)

(* A transfer, deposit or withdrawal of the gateway has succeeded, or the  *)
(* wallet service has blocked a transfer as fraud.                         *)
MovementCompleted(e) ==
    /\ event[e] = "idle"
    /\ event' = [event EXCEPT ![e] = "list"]
    /\ UNCHANGED <<subVars, deliveries, single, worker, endpointVars, spoiled, faults>>

ListSubscriptions(p) == {s \in Subs : Store(p)[s] = "active"}

(* Dispatch gives up, unrecorded, when the list cannot be read.            *)
Dispatch(e) ==
    LET targets == {d \in Deliveries : Ev(d) = e /\ Sub(d) \in ListSubscriptions(Home[e])} IN
    /\ event[e] = "list"
    /\ event' = [event EXCEPT ![e] = "done"]
    /\ \/ /\ Ok /\ UNCHANGED spoiled
          /\ single' = [d \in Deliveries |-> IF d \in targets THEN "send" ELSE single[d]]
       \/ /\ Home[e] \notin detached /\ Fail /\ UNCHANGED single
          /\ spoiled' = spoiled \cup targets
    /\ UNCHANGED <<subVars, deliveries, worker, endpointVars>>

(* One signed request.  The sender sees a 2xx answer, a refusal, or an     *)
(* error although the endpoint has processed the request.                  *)
SendHTTP(d, ok) ==
    /\ sends' = [sends EXCEPT ![d] = @ + 1]
    /\ IF ok THEN accepted' = accepted \cup {d}
             ELSE accepted' \in {accepted, accepted \cup {d}}

DispatchSingle(d) ==
    /\ single[d] = "send"
    /\ \E ok \in BOOLEAN :
         /\ SendHTTP(d, ok)
         /\ single' = [single EXCEPT ![d] = IF ok THEN "ok" ELSE "error"]
    /\ UNCHANGED <<subVars, deliveries, event, worker, spoiled, faults>>

(* Plausible errors: the last attempt is not counted, or the limit is      *)
(* reached one attempt early.                                              *)
OutcomeOneMore(n, ok) ==
    [status |-> IF ok THEN "delivered" ELSE IF n > MaxAttempts THEN "failed" ELSE "retry_pending",
     attempts |-> n, due |-> FALSE]
OutcomeOneLess(n, ok) ==
    [status |-> IF ok THEN "delivered" ELSE IF n >= MaxAttempts - 1 THEN "failed" ELSE "retry_pending",
     attempts |-> n, due |-> FALSE]

(* The status and the schedule after attempt n.                            *)
Outcome(n, ok) ==
    [status |-> IF ok THEN "delivered" ELSE IF n >= MaxAttempts THEN "failed" ELSE "retry_pending",
     attempts |-> n, due |-> FALSE]

(* The record is inserted after the request, where there is a database; a  *)
(* failed insert is ignored.                                               *)
InsertDelivery(d) ==
    /\ single[d] \in {"ok", "error"}
    /\ single' = [single EXCEPT ![d] = "done"]
    /\ \/ Home[Ev(d)] \in detached /\ Ok /\ UNCHANGED <<deliveries, spoiled>>
       \/ /\ Home[Ev(d)] \notin detached /\ Ok /\ UNCHANGED spoiled
          /\ deliveries' = [deliveries EXCEPT ![d] = Outcome(1, single[d] = "ok")]
       \/ /\ Home[Ev(d)] \notin detached /\ Fail
          /\ spoiled' = spoiled \cup {d} /\ UNCHANGED deliveries
    /\ UNCHANGED <<subVars, event, worker, endpointVars>>

BackoffElapses(d) ==
    /\ deliveries[d] # None /\ deliveries[d].status = "retry_pending" /\ ~deliveries[d].due
    /\ deliveries' = [deliveries EXCEPT ![d] = [@ EXCEPT !.due = TRUE]]
    /\ UNCHANGED <<subVars, dispatchVars, worker, endpointVars, spoiled, faults>>

-----------------------------------------------------------------------------
(* Plausible error: records on their last attempt are filtered out.        *)
DueBeforeLast ==
    {d \in Deliveries : /\ deliveries[d] # None /\ deliveries[d].status = "retry_pending"
                        /\ deliveries[d].due /\ deliveries[d].attempts + 1 < MaxAttempts}

(* ProcessPendingRetries, step by step.  StartRetryWorker is called by     *)
(* gateways that have a database.                                          *)
Due == {d \in Deliveries :
          deliveries[d] # None /\ deliveries[d].status = "retry_pending" /\ deliveries[d].due}
InBatch(p) == {d \in Deliveries : worker[p].batch[d] > 0}
Held == UNION {InBatch(p) : p \in Pods}

(* The batch, with the attempt counts as they are now.  A failed Find ends *)
(* the round and changes nothing.                                          *)
Counts(b) == [d \in Deliveries |-> IF d \in b THEN deliveries[d].attempts ELSE 0]

FetchDue(p) ==
    /\ p \in Gateways \ detached
    /\ worker[p].pc = "idle"
    /\ Due # {}
    /\ \E b \in SUBSET Due :
         /\ b # {} /\ Cardinality(b) <= BatchLimit
         /\ b = Due \/ Cardinality(b) = BatchLimit
         /\ worker' = [worker EXCEPT ![p] = [@ EXCEPT !.pc = "pick", !.batch = Counts(b)]]
         /\ spoiled' = spoiled \cup (b \cap Held)
    /\ UNCHANGED <<subVars, deliveries, dispatchVars, endpointVars, faults>>

Advance(p, d) == [worker[p] EXCEPT !.pc = IF InBatch(p) = {d} THEN "idle" ELSE "pick",
                                   !.batch = [@ EXCEPT ![d] = 0], !.cur = None, !.ok = FALSE]

(* FindOne looks for the id alone, so an inactive subscription is found;   *)
(* any error counts as a subscription that no longer exists, and the       *)
(* failure to record that is ignored.                                      *)
FindSubscription(p, d) ==
    /\ worker[p].pc = "pick" /\ d \in InBatch(p)
    /\ \/ /\ subs[Sub(d)] # "none" /\ Ok
          /\ worker' = [worker EXCEPT ![p] = [@ EXCEPT !.pc = "send", !.cur = d]]
          /\ UNCHANGED <<deliveries, spoiled>>
       \/ /\ Fail
          /\ deliveries' \in {deliveries, [deliveries EXCEPT ![d] = [@ EXCEPT !.status = "failed"]]}
          /\ worker' = [worker EXCEPT ![p] = Advance(p, d)]
          /\ spoiled' = spoiled \cup {d}
    /\ UNCHANGED <<subVars, dispatchVars, endpointVars>>

RetrySend(p) ==
    /\ worker[p].pc = "send"
    /\ \E ok \in BOOLEAN :
         /\ SendHTTP(worker[p].cur, ok)
         /\ worker' = [worker EXCEPT ![p] = [@ EXCEPT !.pc = "mark", !.ok = ok]]
    /\ UNCHANGED <<subVars, deliveries, dispatchVars, spoiled, faults>>

(* Plausible error: the attempt is not counted.                            *)
MarkUncounted(p) ==
    LET d == worker[p].cur IN
    /\ worker[p].pc = "mark"
    /\ worker' = [worker EXCEPT ![p] = Advance(p, d)]
    /\ deliveries' = [deliveries EXCEPT ![d] = Outcome(worker[p].batch[d], worker[p].ok)]
    /\ UNCHANGED <<subVars, dispatchVars, endpointVars, spoiled, faults>>

(* The update is by id, whatever the record says by now.                   *)
MarkDelivery(p) ==
    LET d == worker[p].cur IN
    /\ worker[p].pc = "mark"
    /\ worker' = [worker EXCEPT ![p] = Advance(p, d)]
    /\ \/ /\ Ok /\ UNCHANGED spoiled
          /\ deliveries' = [deliveries EXCEPT ![d] = Outcome(worker[p].batch[d] + 1, worker[p].ok)]
       \/ /\ Fail /\ spoiled' = spoiled \cup {d} /\ UNCHANGED deliveries
    /\ UNCHANGED <<subVars, dispatchVars, endpointVars>>

(* A pod dies with its goroutines and what it kept in memory; its worker   *)
(* starts afresh, and a gateway finds a database or not.                   *)
Crash(p) ==
    LET lost == {d \in Deliveries : Home[Ev(d)] = p /\ single[d] \in {"send", "ok", "error"}}
        unlisted == {e \in Events : Home[e] = p /\ event[e] = "list"}
    IN
    /\ Fail
    /\ detached' \in {detached \ {p}, detached \cup ({p} \cap Gateways)}
    /\ memSubs' = [memSubs EXCEPT ![p] = NoSubs]
    /\ worker' = [worker EXCEPT ![p] = Sleeping]
    /\ single' = [d \in Deliveries |-> IF d \in lost THEN "done" ELSE single[d]]
    /\ event' = [e \in Events |-> IF e \in unlisted THEN "done" ELSE event[e]]
    /\ spoiled' = spoiled \cup lost \cup {d \in Deliveries : Ev(d) \in unlisted} \cup InBatch(p)
    /\ UNCHANGED <<subs, deliveries, endpointVars>>

DispatchStep(e) == Dispatch(e) \/ \E d \in Deliveries : Ev(d) = e /\ (DispatchSingle(d) \/ InsertDelivery(d))
WorkerStep(p) == FetchDue(p) \/ (\E d \in Deliveries : FindSubscription(p, d)) \/ RetrySend(p) \/ MarkDelivery(p)

Next ==
    \/ \E p \in Gateways, s \in Subs : HandleWebhookSubscriptions(p, s)
    \/ \E e \in Events : MovementCompleted(e) \/ DispatchStep(e)
    \/ \E d \in Deliveries : BackoffElapses(d)
    \/ \E p \in Pods : WorkerStep(p) \/ Crash(p)

(* Goroutines are scheduled, the ticker of StartRetryWorker fires and the  *)
(* backoff, at most two minutes, elapses.                                  *)
Fairness ==
    /\ \A e \in Events : WF_vars(DispatchStep(e))
    /\ \A d \in Deliveries : WF_vars(BackoffElapses(d))
    /\ \A p \in Pods : WF_vars(WorkerStep(p))

Spec == Init /\ [][Next]_vars /\ Fairness

-----------------------------------------------------------------------------
(* Records, goroutines and workers have the shape the code gives them; in  *)
(* particular no attempt count passes MaxAttempts, however stale the count *)
(* a worker writes back.                                                   *)
TypeOK ==
    /\ detached \subseteq Gateways
    /\ subs \in [Subs -> SubStates] /\ memSubs \in [Pods -> [Subs -> SubStates]]
    /\ deliveries \in [Deliveries -> Records \cup {None}]
    /\ event \in [Events -> {"idle", "list", "done"}]
    /\ single \in [Deliveries -> {"idle", "send", "ok", "error", "done"}]
    /\ worker \in [Pods -> Workers]
    /\ sends \in [Deliveries -> Nat]
    /\ accepted \subseteq Deliveries /\ spoiled \subseteq Deliveries
    /\ faults \in 0..MaxFaults

(* Without a fault, no notification of a pod with a database is lost: once *)
(* the goroutine that dispatched it has ended, one the endpoint has not    *)
(* processed still waits for a retry or was sent MaxAttempts times; and a  *)
(* record that says delivered is true, whichever pod it came from, also    *)
(* when two workers overwrite each other's marks.                          *)
NoSilentLoss ==
    \A d \in Deliveries :
        /\ deliveries[d] # None =>
             /\ deliveries[d].attempts <= sends[d]
             /\ deliveries[d].status = "delivered" => d \in accepted
        /\ (faults = 0 /\ single[d] = "done" /\ d \notin accepted /\ Home[Ev(d)] \notin detached) =>
             /\ deliveries[d] # None
             /\ deliveries[d].status = "retry_pending" \/ sends[d] >= MaxAttempts

(* ProcessPendingRetries keeps the limit only when it works alone: unless  *)
(* two workers held the record at once, or a fault came between a request  *)
(* and its mark, an endpoint gets one notification at most MaxAttempts     *)
(* times, and a record that no worker holds says how often it was sent; of *)
(* a notification without a record there was one request.                  *)
LimitKeptAlone ==
    \A d \in Deliveries :
        d \notin spoiled =>
            /\ sends[d] <= MaxAttempts
            /\ d \notin Held /\ single[d] = "done" =>
                 sends[d] = IF deliveries[d] = None THEN 1 ELSE deliveries[d].attempts

(* While some gateway has a database, every delivery comes to rest,        *)
(* although workers put back older attempt counts and set settled records  *)
(* to retry_pending again: the lowest count that a record or a worker      *)
(* holds only grows.                                                       *)
DeliveriesSettle ==
    <>[](Gateways \ detached # {}) =>
    \A d \in Deliveries :
        <>[](deliveries[d] # None => deliveries[d].status \in {"delivered", "failed"})

-----------------------------------------------------------------------------
(* Claims of the documentation that the code does not keep; no run expects *)
(* them to hold (README, section 4).                                       *)

(* dispatchSingle "handles immediate delivery and records status or        *)
(* schedules retry": no request ends without a record.                     *)
RecordedOrRetried ==
    \A d \in Deliveries : faults = 0 /\ single[d] = "done" => deliveries[d] # None
=============================================================================
