---------------------- MODULE WebhookDispatcher_proofs ----------------------
(***************************************************************************)
(* Proofs about WebhookDispatcher, for any number of pods, subscriptions   *)
(* and events, any batch limit and any limit of attempts.                  *)
(*                                                                         *)
(* NoSilentLoss and LimitKeptAlone speak of a record and its requests;     *)
(* neither survives a step by itself, because what a worker will write is  *)
(* decided by the batch it read earlier.  The inductive invariant          *)
(* therefore follows the stale counts: a worker's count never exceeds the  *)
(* requests sent (Claim), and for a delivery nobody has interfered with it *)
(* is the record's, held by one worker only (Alone).                       *)
(***************************************************************************)
EXTENDS WebhookDispatcher, TLAPS

(* A worker that holds nothing is idle, and one that is sending or marking *)
(* does so for a delivery of its batch.                                    *)
WorkerShape(p) ==
    /\ worker[p].pc = "idle" => \A d \in Deliveries : worker[p].batch[d] = 0
    /\ worker[p].pc \in {"send", "mark"} =>
         worker[p].cur \in Deliveries /\ worker[p].batch[worker[p].cur] > 0

(* What a worker read of d is true of the past: so many requests were      *)
(* sent, and one more once it has sent its own.                            *)
Claim(p, d) ==
    worker[p].batch[d] > 0 =>
      /\ deliveries[d] # None /\ worker[p].batch[d] <= sends[d]
      /\ worker[p].pc = "mark" /\ worker[p].cur = d =>
           worker[p].batch[d] + 1 <= sends[d] /\ (worker[p].ok => d \in accepted)

(* What a record says is true, and without a fault failed means that the   *)
(* attempts are used up.                                                   *)
RecordOK(d) ==
    deliveries[d] # None =>
      /\ single[d] = "done" /\ deliveries[d].attempts <= sends[d]
      /\ deliveries[d].status = "delivered" => d \in accepted
      /\ deliveries[d].status = "retry_pending" => deliveries[d].attempts < MaxAttempts
      /\ deliveries[d].status = "failed" /\ faults = 0 => deliveries[d].attempts >= MaxAttempts

(* The goroutine of dispatchSingle runs once, after its event is listed.   *)
SingleOK(d) ==
    /\ event[Ev(d)] # "done" => single[d] = "idle"
    /\ single[d] \in {"ok", "error"} => sends[d] >= 1
    /\ single[d] = "ok" => d \in accepted
    /\ single[d] = "done" /\ faults = 0 /\ Home[Ev(d)] \notin detached => deliveries[d] # None

(* The requests of an undisturbed delivery are counted exactly.            *)
Alone(d) ==
    d \notin spoiled =>
      /\ single[d] \in {"idle", "send"} => sends[d] = 0
      /\ single[d] \in {"ok", "error"} => sends[d] = 1
      /\ single[d] = "done" /\ deliveries[d] = None => sends[d] = 1
      /\ \A p \in Pods : worker[p].batch[d] > 0 =>
           /\ worker[p].batch[d] = deliveries[d].attempts /\ deliveries[d].status = "retry_pending"
           /\ sends[d] = worker[p].batch[d] + (IF worker[p].pc = "mark" /\ worker[p].cur = d THEN 1 ELSE 0)
           /\ \A q \in Pods : worker[q].batch[d] > 0 => q = p
      /\ (\A p \in Pods : worker[p].batch[d] = 0) /\ deliveries[d] # None =>
           sends[d] = deliveries[d].attempts

PerDelivery(d) == RecordOK(d) /\ SingleOK(d) /\ Alone(d) /\ \A p \in Pods : Claim(p, d)

WebhookInv ==
    /\ TypeOK
    /\ \A p \in Pods : WorkerShape(p)
    /\ \A d \in Deliveries : PerDelivery(d)

-----------------------------------------------------------------------------
(* The invariant without the types, unfolded for one delivery or one pod.  *)
LEMMA Unfolded ==
    ASSUME WebhookInv
    PROVE  /\ TypeOK
           /\ \A p \in Pods : WorkerShape(p) /\ worker[p] \in Workers
           /\ \A d \in Deliveries : RecordOK(d) /\ SingleOK(d) /\ Alone(d) /\ sends[d] \in Nat
           /\ \A p \in Pods, d \in Deliveries :
                Claim(p, d) /\ worker[p].batch[d] \in 0..(MaxAttempts - 1)
<1>1. TypeOK /\ worker \in [Pods -> Workers] /\ sends \in [Deliveries -> Nat]
  BY DEF WebhookInv, TypeOK
<1>2. \A p \in Pods, d \in Deliveries : worker[p].batch[d] \in 0..(MaxAttempts - 1)
  BY <1>1 DEF Workers
<1> QED BY <1>1, <1>2 DEF WebhookInv, PerDelivery

(* The record after attempt n.                                             *)
LEMMA OutcomeIs ==
    ASSUME WebhookConstants, NoneIsNoRecord, NEW n \in 1..MaxAttempts, NEW ok \in BOOLEAN
    PROVE  LET r == Outcome(n, ok) IN
           /\ r \in Records /\ r # None /\ r.attempts = n
           /\ r.status = "delivered" => ok
           /\ r.status = "retry_pending" => n < MaxAttempts
           /\ r.status = "failed" => n >= MaxAttempts
<1>1. MaxAttempts \in Nat \ {0}
  BY DEF WebhookConstants
<1>2. Outcome(n, ok) \in Records
  BY <1>1 DEF Outcome, Records
<1>3. Outcome(n, ok) # None
  BY <1>2 DEF NoneIsNoRecord
<1> QED BY <1>1, <1>2, <1>3 DEF Outcome

(* A step that changes neither records, workers, requests nor faults, and  *)
(* lets the goroutines of the events run as they must.                     *)
LEMMA QuietStep ==
    ASSUME WebhookInv,
           UNCHANGED <<detached, deliveries, single, worker, sends, accepted, spoiled, faults>>,
           subs' \in [Subs -> SubStates], memSubs' \in [Pods -> [Subs -> SubStates]],
           event' \in [Events -> {"idle", "list", "done"}],
           \A e \in Events : event'[e] # "done" => event[e] # "done",
           WebhookConstants
    PROVE  WebhookInv'
<1>1. TypeOK'
  BY DEF WebhookInv, TypeOK
<1>2. \A p \in Pods : WorkerShape(p)'
  BY DEF WebhookInv, WorkerShape
<1>3. ASSUME NEW d \in Deliveries PROVE PerDelivery(d)'
  <2>1. RecordOK(d) /\ SingleOK(d) /\ Alone(d) /\ \A p \in Pods : Claim(p, d)
    BY DEF WebhookInv, PerDelivery
  <2>2. Ev(d) \in Events
    BY DEF WebhookConstants, Deliveries, Ev
  <2>3. RecordOK(d)' /\ Alone(d)'
    BY <2>1 DEF RecordOK, Alone
  <2>4. SingleOK(d)'
    BY <2>1, <2>2 DEF SingleOK
  <2>5. \A p \in Pods : Claim(p, d)'
    BY <2>1 DEF Claim
  <2> QED BY <2>3, <2>4, <2>5 DEF PerDelivery
<1> QED BY <1>1, <1>2, <1>3 DEF WebhookInv

(* The subscription handlers and the start of a dispatch.                  *)
LEMMA QuietStepsKeepInv ==
    ASSUME WebhookConstants, WebhookInv,
           \/ \E p \in Gateways, s \in Subs : HandleWebhookSubscriptions(p, s)
           \/ \E e \in Events : MovementCompleted(e)
           \/ UNCHANGED vars
    PROVE  WebhookInv'
<1>0. /\ subs \in [Subs -> SubStates] /\ memSubs \in [Pods -> [Subs -> SubStates]]
      /\ event \in [Events -> {"idle", "list", "done"}]
  BY DEF WebhookInv, TypeOK
<1>1. ASSUME NEW p \in Gateways, NEW s \in Subs, HandleWebhookSubscriptions(p, s) PROVE WebhookInv'
  <2>1. PICK state \in SubStates : StoreSubscription(p, s, state)
    BY <1>1 DEF HandleWebhookSubscriptions, RegisterSubscription, DeleteSubscription, SubStates
  <2>2. p \in Pods
    BY DEF WebhookConstants
  <2>3. subs' \in [Subs -> SubStates] /\ memSubs' \in [Pods -> [Subs -> SubStates]]
    BY <1>0, <2>1, <2>2 DEF StoreSubscription
  <2>4. UNCHANGED <<detached, deliveries, single, event, worker, sends, accepted, spoiled, faults>>
    BY <1>1 DEF HandleWebhookSubscriptions, RegisterSubscription, DeleteSubscription,
       dispatchVars, endpointVars
  <2> QED BY <1>0, <2>3, <2>4, QuietStep
<1>2. CASE \E e \in Events : MovementCompleted(e)
  BY <1>0, <1>2, QuietStep DEF MovementCompleted, endpointVars, subVars
<1>3. CASE UNCHANGED vars
  BY <1>0, <1>3, QuietStep DEF vars, subVars, dispatchVars, endpointVars
<1> QED BY <1>1, <1>2, <1>3

(* The fault counter: a fault is never forgotten.                          *)
LEMMA FaultCount ==
    ASSUME WebhookConstants, WebhookInv, Fail \/ Ok
    PROVE  faults' \in 0..MaxFaults /\ (faults' = 0 => faults = 0) /\ (Fail => faults' # 0)
BY DEF WebhookConstants, WebhookInv, TypeOK, Fail, Ok

(* The delivery a goroutine serves belongs to its event.                   *)
LEMMA EvType ==
    ASSUME WebhookConstants, NEW d \in Deliveries
    PROVE  Ev(d) \in Events /\ Sub(d) \in Subs /\ Home[Ev(d)] \in Pods
BY DEF WebhookConstants, Deliveries, Ev, Sub

(* A dispatch starts its goroutines, or gives up.                          *)
LEMMA DispatchKeepsInv ==
    ASSUME WebhookConstants, WebhookInv, NEW e \in Events, Dispatch(e)
    PROVE  WebhookInv'
<1> DEFINE targets == {d \in Deliveries : Ev(d) = e /\ Sub(d) \in ListSubscriptions(Home[e])}
<1>0. TypeOK
  BY DEF WebhookInv
<1>1. /\ event[e] = "list" /\ event' = [event EXCEPT ![e] = "done"]
      /\ UNCHANGED <<detached, subs, memSubs, deliveries, worker, sends, accepted>>
      /\ \/ /\ Ok /\ spoiled' = spoiled
            /\ single' = [d \in Deliveries |-> IF d \in targets THEN "send" ELSE single[d]]
         \/ Fail /\ single' = single /\ spoiled' = spoiled \cup targets
  BY DEF Dispatch, endpointVars, subVars
<1>2. faults' \in 0..MaxFaults /\ (faults' = 0 => faults = 0) /\ (Fail => faults' # 0)
  BY <1>1, FaultCount
<1>3. /\ event' \in [Events -> {"idle", "list", "done"}] /\ event'[e] = "done"
      /\ \A x \in Events : x # e => event'[x] = event[x]
      /\ single' \in [Deliveries -> {"idle", "send", "ok", "error", "done"}]
      /\ spoiled' \subseteq Deliveries /\ spoiled \subseteq spoiled'
      /\ \A d \in Deliveries : single'[d] = single[d] \/ (Ev(d) = e /\ single'[d] = "send")
  BY <1>0, <1>1 DEF TypeOK
<1>4. TypeOK'
  BY <1>0, <1>1, <1>2, <1>3 DEF TypeOK
<1>5. \A p \in Pods : WorkerShape(p)'
  BY <1>1 DEF WebhookInv, WorkerShape
<1>6. ASSUME NEW d \in Deliveries PROVE PerDelivery(d)'
  <2>1. RecordOK(d) /\ SingleOK(d) /\ Alone(d) /\ (\A p \in Pods : Claim(p, d)) /\ Ev(d) \in Events
    BY EvType DEF WebhookInv, PerDelivery
  <2>2. single'[d] = single[d] \/ (single[d] = "idle" /\ single'[d] = "send")
    BY <1>1, <1>3, <2>1 DEF SingleOK
  <2>3. RecordOK(d)'
    BY <1>1, <1>2, <2>1, <2>2 DEF RecordOK
  <2>4. event'[Ev(d)] # "done" => single'[d] = "idle"
    BY <1>3, <2>1 DEF SingleOK
  <2>5. SingleOK(d)'
    BY <1>1, <1>2, <2>1, <2>2, <2>4 DEF SingleOK
  <2>6. Alone(d)'
    BY <1>1, <1>3, <2>1, <2>2 DEF Alone
  <2>7. \A p \in Pods : Claim(p, d)'
    BY <1>1, <2>1 DEF Claim
  <2> QED BY <2>3, <2>5, <2>6, <2>7 DEF PerDelivery
<1> QED BY <1>4, <1>5, <1>6 DEF WebhookInv

(* The first request of a delivery.                                        *)
LEMMA DispatchSingleKeepsInv ==
    ASSUME WebhookConstants, WebhookInv, NEW d \in Deliveries, DispatchSingle(d)
    PROVE  WebhookInv'
<1>0. TypeOK
  BY DEF WebhookInv
<1>1. PICK ok \in BOOLEAN : SendHTTP(d, ok) /\ single' = [single EXCEPT ![d] = IF ok THEN "ok" ELSE "error"]
  BY DEF DispatchSingle
<1>2. single[d] = "send" /\ UNCHANGED <<detached, subs, memSubs, deliveries, event, worker, spoiled, faults>>
  BY DEF DispatchSingle, subVars
<1>3. /\ sends' \in [Deliveries -> Nat] /\ sends'[d] = sends[d] + 1 /\ sends[d] \in Nat
      /\ \A x \in Deliveries : x # d => sends'[x] = sends[x]
      /\ accepted' \subseteq Deliveries /\ accepted \subseteq accepted' /\ (ok => d \in accepted')
  BY <1>0, <1>1 DEF TypeOK, SendHTTP
<1>4. /\ single' \in [Deliveries -> {"idle", "send", "ok", "error", "done"}]
      /\ single'[d] = IF ok THEN "ok" ELSE "error"
      /\ \A x \in Deliveries : x # d => single'[x] = single[x]
  BY <1>0, <1>1 DEF TypeOK
<1>5. TypeOK'
  BY <1>0, <1>2, <1>3, <1>4 DEF TypeOK
<1>6. \A p \in Pods : WorkerShape(p)'
  BY <1>2 DEF WebhookInv, WorkerShape
<1>7. deliveries[d] = None /\ \A p \in Pods : worker[p].batch[d] = 0
  <2>1. deliveries[d] = None
    BY <1>2 DEF WebhookInv, PerDelivery, RecordOK
  <2>2. ASSUME NEW p \in Pods PROVE worker[p].batch[d] = 0
    <3>1. Claim(p, d) /\ worker[p].batch[d] \in 0..(MaxAttempts - 1)
      BY Unfolded
    <3> QED BY <2>1, <3>1 DEF Claim, WebhookConstants
  <2> QED BY <2>1, <2>2
<1>8. ASSUME NEW x \in Deliveries PROVE PerDelivery(x)'
  <2>1. RecordOK(x) /\ SingleOK(x) /\ Alone(x) /\ (\A p \in Pods : Claim(p, x)) /\ Ev(x) \in Events
    BY EvType DEF WebhookInv, PerDelivery
  <2>2. CASE x = d
    <3>1. RecordOK(x)' /\ \A p \in Pods : Claim(p, x)'
      BY <1>2, <1>7, <2>2 DEF RecordOK, Claim
    <3>2. event[Ev(x)] = "done"
      BY <1>2, <2>1, <2>2 DEF SingleOK
    <3>3. SingleOK(x)'
      BY <1>2, <1>3, <1>4, <2>2, <3>2 DEF SingleOK
    <3>4. Alone(x)'
      BY <1>2, <1>3, <1>4, <1>7, <2>1, <2>2 DEF Alone
    <3> QED BY <3>1, <3>3, <3>4 DEF PerDelivery
  <2>3. CASE x # d
    <3>1. sends'[x] = sends[x] /\ single'[x] = single[x]
      BY <1>3, <1>4, <2>3
    <3>2. RecordOK(x)'
      BY <1>2, <1>3, <2>1, <3>1 DEF RecordOK
    <3>3. SingleOK(x)'
      BY <1>2, <1>3, <2>1, <3>1 DEF SingleOK
    <3>4. Alone(x)'
      BY <1>2, <2>1, <3>1 DEF Alone
    <3>5. \A p \in Pods : Claim(p, x)'
      BY <1>2, <1>3, <2>1, <3>1 DEF Claim
    <3> QED BY <3>2, <3>3, <3>4, <3>5 DEF PerDelivery
  <2> QED BY <2>2, <2>3
<1> QED BY <1>5, <1>6, <1>8 DEF WebhookInv

(* A step that does not concern delivery x.                                *)
Unconcerned(x) ==
    /\ deliveries'[x] = deliveries[x] /\ single'[x] = single[x] /\ sends'[x] = sends[x]
    /\ event'[Ev(x)] = event[Ev(x)] /\ detached' = detached
    /\ \A p \in Pods :
         /\ worker'[p].batch[x] = worker[p].batch[x]
         /\ worker'[p].pc = "mark" /\ worker'[p].cur = x <=> worker[p].pc = "mark" /\ worker[p].cur = x
         /\ worker[p].pc = "mark" /\ worker[p].cur = x => worker'[p].ok = worker[p].ok

(* Such a step keeps all of it.                                            *)
LEMMA UnconcernedKeeps ==
    ASSUME WebhookInv, NEW x \in Deliveries, Unconcerned(x),
           accepted \subseteq accepted', spoiled \subseteq spoiled', faults' = 0 => faults = 0
    PROVE  PerDelivery(x)'
<1>1. RecordOK(x) /\ SingleOK(x) /\ Alone(x) /\ \A p \in Pods : Claim(p, x)
  BY DEF WebhookInv, PerDelivery
<1>2. RecordOK(x)'
  BY <1>1 DEF RecordOK, Unconcerned
<1>3. SingleOK(x)'
  BY <1>1 DEF SingleOK, Unconcerned
<1>4. Alone(x)'
  BY <1>1 DEF Alone, Unconcerned
<1>5. ASSUME NEW p \in Pods PROVE Claim(p, x)'
  BY <1>1 DEF Claim, Unconcerned
<1> QED BY <1>2, <1>3, <1>4, <1>5 DEF PerDelivery

(* The record of the first request is inserted, or its insertion fails.    *)
LEMMA InsertKeepsInv ==
    ASSUME WebhookConstants, NoneIsNoRecord, WebhookInv, NEW d \in Deliveries, InsertDelivery(d)
    PROVE  WebhookInv'
<1>0. TypeOK /\ MaxAttempts \in Nat \ {0}
  BY DEF WebhookInv, WebhookConstants
<1> DEFINE r == Outcome(1, single[d] = "ok")
<1>1. /\ single[d] \in {"ok", "error"} /\ single' = [single EXCEPT ![d] = "done"]
      /\ UNCHANGED <<detached, subs, memSubs, event, worker, sends, accepted>>
      /\ \/ Home[Ev(d)] \in detached /\ Ok /\ spoiled' = spoiled /\ deliveries' = deliveries
         \/ Ok /\ spoiled' = spoiled /\ deliveries' = [deliveries EXCEPT ![d] = r]
         \/ Fail /\ spoiled' = spoiled \cup {d} /\ deliveries' = deliveries
  BY DEF InsertDelivery, endpointVars, subVars
<1>2. faults' \in 0..MaxFaults /\ (faults' = 0 => faults = 0) /\ (Fail => faults' # 0)
  BY <1>1, FaultCount
<1>3. /\ r \in Records /\ r # None /\ r.attempts = 1
      /\ r.status = "delivered" => single[d] = "ok"
      /\ r.status = "retry_pending" => 1 < MaxAttempts
      /\ r.status = "failed" => 1 >= MaxAttempts
  <2> DEFINE ok == (single[d] = "ok")
  <2>1. ok \in BOOLEAN /\ 1 \in 1..MaxAttempts
    BY <1>0
  <2>2. r = Outcome(1, ok)
    OBVIOUS
  <2> HIDE DEF ok, r
  <2>3. /\ Outcome(1, ok) \in Records /\ Outcome(1, ok) # None /\ Outcome(1, ok).attempts = 1
        /\ Outcome(1, ok).status = "delivered" => ok
        /\ Outcome(1, ok).status = "retry_pending" => 1 < MaxAttempts
        /\ Outcome(1, ok).status = "failed" => 1 >= MaxAttempts
    BY <2>1, OutcomeIs
  <2> QED BY <2>2, <2>3 DEF ok
<1> HIDE DEF r
<1>4. /\ single' \in [Deliveries -> {"idle", "send", "ok", "error", "done"}] /\ single'[d] = "done"
      /\ \A x \in Deliveries : x # d => single'[x] = single[x]
      /\ deliveries' \in [Deliveries -> Records \cup {None}]
      /\ \A x \in Deliveries : x # d => deliveries'[x] = deliveries[x]
      /\ \/ Home[Ev(d)] \in detached /\ spoiled' = spoiled /\ deliveries'[d] = deliveries[d]
         \/ Ok /\ spoiled' = spoiled /\ deliveries'[d] = r
         \/ Fail /\ spoiled' = spoiled \cup {d} /\ deliveries'[d] = deliveries[d]
      /\ spoiled \subseteq spoiled' /\ spoiled' \subseteq Deliveries
  BY <1>0, <1>1, <1>3 DEF TypeOK
<1>5. TypeOK'
  BY <1>0, <1>1, <1>2, <1>4 DEF TypeOK
<1>6. \A p \in Pods : WorkerShape(p)'
  BY <1>1 DEF WebhookInv, WorkerShape
<1>7. /\ RecordOK(d) /\ SingleOK(d) /\ Alone(d) /\ sends[d] \in Nat
      /\ \A p \in Pods : Claim(p, d) /\ worker[p].batch[d] \in 0..(MaxAttempts - 1)
  BY Unfolded
<1>8. deliveries[d] = None
  BY <1>1, <1>7 DEF RecordOK
<1>9. \A p \in Pods : worker[p].batch[d] = 0
  BY <1>0, <1>7, <1>8 DEF Claim
<1>10. PerDelivery(d)'
  <2>1. \A p \in Pods : Claim(p, d)'
    BY <1>1, <1>9 DEF Claim
  <2>2. RecordOK(d)'
    BY <1>0, <1>1, <1>3, <1>4, <1>7, <1>8 DEF RecordOK, SingleOK
  <2>3. SingleOK(d)'
    BY <1>1, <1>2, <1>3, <1>4, <1>7 DEF SingleOK
  <2>4. Alone(d)'
    <3> SUFFICES ASSUME d \notin spoiled' PROVE sends[d] = 1 /\ deliveries'[d] \in {r, None}
      BY <1>1, <1>3, <1>4, <1>9 DEF Alone
    <3> QED BY <1>1, <1>4, <1>7, <1>8 DEF Alone
  <2> QED BY <2>1, <2>2, <2>3, <2>4 DEF PerDelivery
<1>11. ASSUME NEW x \in Deliveries, x # d PROVE PerDelivery(x)'
  <2>1. Unconcerned(x)
    BY <1>1, <1>4, <1>11 DEF Unconcerned
  <2> QED BY <1>1, <1>2, <1>4, <2>1, UnconcernedKeeps
<1> QED BY <1>5, <1>6, <1>10, <1>11 DEF WebhookInv

(* The backoff of a record elapses.                                        *)
LEMMA BackoffKeepsInv ==
    ASSUME WebhookConstants, NoneIsNoRecord, WebhookInv, NEW d \in Deliveries, BackoffElapses(d)
    PROVE  WebhookInv'
<1>0. TypeOK
  BY DEF WebhookInv
<1>1. /\ deliveries[d] # None /\ deliveries' = [deliveries EXCEPT ![d] = [@ EXCEPT !.due = TRUE]]
      /\ UNCHANGED <<detached, subs, memSubs, event, single, worker, sends, accepted, spoiled, faults>>
  BY DEF BackoffElapses, dispatchVars, endpointVars, subVars
<1>2. deliveries \in [Deliveries -> Records \cup {None}] /\ deliveries[d] \in Records
  BY <1>0, <1>1 DEF TypeOK
<1> DEFINE r == [deliveries[d] EXCEPT !.due = TRUE]
<1>3. r \in Records /\ r.status = deliveries[d].status /\ r.attempts = deliveries[d].attempts
  BY <1>2 DEF Records
<1>4. deliveries' = [deliveries EXCEPT ![d] = r]
  BY <1>1, <1>2
<1>5. r # None
  BY <1>3 DEF NoneIsNoRecord
<1> HIDE DEF r
<1>6. /\ deliveries' \in [Deliveries -> Records \cup {None}] /\ deliveries'[d] = r
      /\ \A x \in Deliveries : x # d => deliveries'[x] = deliveries[x]
  BY <1>2, <1>3, <1>4
<1>7. TypeOK'
  BY <1>0, <1>1, <1>6 DEF TypeOK
<1>8. \A p \in Pods : WorkerShape(p)'
  BY <1>1 DEF WebhookInv, WorkerShape
<1>9. PerDelivery(d)'
  <2>1. RecordOK(d) /\ SingleOK(d) /\ Alone(d) /\ (\A p \in Pods : Claim(p, d))
    BY DEF WebhookInv, PerDelivery
  <2>2. RecordOK(d)'
    BY <1>1, <1>3, <1>6, <2>1 DEF RecordOK
  <2>3. SingleOK(d)'
    BY <1>1, <1>5, <1>6, <2>1 DEF SingleOK
  <2>4. Alone(d)'
    BY <1>1, <1>3, <1>5, <1>6, <2>1 DEF Alone
  <2>5. \A p \in Pods : Claim(p, d)'
    BY <1>1, <1>5, <1>6, <2>1 DEF Claim
  <2> QED BY <2>2, <2>3, <2>4, <2>5 DEF PerDelivery
<1>10. ASSUME NEW x \in Deliveries, x # d PROVE PerDelivery(x)'
  <2>1. Unconcerned(x)
    BY <1>1, <1>6, <1>10 DEF Unconcerned
  <2> QED BY <1>1, <2>1, UnconcernedKeeps
<1> QED BY <1>7, <1>8, <1>9, <1>10 DEF WebhookInv

-----------------------------------------------------------------------------
(* A worker takes a batch of due records.                                  *)
LEMMA FetchKeepsInv ==
    ASSUME WebhookConstants, WebhookInv, NEW p \in Pods, FetchDue(p)
    PROVE  WebhookInv'
<1>0. TypeOK /\ MaxAttempts \in Nat \ {0}
  BY DEF WebhookInv, WebhookConstants
<1>1. PICK b \in SUBSET Due :
        /\ worker' = [worker EXCEPT ![p] = [@ EXCEPT !.pc = "pick", !.batch = Counts(b)]]
        /\ spoiled' = spoiled \cup (b \cap Held)
  BY DEF FetchDue
<1>2. worker[p].pc = "idle" /\ UNCHANGED <<detached, subs, memSubs, deliveries, event, single, sends, accepted, faults>>
  BY DEF FetchDue, dispatchVars, endpointVars, subVars
<1>3. worker \in [Pods -> Workers] /\ deliveries \in [Deliveries -> Records \cup {None}]
  BY <1>0 DEF TypeOK
<1>4. \A d \in b : /\ d \in Deliveries /\ deliveries[d] # None /\ deliveries[d] \in Records
                   /\ deliveries[d].status = "retry_pending"
  BY <1>3 DEF Due
<1>5. \A d \in b : deliveries[d].attempts \in 1..(MaxAttempts - 1) /\ deliveries[d].attempts <= sends[d]
  <2> SUFFICES ASSUME NEW d \in b
               PROVE  deliveries[d].attempts \in 1..(MaxAttempts - 1) /\ deliveries[d].attempts <= sends[d]
    OBVIOUS
  <2>1. RecordOK(d) /\ deliveries[d].attempts \in 1..MaxAttempts
    BY <1>4, Unfolded DEF Records
  <2> QED BY <1>0, <1>4, <2>1 DEF RecordOK
<1>6. /\ Counts(b) \in [Deliveries -> 0..(MaxAttempts - 1)]
      /\ \A d \in Deliveries : Counts(b)[d] = IF d \in b THEN deliveries[d].attempts ELSE 0
  BY <1>0, <1>5 DEF Counts
<1> DEFINE w == [worker[p] EXCEPT !.pc = "pick", !.batch = Counts(b)]
<1>7. w \in Workers /\ w.pc = "pick" /\ w.batch = Counts(b)
  BY <1>3, <1>6 DEF Workers
<1>8. worker' = [worker EXCEPT ![p] = w]
  BY <1>1, <1>3
<1> HIDE DEF w
<1>9. /\ worker' \in [Pods -> Workers] /\ worker'[p] = w
      /\ \A q \in Pods : q # p => worker'[q] = worker[q]
  BY <1>3, <1>7, <1>8
<1>10. spoiled' \subseteq Deliveries /\ spoiled \subseteq spoiled'
  BY <1>0, <1>1, <1>4 DEF TypeOK
<1>11. TypeOK'
  BY <1>0, <1>2, <1>9, <1>10 DEF TypeOK
<1>12. \A q \in Pods : WorkerShape(q)'
  BY <1>7, <1>9 DEF WebhookInv, WorkerShape
<1>13. \A d \in Deliveries : worker[p].batch[d] = 0
  BY <1>2 DEF WebhookInv, WorkerShape
<1>14. ASSUME NEW d \in Deliveries PROVE PerDelivery(d)'
  <2>0. worker'[p].batch[d] = (IF d \in b THEN deliveries[d].attempts ELSE 0) /\ worker'[p].pc = "pick"
    BY <1>6, <1>7, <1>9
  <2>1. CASE d \notin b
    <3>1. Unconcerned(d)
      BY <1>2, <1>9, <1>13, <2>0, <2>1 DEF Unconcerned
    <3> QED BY <1>2, <1>10, <3>1, UnconcernedKeeps
  <2>2. CASE d \in b
    <3>1. RecordOK(d) /\ SingleOK(d) /\ Alone(d) /\ (\A q \in Pods : Claim(q, d)) /\ sends[d] \in Nat
      BY Unfolded
    <3>2. RecordOK(d)' /\ SingleOK(d)'
      BY <1>2, <3>1 DEF RecordOK, SingleOK
    <3>3. worker'[p].batch[d] = deliveries[d].attempts /\ worker'[p].pc = "pick"
          /\ deliveries[d].attempts <= sends[d] /\ deliveries[d] # None
      BY <1>4, <1>5, <2>0, <2>2
    <3>4. ASSUME NEW q \in Pods PROVE Claim(q, d)'
      BY <1>2, <1>9, <3>1, <3>3 DEF Claim
    <3>5. Alone(d)'
      <4> SUFFICES ASSUME d \notin spoiled' PROVE Alone(d)'
        BY DEF Alone
      <4>1. d \notin spoiled /\ d \notin Held
        BY <1>1, <2>2
      <4>2. \A q \in Pods : ~(worker[q].batch[d] > 0)
        BY <4>1 DEF Held, InBatch
      <4>3. \A q \in Pods : worker[q].batch[d] = 0
        BY <1>0, <4>2, Unfolded
      <4>4. sends[d] = deliveries[d].attempts
        BY <3>1, <3>3, <4>1, <4>3 DEF Alone
      <4>5. \A q \in Pods : worker'[q].batch[d] > 0 => q = p
        BY <1>9, <4>2
      <4>6. deliveries[d].attempts > 0 /\ deliveries[d].attempts \in Nat /\ deliveries[d].status = "retry_pending"
        BY <1>0, <1>4, <1>5, <2>2
      <4>7. ~(\A q \in Pods : worker'[q].batch[d] = 0)
        BY <3>3, <4>6
      <4>8. /\ single[d] \in {"idle", "send"} => sends[d] = 0
            /\ single[d] \in {"ok", "error"} => sends[d] = 1
            /\ single[d] = "done" /\ deliveries[d] = None => sends[d] = 1
        BY <3>1, <4>1 DEF Alone
      <4>9. \A q \in Pods : worker'[q].batch[d] > 0 =>
              /\ worker'[q].batch[d] = deliveries[d].attempts
              /\ sends[d] = worker'[q].batch[d]
                             + (IF worker'[q].pc = "mark" /\ worker'[q].cur = d THEN 1 ELSE 0)
              /\ \A q2 \in Pods : worker'[q2].batch[d] > 0 => q2 = q
        BY <3>3, <4>4, <4>5, <4>6
      <4> QED BY <1>2, <4>6, <4>7, <4>8, <4>9 DEF Alone
    <3> QED BY <3>2, <3>4, <3>5 DEF PerDelivery
  <2> QED BY <2>1, <2>2
<1> QED BY <1>11, <1>12, <1>14 DEF WebhookInv

(* What Advance leaves of a worker.                                        *)
LEMMA AdvanceIs ==
    ASSUME WebhookConstants, WebhookInv, NEW p \in Pods, NEW d \in Deliveries, d \in InBatch(p)
    PROVE  LET w == Advance(p, d) IN
           /\ w \in Workers /\ w.pc \in {"idle", "pick"} /\ w.batch[d] = 0
           /\ \A x \in Deliveries : x # d => w.batch[x] = worker[p].batch[x]
           /\ w.pc = "idle" => \A x \in Deliveries : w.batch[x] = 0
<1>0. worker[p] \in Workers /\ MaxAttempts \in Nat \ {0}
  BY DEF WebhookInv, TypeOK, WebhookConstants
<1> DEFINE bt == [worker[p].batch EXCEPT ![d] = 0]
           l == IF InBatch(p) = {d} THEN "idle" ELSE "pick"
<1>1. worker[p].batch \in [Deliveries -> 0..(MaxAttempts - 1)]
  BY <1>0 DEF Workers
<1>2. /\ bt \in [Deliveries -> 0..(MaxAttempts - 1)] /\ bt[d] = 0
      /\ \A x \in Deliveries : x # d => bt[x] = worker[p].batch[x]
  BY <1>0, <1>1
<1>3. l = "idle" => \A x \in Deliveries : bt[x] = 0
  <2> SUFFICES ASSUME InBatch(p) = {d}, NEW x \in Deliveries, x # d PROVE bt[x] = 0
    BY <1>2
  <2>1. ~(worker[p].batch[x] > 0)
    BY DEF InBatch
  <2> QED BY <1>0, <1>1, <1>2, <2>1
<1>4. Advance(p, d) = [worker[p] EXCEPT !.pc = l, !.batch = bt, !.cur = None, !.ok = FALSE]
  BY <1>0 DEF Advance, Workers
<1> HIDE DEF bt
<1>5. LET w == [worker[p] EXCEPT !.pc = l, !.batch = bt, !.cur = None, !.ok = FALSE] IN
      w \in Workers /\ w.pc = l /\ w.batch = bt
  BY <1>0, <1>2 DEF Workers
<1> QED BY <1>2, <1>3, <1>4, <1>5

(* A worker looks up the subscription of a record in its batch; an error   *)
(* fails the delivery.                                                     *)
LEMMA FindKeepsInv ==
    ASSUME WebhookConstants, NoneIsNoRecord, WebhookInv, NEW p \in Pods, NEW d \in Deliveries,
           FindSubscription(p, d)
    PROVE  WebhookInv'
<1>0. TypeOK /\ MaxAttempts \in Nat \ {0}
  BY DEF WebhookInv, WebhookConstants
<1>1. /\ worker[p].pc = "pick" /\ d \in InBatch(p) /\ UNCHANGED <<detached, subs, memSubs, event, single, sends, accepted>>
      /\ \/ /\ Ok /\ worker' = [worker EXCEPT ![p] = [@ EXCEPT !.pc = "send", !.cur = d]]
            /\ deliveries' = deliveries /\ spoiled' = spoiled
         \/ /\ Fail
            /\ deliveries' \in {deliveries, [deliveries EXCEPT ![d] = [@ EXCEPT !.status = "failed"]]}
            /\ worker' = [worker EXCEPT ![p] = Advance(p, d)] /\ spoiled' = spoiled \cup {d}
  BY DEF FindSubscription, dispatchVars, endpointVars, subVars
<1>2. faults' \in 0..MaxFaults /\ (faults' = 0 => faults = 0) /\ (Fail => faults' # 0)
  BY <1>1, FaultCount
<1>3. worker \in [Pods -> Workers] /\ deliveries \in [Deliveries -> Records \cup {None}]
      /\ worker[p].batch[d] > 0
  BY <1>0, <1>1 DEF TypeOK, InBatch
<1>4. CASE deliveries' = deliveries /\ spoiled' = spoiled
           /\ worker' = [worker EXCEPT ![p] = [@ EXCEPT !.pc = "send", !.cur = d]]
  <2> DEFINE w == [worker[p] EXCEPT !.pc = "send", !.cur = d]
  <2>1. w \in Workers /\ w.pc = "send" /\ w.cur = d /\ w.batch = worker[p].batch
    BY <1>3 DEF Workers
  <2>2. worker' = [worker EXCEPT ![p] = w]
    BY <1>3, <1>4
  <2> HIDE DEF w
  <2>3. worker' \in [Pods -> Workers] /\ worker'[p] = w /\ \A q \in Pods : q # p => worker'[q] = worker[q]
    BY <1>3, <2>1, <2>2
  <2>4. TypeOK'
    BY <1>0, <1>1, <1>2, <1>4, <2>3 DEF TypeOK
  <2>5. \A q \in Pods : WorkerShape(q)'
    BY <1>3, <2>1, <2>3 DEF WebhookInv, WorkerShape
  <2>6. ASSUME NEW x \in Deliveries PROVE PerDelivery(x)'
    <3>1. Unconcerned(x)
      BY <1>1, <1>4, <2>1, <2>3 DEF Unconcerned
    <3> QED BY <1>1, <1>2, <1>4, <3>1, UnconcernedKeeps
  <2> QED BY <2>4, <2>5, <2>6 DEF WebhookInv
<1>5. CASE /\ Fail
           /\ deliveries' \in {deliveries, [deliveries EXCEPT ![d] = [@ EXCEPT !.status = "failed"]]}
           /\ worker' = [worker EXCEPT ![p] = Advance(p, d)] /\ spoiled' = spoiled \cup {d}
  <2> DEFINE w == Advance(p, d)
             f == [deliveries[d] EXCEPT !.status = "failed"]
  <2>1. /\ w \in Workers /\ w.pc \in {"idle", "pick"} /\ w.batch[d] = 0
        /\ \A x \in Deliveries : x # d => w.batch[x] = worker[p].batch[x]
        /\ w.pc = "idle" => \A x \in Deliveries : w.batch[x] = 0
    BY <1>1, AdvanceIs
  <2>2. /\ RecordOK(d) /\ SingleOK(d) /\ Alone(d) /\ sends[d] \in Nat
        /\ \A q \in Pods : Claim(q, d)
    BY Unfolded
  <2>3. deliveries[d] # None /\ deliveries[d] \in Records
    BY <1>3, <2>2 DEF Claim
  <2>f. f \in Records /\ f.status = "failed" /\ f.attempts = deliveries[d].attempts
    BY <2>3 DEF Records
  <2>g. deliveries' \in {deliveries, [deliveries EXCEPT ![d] = f]} /\ worker' = [worker EXCEPT ![p] = w]
    BY <1>3, <1>5
  <2> HIDE DEF f
  <2>4. PICK r \in Records : /\ r.status = "failed" \/ r = deliveries[d]
                            /\ r.attempts = deliveries[d].attempts
                            /\ deliveries' = [deliveries EXCEPT ![d] = r]
    <3>1. CASE deliveries' = deliveries
      <4>1. deliveries' = [deliveries EXCEPT ![d] = deliveries[d]]
        BY <1>3, <3>1
      <4> QED BY <2>3, <4>1
    <3>2. CASE deliveries' = [deliveries EXCEPT ![d] = f]
      BY <2>f, <3>2
    <3> QED BY <2>g, <3>1, <3>2
  <2>5. r # None
    BY <2>4 DEF NoneIsNoRecord
  <2>6. worker' = [worker EXCEPT ![p] = w]
    BY <2>g
  <2> HIDE DEF w
  <2>7. /\ deliveries' \in [Deliveries -> Records \cup {None}] /\ deliveries'[d] = r
        /\ \A x \in Deliveries : x # d => deliveries'[x] = deliveries[x]
        /\ worker' \in [Pods -> Workers] /\ worker'[p] = w
        /\ \A q \in Pods : q # p => worker'[q] = worker[q]
    BY <1>3, <2>1, <2>4, <2>6
  <2>8. spoiled' \subseteq Deliveries /\ spoiled \subseteq spoiled' /\ d \in spoiled'
    BY <1>0, <1>5 DEF TypeOK
  <2>9. TypeOK'
    BY <1>0, <1>1, <1>2, <2>7, <2>8 DEF TypeOK
  <2>10. \A q \in Pods : WorkerShape(q)'
    BY <2>1, <2>7 DEF WebhookInv, WorkerShape
  <2>11. PerDelivery(d)'
    <3>1. RecordOK(d)'
      BY <1>1, <1>2, <1>5, <2>2, <2>3, <2>4, <2>7 DEF RecordOK
    <3>2. SingleOK(d)'
      BY <1>1, <1>2, <2>2, <2>5, <2>7 DEF SingleOK
    <3>3. Alone(d)'
      BY <2>8 DEF Alone
    <3>4. ASSUME NEW q \in Pods PROVE Claim(q, d)'
      BY <1>1, <2>1, <2>2, <2>5, <2>7 DEF Claim
    <3> QED BY <3>1, <3>2, <3>3, <3>4 DEF PerDelivery
  <2>12. ASSUME NEW x \in Deliveries, x # d PROVE PerDelivery(x)'
    <3>1. Unconcerned(x)
      BY <1>1, <2>1, <2>7, <2>12 DEF Unconcerned
    <3> QED BY <1>1, <1>2, <2>8, <3>1, UnconcernedKeeps
  <2> QED BY <2>9, <2>10, <2>11, <2>12 DEF WebhookInv
<1> QED BY <1>1, <1>4, <1>5

(* A worker sends the request of the record it has picked.                 *)
LEMMA RetrySendKeepsInv ==
    ASSUME WebhookConstants, WebhookInv, NEW p \in Pods, RetrySend(p)
    PROVE  WebhookInv'
<1>0. TypeOK /\ MaxAttempts \in Nat \ {0} /\ WorkerShape(p)
  BY DEF WebhookInv, WebhookConstants
<1>cur. PICK d \in Deliveries : d = worker[p].cur
  BY <1>0 DEF WorkerShape, RetrySend
<1>1. PICK ok \in BOOLEAN : /\ SendHTTP(d, ok)
                            /\ worker' = [worker EXCEPT ![p] = [@ EXCEPT !.pc = "mark", !.ok = ok]]
  BY <1>cur DEF RetrySend
<1>2. worker[p].pc = "send" /\ UNCHANGED <<detached, subs, memSubs, deliveries, event, single, spoiled, faults>>
  BY DEF RetrySend, dispatchVars, subVars
<1>3. d \in Deliveries /\ worker[p].batch[d] > 0 /\ worker \in [Pods -> Workers]
  BY <1>0, <1>2, <1>cur DEF WorkerShape, TypeOK
<1>4. /\ sends' \in [Deliveries -> Nat] /\ sends'[d] = sends[d] + 1 /\ sends[d] \in Nat
      /\ \A x \in Deliveries : x # d => sends'[x] = sends[x]
      /\ accepted' \subseteq Deliveries /\ accepted \subseteq accepted' /\ (ok => d \in accepted')
  BY <1>0, <1>1, <1>3 DEF TypeOK, SendHTTP
<1> DEFINE w == [worker[p] EXCEPT !.pc = "mark", !.ok = ok]
<1>5. w \in Workers /\ w.pc = "mark" /\ w.ok = ok /\ w.cur = d /\ w.batch = worker[p].batch
  BY <1>3, <1>cur DEF Workers
<1>6. worker' = [worker EXCEPT ![p] = w]
  BY <1>1, <1>3
<1> HIDE DEF w
<1>7. worker' \in [Pods -> Workers] /\ worker'[p] = w /\ \A q \in Pods : q # p => worker'[q] = worker[q]
  BY <1>3, <1>5, <1>6
<1>8. TypeOK'
  BY <1>0, <1>2, <1>4, <1>7 DEF TypeOK
<1>9. \A q \in Pods : WorkerShape(q)'
  BY <1>3, <1>5, <1>7 DEF WebhookInv, WorkerShape
<1>10. /\ RecordOK(d) /\ SingleOK(d) /\ Alone(d)
       /\ \A q \in Pods : Claim(q, d) /\ worker[q].batch[d] \in 0..(MaxAttempts - 1)
  BY <1>3, Unfolded
<1>11. PerDelivery(d)'
  <2>1. deliveries[d] # None /\ single[d] = "done" /\ worker[p].batch[d] <= sends[d]
    BY <1>3, <1>10 DEF Claim, RecordOK
  <2>2. deliveries[d].attempts \in Nat
    BY <1>0, <1>3, <2>1 DEF TypeOK, Records
  <2>3. RecordOK(d)'
    BY <1>2, <1>4, <1>10, <2>1, <2>2 DEF RecordOK
  <2>4. SingleOK(d)'
    BY <1>2, <1>4, <1>10, <2>1 DEF SingleOK
  <2>5. ASSUME NEW q \in Pods PROVE Claim(q, d)'
    <3>1. CASE q = p
      BY <1>0, <1>2, <1>4, <1>5, <1>7, <1>10, <2>1, <3>1 DEF Claim
    <3>2. CASE q # p
      BY <1>0, <1>2, <1>4, <1>7, <1>10, <3>2 DEF Claim
    <3> QED BY <3>1, <3>2
  <2>6. Alone(d)'
    <3> SUFFICES ASSUME d \notin spoiled PROVE Alone(d)'
      BY <1>2 DEF Alone
    <3>1. /\ worker[p].batch[d] = deliveries[d].attempts /\ deliveries[d].status = "retry_pending"
          /\ sends[d] = worker[p].batch[d]
          /\ \A q \in Pods : worker[q].batch[d] > 0 => q = p
      BY <1>2, <1>3, <1>10 DEF Alone
    <3>2. \A q \in Pods : worker'[q].batch[d] = worker[q].batch[d]
      BY <1>5, <1>7
    <3>3. sends'[d] = worker'[p].batch[d] + 1 /\ worker'[p].pc = "mark" /\ worker'[p].cur = d
      BY <1>4, <1>5, <1>7, <3>1
    <3> QED BY <1>2, <1>3, <2>1, <3>1, <3>2, <3>3 DEF Alone
  <2> QED BY <2>3, <2>4, <2>5, <2>6 DEF PerDelivery
<1>12. ASSUME NEW x \in Deliveries, x # d PROVE PerDelivery(x)'
  <2>1. Unconcerned(x)
    BY <1>2, <1>4, <1>5, <1>7, <1>12 DEF Unconcerned
  <2> QED BY <1>2, <1>4, <2>1, UnconcernedKeeps
<1> QED BY <1>8, <1>9, <1>11, <1>12 DEF WebhookInv

(* A worker writes back the outcome, by the count it read plus one.        *)
LEMMA MarkKeepsInv ==
    ASSUME WebhookConstants, NoneIsNoRecord, WebhookInv, NEW p \in Pods, MarkDelivery(p)
    PROVE  WebhookInv'
<1>0. TypeOK /\ MaxAttempts \in Nat \ {0} /\ WorkerShape(p)
  BY DEF WebhookInv, WebhookConstants
<1>cur. PICK d \in Deliveries : d = worker[p].cur
  BY <1>0 DEF WorkerShape, MarkDelivery
<1> DEFINE r == Outcome(worker[p].batch[d] + 1, worker[p].ok)
           w == Advance(p, d)
<1>1. /\ worker[p].pc = "mark" /\ worker' = [worker EXCEPT ![p] = w]
      /\ UNCHANGED <<detached, subs, memSubs, event, single, sends, accepted>>
      /\ \/ Ok /\ spoiled' = spoiled /\ deliveries' = [deliveries EXCEPT ![d] = r]
         \/ Fail /\ spoiled' = spoiled \cup {d} /\ deliveries' = deliveries
  BY <1>cur DEF MarkDelivery, dispatchVars, endpointVars, subVars
<1>2. faults' \in 0..MaxFaults /\ (faults' = 0 => faults = 0) /\ (Fail => faults' # 0)
  BY <1>1, FaultCount
<1>3. /\ d \in Deliveries /\ worker[p].batch[d] > 0 /\ worker \in [Pods -> Workers]
      /\ deliveries \in [Deliveries -> Records \cup {None}] /\ worker[p].ok \in BOOLEAN
  BY <1>0, <1>1, <1>cur DEF WorkerShape, TypeOK, Workers
<1>4. /\ RecordOK(d) /\ SingleOK(d) /\ Alone(d) /\ sends[d] \in Nat
      /\ \A q \in Pods : Claim(q, d) /\ worker[q].batch[d] \in 0..(MaxAttempts - 1)
  BY <1>3, Unfolded
<1>5. worker[p].batch[d] + 1 \in 1..MaxAttempts
  BY <1>0, <1>4
<1>6. /\ r \in Records /\ r # None /\ r.attempts = worker[p].batch[d] + 1
      /\ r.status = "delivered" => worker[p].ok
      /\ r.status = "retry_pending" => worker[p].batch[d] + 1 < MaxAttempts
      /\ r.status = "failed" => worker[p].batch[d] + 1 >= MaxAttempts
  BY <1>3, <1>5, OutcomeIs
<1>7. /\ w \in Workers /\ w.pc \in {"idle", "pick"} /\ w.batch[d] = 0
      /\ \A x \in Deliveries : x # d => w.batch[x] = worker[p].batch[x]
      /\ w.pc = "idle" => \A x \in Deliveries : w.batch[x] = 0
  BY <1>3, AdvanceIs DEF InBatch
<1>8. /\ deliveries[d] # None /\ single[d] = "done"
      /\ worker[p].batch[d] + 1 <= sends[d] /\ (worker[p].ok => d \in accepted)
  BY <1>1, <1>3, <1>4, <1>cur DEF Claim, RecordOK
<1> HIDE DEF r, w
<1>9. /\ worker' \in [Pods -> Workers] /\ worker'[p] = w /\ \A q \in Pods : q # p => worker'[q] = worker[q]
      /\ deliveries' \in [Deliveries -> Records \cup {None}]
      /\ \A x \in Deliveries : x # d => deliveries'[x] = deliveries[x]
      /\ \/ Ok /\ spoiled' = spoiled /\ deliveries'[d] = r
         \/ Fail /\ spoiled' = spoiled \cup {d} /\ deliveries'[d] = deliveries[d]
      /\ spoiled \subseteq spoiled' /\ spoiled' \subseteq Deliveries
  BY <1>0, <1>1, <1>3, <1>6, <1>7 DEF TypeOK
<1>10. TypeOK'
  BY <1>0, <1>1, <1>2, <1>9 DEF TypeOK
<1>11. \A q \in Pods : WorkerShape(q)'
  BY <1>7, <1>9 DEF WebhookInv, WorkerShape
<1>12. PerDelivery(d)'
  <2>1. RecordOK(d)'
    <3>1. CASE deliveries'[d] = r
      BY <1>0, <1>1, <1>3, <1>4, <1>6, <1>8, <3>1 DEF RecordOK
    <3>2. CASE deliveries'[d] = deliveries[d] /\ Fail
      BY <1>1, <1>2, <1>4, <1>8, <3>2 DEF RecordOK
    <3> QED BY <1>9, <3>1, <3>2
  <2>2. deliveries'[d] # None
    BY <1>6, <1>8, <1>9
  <2>3. SingleOK(d)'
    BY <1>1, <1>2, <1>4, <2>2 DEF SingleOK
  <2>4. ASSUME NEW q \in Pods PROVE Claim(q, d)'
    BY <1>1, <1>4, <1>7, <1>9, <2>2 DEF Claim
  <2>5. Alone(d)'
    <3> SUFFICES ASSUME d \notin spoiled' PROVE Alone(d)'
      BY DEF Alone
    <3>1. d \notin spoiled /\ deliveries'[d] = r
      BY <1>9
    <3>2. /\ sends[d] = worker[p].batch[d] + 1
          /\ \A q \in Pods : worker[q].batch[d] > 0 => q = p
      BY <1>1, <1>3, <1>4, <1>cur, <3>1 DEF Alone
    <3>3. \A q \in Pods : ~(worker'[q].batch[d] > 0)
      BY <1>7, <1>9, <3>2
    <3> QED BY <1>1, <1>6, <1>8, <2>2, <3>1, <3>2, <3>3 DEF Alone
  <2> QED BY <2>1, <2>3, <2>4, <2>5 DEF PerDelivery
<1>13. ASSUME NEW x \in Deliveries, x # d PROVE PerDelivery(x)'
  <2>1. Unconcerned(x)
    BY <1>1, <1>7, <1>9, <1>13, <1>cur DEF Unconcerned
  <2> QED BY <1>1, <1>2, <1>9, <2>1, UnconcernedKeeps
<1> QED BY <1>10, <1>11, <1>12, <1>13 DEF WebhookInv

(* A pod dies.                                                             *)
LEMMA CrashKeepsInv ==
    ASSUME WebhookConstants, WebhookInv, NEW p \in Pods, Crash(p)
    PROVE  WebhookInv'
<1>0. TypeOK /\ MaxAttempts \in Nat \ {0}
  BY DEF WebhookInv, WebhookConstants
<1> DEFINE lost == {d \in Deliveries : Home[Ev(d)] = p /\ single[d] \in {"send", "ok", "error"}}
           unlisted == {e \in Events : Home[e] = p /\ event[e] = "list"}
<1>1. /\ Fail /\ worker' = [worker EXCEPT ![p] = Sleeping]
      /\ single' = [d \in Deliveries |-> IF d \in lost THEN "done" ELSE single[d]]
      /\ event' = [e \in Events |-> IF e \in unlisted THEN "done" ELSE event[e]]
      /\ spoiled' = spoiled \cup lost \cup {d \in Deliveries : Ev(d) \in unlisted} \cup InBatch(p)
      /\ UNCHANGED <<subs, deliveries, sends, accepted>>
      /\ detached' \in {detached \ {p}, detached \cup ({p} \cap Gateways)}
      /\ memSubs' = [memSubs EXCEPT ![p] = NoSubs]
  BY DEF Crash, endpointVars
<1>2. faults' \in 0..MaxFaults /\ faults' # 0
  BY <1>1, FaultCount
<1>3. /\ Sleeping \in Workers /\ Sleeping.pc = "idle"
      /\ \A d \in Deliveries : Sleeping.batch[d] = 0
  BY <1>0 DEF Sleeping, Workers
<1>4. /\ worker' \in [Pods -> Workers] /\ worker'[p] = Sleeping
      /\ \A q \in Pods : q # p => worker'[q] = worker[q]
  BY <1>0, <1>1, <1>3 DEF TypeOK
<1>5. /\ single' \in [Deliveries -> {"idle", "send", "ok", "error", "done"}]
      /\ event' \in [Events -> {"idle", "list", "done"}]
      /\ spoiled' \subseteq Deliveries /\ spoiled \subseteq spoiled' /\ InBatch(p) \subseteq spoiled'
      /\ \A d \in Deliveries : \/ single'[d] = single[d]
                               \/ single'[d] = "done" /\ d \in spoiled' /\ single[d] \in {"send", "ok", "error"}
      /\ \A e \in Events : event'[e] # "done" => event'[e] = event[e]
  BY <1>0, <1>1 DEF TypeOK, InBatch
<1>mem. memSubs' \in [Pods -> [Subs -> SubStates]] /\ detached' \subseteq Gateways
  BY <1>0, <1>1 DEF TypeOK, NoSubs, SubStates
<1>6. TypeOK'
  BY <1>0, <1>1, <1>2, <1>4, <1>5, <1>mem DEF TypeOK
<1>7. \A q \in Pods : WorkerShape(q)'
  BY <1>3, <1>4 DEF WebhookInv, WorkerShape
<1>8. ASSUME NEW d \in Deliveries PROVE PerDelivery(d)'
  <2>1. /\ RecordOK(d) /\ SingleOK(d) /\ Alone(d) /\ sends[d] \in Nat /\ Ev(d) \in Events
        /\ \A q \in Pods : Claim(q, d) /\ worker[q].batch[d] \in 0..(MaxAttempts - 1)
    BY Unfolded, EvType
  <2>2. RecordOK(d)'
    BY <1>1, <1>2, <1>5, <2>1 DEF RecordOK
  <2>3. SingleOK(d)'
    BY <1>1, <1>2, <1>5, <2>1 DEF SingleOK
  <2>4. ASSUME NEW q \in Pods PROVE Claim(q, d)'
    BY <1>1, <1>3, <1>4, <2>1 DEF Claim
  <2>5. Alone(d)'
    <3> SUFFICES ASSUME d \notin spoiled' PROVE Alone(d)'
      BY DEF Alone
    <3>1. d \notin spoiled /\ single'[d] = single[d] /\ ~(worker[p].batch[d] > 0)
      BY <1>5 DEF InBatch
    <3>2. worker[p].batch[d] = 0 /\ worker'[p].batch[d] = 0
      BY <1>0, <1>3, <1>4, <2>1, <3>1
    <3>3. \A q \in Pods : worker'[q].batch[d] = worker[q].batch[d]
      BY <1>4, <3>2
    <3>4. \A q \in Pods : worker'[q].batch[d] > 0 => worker'[q] = worker[q]
      BY <1>4, <3>2
    <3> QED BY <1>1, <2>1, <3>1, <3>3, <3>4 DEF Alone
  <2> QED BY <2>2, <2>3, <2>4, <2>5 DEF PerDelivery
<1> QED BY <1>6, <1>7, <1>8 DEF WebhookInv

(* Nothing is subscribed, sent or held in the beginning.                   *)
LEMMA InitInv ==
    ASSUME WebhookConstants, Init
    PROVE  WebhookInv
<1>0. MaxAttempts \in Nat \ {0} /\ MaxFaults \in Nat
  BY DEF WebhookConstants
<1>1. /\ Sleeping \in Workers /\ Sleeping.pc = "idle"
      /\ \A d \in Deliveries : Sleeping.batch[d] = 0
  BY <1>0 DEF Sleeping, Workers
<1>2. TypeOK
  BY <1>0, <1>1 DEF Init, TypeOK, NoSubs, SubStates
<1>3. \A p \in Pods : worker[p] = Sleeping
  BY DEF Init
<1>4. \A p \in Pods : WorkerShape(p)
  BY <1>1, <1>3 DEF WorkerShape
<1>5. ASSUME NEW d \in Deliveries PROVE PerDelivery(d)
  <2>1. /\ deliveries[d] = None /\ single[d] = "idle" /\ sends[d] = 0
        /\ \A p \in Pods : worker[p].batch[d] = 0
    BY <1>1, <1>3 DEF Init
  <2> QED BY <2>1 DEF PerDelivery, RecordOK, SingleOK, Alone, Claim
<1> QED BY <1>2, <1>4, <1>5 DEF WebhookInv

(* Every step keeps the invariant.                                         *)
LEMMA NextKeepsInv ==
    ASSUME WebhookConstants, NoneIsNoRecord, WebhookInv, [Next]_vars
    PROVE  WebhookInv'
<1>1. CASE UNCHANGED vars \/ (\E p \in Gateways, s \in Subs : HandleWebhookSubscriptions(p, s))
           \/ (\E e \in Events : MovementCompleted(e))
  BY <1>1, QuietStepsKeepInv
<1>2. ASSUME NEW e \in Events, DispatchStep(e) PROVE WebhookInv'
  BY <1>2, DispatchKeepsInv, DispatchSingleKeepsInv, InsertKeepsInv DEF DispatchStep
<1>3. ASSUME NEW d \in Deliveries, BackoffElapses(d) PROVE WebhookInv'
  BY <1>3, BackoffKeepsInv
<1>4. ASSUME NEW p \in Pods, WorkerStep(p) PROVE WebhookInv'
  BY <1>4, FetchKeepsInv, FindKeepsInv, RetrySendKeepsInv, MarkKeepsInv DEF WorkerStep
<1>5. ASSUME NEW p \in Pods, Crash(p) PROVE WebhookInv'
  BY <1>5, CrashKeepsInv
<1> QED BY <1>1, <1>2, <1>3, <1>4, <1>5 DEF Next

-----------------------------------------------------------------------------
(* The inductive invariant holds in every reachable state.                 *)
THEOREM WebhookInvariant == Spec => []WebhookInv
<1>1. Init => WebhookInv
  BY WebhookAssumption, InitInv
<1>2. WebhookInv /\ [Next]_vars => WebhookInv'
  BY WebhookAssumption, NoneAssumption, NextKeepsInv
<1> QED BY <1>1, <1>2, PTL DEF Spec

(* Records, goroutines and workers keep their types; in particular no      *)
(* attempt count passes MaxAttempts, however stale the count a worker      *)
(* writes back.                                                            *)
THEOREM TypeCorrect == Spec => []TypeOK
<1>1. WebhookInv => TypeOK
  BY DEF WebhookInv
<1> QED BY <1>1, WebhookInvariant, PTL

(* Without a fault no notification is lost, and a record that says         *)
(* delivered is true, however many workers retry the same record.          *)
THEOREM NeverSilentlyLost == Spec => []NoSilentLoss
<1>1. WebhookConstants /\ WebhookInv => NoSilentLoss
  <2> SUFFICES ASSUME WebhookConstants, WebhookInv, NEW d \in Deliveries
               PROVE  /\ deliveries[d] # None =>
                           /\ deliveries[d].attempts <= sends[d]
                           /\ deliveries[d].status = "delivered" => d \in accepted
                      /\ (/\ faults = 0 /\ single[d] = "done" /\ d \notin accepted
                          /\ Home[Ev(d)] \notin detached) =>
                           /\ deliveries[d] # None
                           /\ deliveries[d].status = "retry_pending" \/ sends[d] >= MaxAttempts
    BY DEF NoSilentLoss
  <2>1. RecordOK(d) /\ SingleOK(d) /\ sends[d] \in Nat /\ MaxAttempts \in Nat
    BY Unfolded DEF WebhookConstants
  <2>2. deliveries[d] # None => deliveries[d].attempts \in Nat
                                /\ deliveries[d].status \in {"delivered", "failed", "retry_pending"}
    BY <2>1 DEF WebhookInv, TypeOK, Records
  <2> QED BY <2>1, <2>2 DEF RecordOK, SingleOK
<1> QED BY <1>1, WebhookAssumption, WebhookInvariant, PTL

(* The limit of attempts and the exact count hold for every delivery that  *)
(* no second worker and no fault has interfered with.                      *)
THEOREM LimitAlwaysKeptAlone == Spec => []LimitKeptAlone
<1>1. WebhookConstants /\ WebhookInv => LimitKeptAlone
  <2> SUFFICES ASSUME WebhookConstants, WebhookInv, NEW d \in Deliveries, d \notin spoiled
               PROVE  /\ sends[d] <= MaxAttempts
                      /\ d \notin Held /\ single[d] = "done" =>
                           sends[d] = IF deliveries[d] = None THEN 1 ELSE deliveries[d].attempts
    BY DEF LimitKeptAlone
  <2>1. /\ Alone(d) /\ RecordOK(d) /\ sends[d] \in Nat /\ MaxAttempts \in Nat \ {0}
        /\ \A p \in Pods : worker[p].batch[d] \in 0..(MaxAttempts - 1)
    BY Unfolded DEF WebhookConstants
  <2>2. /\ deliveries[d] # None => deliveries[d].attempts \in 1..MaxAttempts
        /\ single[d] \in {"idle", "send", "ok", "error", "done"}
    BY DEF WebhookInv, TypeOK, Records
  <2>3. CASE \E p \in Pods : worker[p].batch[d] > 0
    <3>1. PICK p \in Pods : worker[p].batch[d] > 0
      BY <2>3
    <3>2. sends[d] <= worker[p].batch[d] + 1
      BY <2>1, <3>1 DEF Alone
    <3>3. d \in Held
      BY <3>1 DEF Held, InBatch
    <3> QED BY <2>1, <3>2, <3>3
  <2>4. CASE ~\E p \in Pods : worker[p].batch[d] > 0
    <3>1. \A p \in Pods : worker[p].batch[d] = 0
      BY <2>1, <2>4
    <3>2. deliveries[d] # None => sends[d] = deliveries[d].attempts
      BY <2>1, <3>1 DEF Alone
    <3>3. single[d] = "done" /\ deliveries[d] = None => sends[d] = 1
      BY <2>1 DEF Alone
    <3>4. single[d] # "done" => sends[d] \in {0, 1}
      BY <2>1, <2>2 DEF Alone
    <3> QED BY <2>1, <2>2, <3>2, <3>3, <3>4
  <2> QED BY <2>3, <2>4
<1> QED BY <1>1, WebhookAssumption, WebhookInvariant, PTL
=============================================================================
