---------------------------- MODULE LedgerRelay ----------------------------
(***************************************************************************)
(* Delivery of the ledger outbox (cmd/wallet-service/ledger_outbox.go):    *)
(* every pod runs one LedgerRelay loop; the loop takes or renews a lease   *)
(* kept in MongoDB, reads a batch of pending tasks, sends each to the      *)
(* ledger service and marks it; a request handler also sends the task it   *)
(* has just committed (DispatchImmediate).                                 *)
(*                                                                         *)
(* lease.left is expires_at minus the current time, floored at -1.  Pods   *)
(* compare expires_at with their own clocks, which run Skew[p] ahead.  The *)
(* document is created by the first lease call of a process (initOnce),    *)
(* which is never tried again.                                             *)
(* Any number of clock ticks may fall between two steps: a batch of 50     *)
(* calls with a 3 s timeout each can outlive the 10 s lease.               *)
(*                                                                         *)
(* Calls to the ledger fail without limit.  Database errors, crashes and   *)
(* shutdowns are limited to MaxFaults.                                     *)
(***************************************************************************)
EXTENDS Integers, FiniteSets

CONSTANTS
    Pods,
    NTasks,      \* tasks 1 .. NTasks, numbered by created_at
    Rejected,    \* tasks the ledger service will not accept
    None,
    BatchSize,   \* batchSize, 50 in main.go
    MaxRetries,  \* DefaultMaxLedgerTaskRetries, 5
    TTL,         \* the lease TTL
    Skew,        \* [Pods -> Nat]
    MaxFaults    \* bound on database errors, crashes and shutdowns

Tasks == 1 .. NTasks

ASSUME RelayAssumption ==
    /\ NTasks \in Nat
    /\ Rejected \subseteq Tasks
    /\ None \notin Pods
    /\ BatchSize \in Nat \ {0}
    /\ MaxRetries \in Nat \ {0}
    /\ TTL \in Nat
    /\ Skew \in [Pods -> Nat]
    /\ MaxFaults \in Nat

(* The wallet service runs on some pods, and on finitely many.             *)
ASSUME PodsAssumption == IsFiniteSet(Pods) /\ Pods # {}

VARIABLES
    status, retries,  \* the documents of ledger_tasks
    created, lease,   \* the document of ledger_relay_lease: is it there, and what it says
    recorded,         \* tasks the ledger service has an entry for
    late,             \* calls still under way although their sender gave up
    direct,           \* DispatchImmediate of each task
    pc, isLeader,     \* each pod's relay loop
    batch, seen,      \* its batch, and the retries it read with it
    stopping,         \* is its context cancelled?
    faults

storeVars == <<status, retries>>
leaseVars == <<created, lease>>
ledgerVars == <<recorded, late>>
loopVars == <<pc, isLeader, batch, seen, stopping>>
vars == <<storeVars, leaseVars, ledgerVars, direct, loopVars, faults>>

TypeOK ==
    /\ status \in [Tasks -> {"absent", "pending", "completed", "failed"}]
    /\ retries \in [Tasks -> Nat]
    /\ created \in BOOLEAN
    /\ lease \in [holder : Pods \cup {None}, left : Int]
    /\ recorded \subseteq Tasks
    /\ late \subseteq Tasks
    /\ direct \in [Tasks -> {"no", "send", "mark"}]
    /\ pc \in [Pods -> {"down", "start", "idle", "fetch", "send", "completed", "failed"}]
    /\ isLeader \in [Pods -> BOOLEAN]
    /\ batch \in [Pods -> SUBSET Tasks]
    /\ seen \in [Pods -> [Tasks -> Nat]]
    /\ stopping \in [Pods -> BOOLEAN]
    /\ faults \in 0 .. MaxFaults

Nothing == [t \in Tasks |-> 0]

Init ==
    /\ status = [t \in Tasks |-> "absent"]
    /\ retries = Nothing
    /\ created = FALSE
    /\ lease = [holder |-> None, left |-> -1]
    /\ recorded = {}
    /\ late = {}
    /\ direct = [t \in Tasks |-> "no"]
    /\ pc = [p \in Pods |-> "start"]
    /\ isLeader = [p \in Pods |-> FALSE]
    /\ batch = [p \in Pods |-> {}]
    /\ seen = [p \in Pods |-> Nothing]
    /\ stopping = [p \in Pods |-> FALSE]
    /\ faults = 0

Fault == faults < MaxFaults /\ faults' = faults + 1
NoFault == UNCHANGED faults

(* A database call of p fails: an error, or a cancelled context.           *)
CallFails(p) == Fault \/ (stopping[p] /\ NoFault)

-----------------------------------------------------------------------------
(* AppendLedgerTask commits with the wallet transaction; its handler goes  *)
(* on to DispatchImmediate.                                                *)
AppendLedgerTask(t) ==
    /\ status[t] = "absent"
    /\ status' = [status EXCEPT ![t] = "pending"]
    /\ direct' = [direct EXCEPT ![t] = "send"]
    /\ UNCHANGED <<retries, leaseVars, ledgerVars, loopVars, faults>>

(* What a RecordTransaction call does to the ledger: a call that fails may *)
(* still be under way.                                                     *)
LedgerRecords(t) == t \notin Rejected /\ recorded' = recorded \cup {t} /\ UNCHANGED late
LedgerFails(t) == late' \in {late, late \cup ({t} \ Rejected)} /\ UNCHANGED recorded

(* DispatchImmediate: one call; only an answer leads to a mark.            *)
DirectSend(t) ==
    /\ direct[t] = "send"
    /\ \/ LedgerRecords(t) /\ direct' = [direct EXCEPT ![t] = "mark"]
       \/ LedgerFails(t) /\ direct' = [direct EXCEPT ![t] = "no"]
    /\ UNCHANGED <<storeVars, leaseVars, loopVars, faults>>

DirectMark(t) ==
    /\ direct[t] = "mark"
    /\ direct' = [direct EXCEPT ![t] = "no"]
    /\ status' = [status EXCEPT ![t] = "completed"]
    /\ UNCHANGED <<retries, leaseVars, ledgerVars, loopVars, faults>>

(* The handler's pod dies, or MarkCompleted fails.                         *)
DirectLost(t) ==
    /\ direct[t] # "no"
    /\ Fault
    /\ direct' = [direct EXCEPT ![t] = "no"]
    /\ UNCHANGED <<storeVars, leaseVars, ledgerVars, loopVars>>

(* A call whose sender timed out reaches the ledger.                       *)
LateRecord(t) ==
    /\ t \in late
    /\ late' = late \ {t}
    /\ recorded' = recorded \cup {t}
    /\ UNCHANGED <<storeVars, leaseVars, direct, loopVars, faults>>

Tick ==
    /\ lease.left >= 0
    /\ lease' = [lease EXCEPT !.left = @ - 1]
    /\ UNCHANGED <<storeVars, created, ledgerVars, direct, loopVars, faults>>

-----------------------------------------------------------------------------
Goto(p, l) == pc' = [pc EXCEPT ![p] = l]

(* The first lease call of a process upserts the document, once: an error  *)
(* is dropped, whether or not the upsert took effect.                      *)
EnsureDocExists(p) ==
    /\ pc[p] = "start" /\ ~stopping[p]
    /\ \/ NoFault /\ created' = TRUE
       \/ Fault /\ created' \in {created, TRUE}
    /\ Goto(p, "idle")
    /\ UNCHANGED <<storeVars, lease, ledgerVars, direct, isLeader, batch, seen, stopping>>

(* The filter of TryAcquireOrRenew.  Without the document nothing matches  *)
(* it, which the code takes for a lease held by another pod.               *)
LeaseIsFree(p) == created /\ (lease.holder = p \/ lease.left < Skew[p])
Held(p) == [holder |-> p, left |-> TTL + Skew[p]]

(* The timer fires: TryAcquireOrRenew, and setLeader from its answer.      *)
TryAcquireOrRenew(p) ==
    /\ pc[p] = "idle" /\ ~stopping[p]
    /\ IF LeaseIsFree(p)
       THEN lease' = Held(p) /\ Goto(p, "fetch")
       ELSE UNCHANGED <<lease, pc>>
    /\ isLeader' = [isLeader EXCEPT ![p] = LeaseIsFree(p)]
    /\ UNCHANGED <<storeVars, created, ledgerVars, direct, batch, seen, stopping, faults>>

(* The query fails, before or after it took effect: no batch this time,    *)
(* and isLeader keeps its value.                                           *)
LeaseError(p) ==
    /\ pc[p] = "idle" /\ ~stopping[p]
    /\ Fault
    /\ lease' \in {lease} \cup (IF LeaseIsFree(p) THEN {Held(p)} ELSE {})
    /\ UNCHANGED <<storeVars, created, ledgerVars, direct, loopVars>>

Pending == {t \in Tasks : status[t] = "pending"}

(* The BatchSize oldest pending tasks.                                     *)
FindPending == {t \in Pending : Cardinality({u \in Pending : u < t}) < BatchSize}

Fetch(p) ==
    /\ pc[p] = "fetch"
    /\ \/ /\ ~stopping[p] /\ NoFault
          /\ batch' = [batch EXCEPT ![p] = FindPending]
          /\ seen' = [seen EXCEPT ![p] =
                        [t \in Tasks |-> IF t \in FindPending THEN retries[t] ELSE 0]]
          /\ Goto(p, IF FindPending = {} THEN "idle" ELSE "send")
       \/ CallFails(p) /\ Goto(p, "idle") /\ UNCHANGED <<batch, seen>>
    /\ UNCHANGED <<storeVars, leaseVars, ledgerVars, direct, isLeader, stopping>>

(* The task ProcessBatch is at.                                            *)
Oldest(S) == CHOOSE t \in S : \A u \in S : t <= u
Current(p) == Oldest(batch[p])

(* Mutant: a failed call counts as delivered.                              *)
SendIgnoresFailure(p) ==
    /\ pc[p] = "send"
    /\ LedgerRecords(Current(p)) \/ LedgerFails(Current(p))
    /\ Goto(p, "completed")
    /\ UNCHANGED <<storeVars, leaseVars, direct, isLeader, batch, seen, stopping, faults>>

(* A cancelled context fails the call at once.                             *)
Send(p) ==
    /\ pc[p] = "send"
    /\ \/ ~stopping[p] /\ LedgerRecords(Current(p)) /\ Goto(p, "completed")
       \/ ~stopping[p] /\ LedgerFails(Current(p)) /\ Goto(p, "failed")
       \/ stopping[p] /\ UNCHANGED ledgerVars /\ Goto(p, "failed")
    /\ UNCHANGED <<storeVars, leaseVars, direct, isLeader, batch, seen, stopping, faults>>

(* Mutants: giving up one failure too early; never giving up.              *)
GivesUpEarly(p) == seen[p][Current(p)] + 2 >= MaxRetries
GivesUpNever(p) == FALSE

GivesUp(p) == seen[p][Current(p)] + 1 >= MaxRetries

(* Mutant: a failure is not counted.                                       *)
MarkedUncounted(p) ==
    LET t == Current(p) IN
    /\ status' = [status EXCEPT ![t] =
                    IF pc[p] = "completed" THEN "completed" ELSE IF GivesUp(p) THEN "failed" ELSE @]
    /\ UNCHANGED retries

(* MarkCompleted, MarkFailed and MarkPermanentlyFailed: none of them looks *)
(* at the status it overwrites.                                            *)
Marked(p) ==
    LET t == Current(p) IN
    IF pc[p] = "completed"
    THEN status' = [status EXCEPT ![t] = "completed"] /\ UNCHANGED retries
    ELSE /\ retries' = [retries EXCEPT ![t] = @ + 1]
         /\ status' = IF GivesUp(p) THEN [status EXCEPT ![t] = "failed"] ELSE status

(* The error of a mark is dropped and the loop goes on.                    *)
Mark(p) ==
    LET rest == batch[p] \ {Current(p)} IN
    /\ pc[p] \in {"completed", "failed"}
    /\ \/ ~stopping[p] /\ NoFault /\ Marked(p)
       \/ CallFails(p) /\ UNCHANGED storeVars
    /\ batch' = [batch EXCEPT ![p] = rest]
    /\ seen' = [seen EXCEPT ![p][Current(p)] = 0]
    /\ Goto(p, IF rest = {} THEN "idle" ELSE "send")
    /\ UNCHANGED <<leaseVars, ledgerVars, direct, isLeader, stopping>>

-----------------------------------------------------------------------------
(* Stop cancels the context of the loop.                                   *)
Stop(p) ==
    /\ pc[p] # "down" /\ ~stopping[p]
    /\ Fault
    /\ stopping' = [stopping EXCEPT ![p] = TRUE]
    /\ UNCHANGED <<storeVars, leaseVars, ledgerVars, direct, pc, isLeader, batch, seen>>

Down(p) ==
    /\ Goto(p, "down")
    /\ isLeader' = [isLeader EXCEPT ![p] = FALSE]
    /\ batch' = [batch EXCEPT ![p] = {}]
    /\ seen' = [seen EXCEPT ![p] = Nothing]
    /\ stopping' = [stopping EXCEPT ![p] = FALSE]

(* Mutant: the filter names the document only.                             *)
ReleaseAnyHolder(p) == lease' = [holder |-> None, left |-> -1]

(* Release: holder_id is in the filter.                                    *)
Release(p) ==
    lease' = IF lease.holder = p THEN [holder |-> None, left |-> -1] ELSE lease

(* The loop sees the cancelled context: a leader releases its lease, which *)
(* may fail.                                                               *)
Shutdown(p) ==
    /\ pc[p] \in {"start", "idle"} /\ stopping[p]
    /\ \/ NoFault /\ (IF isLeader[p] THEN Release(p) ELSE UNCHANGED lease)
       \/ Fault /\ isLeader[p] /\ UNCHANGED lease
    /\ Down(p)
    /\ UNCHANGED <<storeVars, created, ledgerVars, direct>>

Crash(p) ==
    /\ pc[p] # "down"
    /\ Fault
    /\ Down(p)
    /\ UNCHANGED <<storeVars, leaseVars, ledgerVars, direct>>

(* The pod comes back under the same instance id, with a new initOnce.     *)
Restart(p) ==
    /\ pc[p] = "down"
    /\ Goto(p, "start")
    /\ UNCHANGED <<storeVars, leaseVars, ledgerVars, direct, isLeader, batch, seen, stopping, faults>>

Loop(p) ==
    \/ EnsureDocExists(p) \/ TryAcquireOrRenew(p) \/ Fetch(p) \/ Send(p) \/ Mark(p)
    \/ Shutdown(p) \/ Restart(p)

Next ==
    \/ \E t \in Tasks :
         \/ AppendLedgerTask(t) \/ DirectSend(t) \/ DirectMark(t) \/ DirectLost(t)
         \/ LateRecord(t)
    \/ \E p \in Pods : Loop(p) \/ LeaseError(p) \/ Stop(p) \/ Crash(p)
    \/ Tick

Spec == Init /\ [][Next]_vars

(* Each relay goroutine keeps running and time passes.                     *)
Fairness == WF_vars(Tick) /\ \A p \in Pods : WF_vars(Loop(p))

FairSpec == Spec /\ Fairness

-----------------------------------------------------------------------------
(* A task is marked completed only if the ledger has its entry, whatever   *)
(* timeouts, stale batches and two leaders do (ProcessBatch marks after an *)
(* answer, DispatchImmediate too).                                         *)
CompletedIsRecorded ==
    \A t \in Tasks : status[t] = "completed" => t \in recorded

(* No task is given up before MaxRetries failures were counted against it, *)
(* although each relay judges by the count it read with its batch.         *)
GivenUpAfterMaxRetries ==
    \A t \in Tasks : status[t] = "failed" => retries[t] >= MaxRetries

(* What the two invariants above rest on: a mark follows an answer, and    *)
(* the count a relay read is never ahead of the stored one.                *)
AnsweredIsRecorded ==
    /\ \A t \in Tasks : direct[t] = "mark" => t \in recorded
    /\ \A p \in Pods : pc[p] = "completed" => Current(p) \in recorded
BatchInHand ==
    \A p \in Pods : pc[p] \in {"send", "completed", "failed"} => batch[p] # {}
CountsAreStale ==
    \A p \in Pods, t \in Tasks : seen[p][t] <= retries[t]
RelayInv ==
    /\ TypeOK
    /\ CompletedIsRecorded
    /\ GivenUpAfterMaxRetries
    /\ AnsweredIsRecorded
    /\ BatchInHand
    /\ CountsAreStale

(* However the batches of several pods overlap, the count stays bounded: a *)
(* stale relay adds at most one failure before and one after the limit.    *)
RetriesBounded ==
    \A t \in Tasks : retries[t] <= MaxRetries - 2 + 2 * Cardinality(Pods)

(* A pod loses the lease only when it has run out by its successor's       *)
(* clock, or by shutting down itself: a relay that lost leadership without *)
(* knowing cannot release the new leader's lease.                          *)
LeaseLostFairly ==
    [][\A p \in Pods : lease.holder = p /\ lease'.holder # p =>
         \/ pc'[p] = "down"
         \/ \E q \in Pods : lease'.holder = q /\ lease.left < Skew[q]]_vars

AllSettled == \A t \in Tasks : status[t] # "pending"

(* Once the lease document is there every committed task is settled in the *)
(* end, delivered or given up: a rejected task at the head of the queue    *)
(* cannot starve the others.  If the one upsert of every pod fails, nobody *)
(* leads until a pod is restarted.                                         *)
EveryTaskSettles == <>created => <>[]AllSettled

-----------------------------------------------------------------------------
(* Claims of the documentation that the code does not keep; no run expects *)
(* them to hold (README, section 4).                                       *)

(* "ensuring single-worker active outbox processing": one relay at a time  *)
(* is inside ProcessBatch.                                                 *)
SingleActiveWorker ==
    \A p, q \in Pods : p # q => ~(batch[p] # {} /\ batch[q] # {})

(* "ensureDocExists guarantees that the singleton lease document exists    *)
(* before running FindOneAndUpdate": a pod past its initOnce finds it.     *)
LeaseDocExists == \A p \in Pods : pc[p] \notin {"down", "start"} => created

(* "guarantees reliable asynchronous delivery": every task is settled, the *)
(* lease document there or not.                                            *)
SettledAnyway == <>[]AllSettled

(* "guaranteed at-least-once outbox relay": a task the ledger would accept *)
(* is not given up for good without an entry or a call under way.          *)
AtLeastOnce ==
    \A t \in Tasks \ Rejected :
      status[t] = "failed" /\ direct[t] = "no" => t \in recorded \cup late
=============================================================================
