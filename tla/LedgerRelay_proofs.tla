------------------------ MODULE LedgerRelay_proofs ------------------------
(***************************************************************************)
(* Proofs about LedgerRelay for any number of pods and tasks, any batch    *)
(* size, retry limit, lease TTL and clock skew.  RelayInv is inductive:    *)
(* "completed implies recorded" needs that a mark follows an answer        *)
(* (AnsweredIsRecorded), and "failed implies MaxRetries failures" needs    *)
(* that the count read with a batch never exceeds the stored one           *)
(* (CountsAreStale).                                                       *)
(***************************************************************************)
EXTENDS LedgerRelay, FiniteSetTheorems, WellFoundedInduction, TLAPS

(* A non-empty batch has an oldest task.                                   *)
LEMMA OldestTask ==
    ASSUME RelayAssumption, NEW S \in SUBSET Tasks, S # {}
    PROVE  \E t \in S : \A u \in S : t <= u
<1> DEFINE R == OpToRel(<, Nat)
<1>1. S \subseteq Nat
  BY DEF Tasks, RelayAssumption
<1>2. IsWellFoundedOn(R, Nat)
  BY NatLessThanWellFounded
<1>3. PICK t \in S : \A u \in S : <<u, t>> \notin R
  <2> HIDE DEF R
  <2> QED BY <1>1, <1>2, WFMin
<1>4. \A u \in S : ~(u < t)
  BY <1>1, <1>3 DEF OpToRel
<1>5. \A u \in S : t <= u
  BY <1>1, <1>4
<1> QED BY <1>5
(* The task at hand is one of the batch.                                   *)
LEMMA CurrentInBatch ==
    ASSUME RelayAssumption, TypeOK, NEW p \in Pods, batch[p] # {}
    PROVE  Current(p) \in batch[p] /\ Current(p) \in Tasks
<1>1. batch[p] \in SUBSET Tasks
  BY DEF TypeOK
<1>2. \E t \in batch[p] : \A u \in batch[p] : t <= u
  BY <1>1, OldestTask
<1> QED BY <1>1, <1>2 DEF Current, Oldest

(* The steps of a request handler and of the environment keep RelayInv.    *)
LEMMA EnvironmentKeepsInv ==
    ASSUME RelayAssumption, RelayInv,
           \/ \E t \in Tasks :
                \/ AppendLedgerTask(t) \/ DirectSend(t) \/ DirectMark(t) \/ DirectLost(t)
                \/ LateRecord(t)
           \/ Tick
    PROVE  RelayInv'
<1> USE DEF RelayInv, TypeOK, CompletedIsRecorded, GivenUpAfterMaxRetries,
            AnsweredIsRecorded, BatchInHand, CountsAreStale, Current,
            storeVars, leaseVars, ledgerVars, loopVars
<1>1. ASSUME NEW t \in Tasks, AppendLedgerTask(t) PROVE RelayInv'
  BY <1>1 DEF AppendLedgerTask
<1>2. ASSUME NEW t \in Tasks, DirectSend(t) PROVE RelayInv'
  <2>1. CASE LedgerRecords(t) /\ direct' = [direct EXCEPT ![t] = "mark"]
    BY <1>2, <2>1 DEF DirectSend, LedgerRecords
  <2>2. CASE LedgerFails(t) /\ direct' = [direct EXCEPT ![t] = "no"]
    BY <1>2, <2>2 DEF DirectSend, LedgerFails
  <2> QED BY <1>2, <2>1, <2>2 DEF DirectSend
<1>3. ASSUME NEW t \in Tasks, DirectMark(t) PROVE RelayInv'
  BY <1>3 DEF DirectMark
<1>4. ASSUME NEW t \in Tasks, DirectLost(t) PROVE RelayInv'
  BY <1>4, RelayAssumption DEF DirectLost, Fault, RelayAssumption
<1>5. ASSUME NEW t \in Tasks, LateRecord(t) PROVE RelayInv'
  BY <1>5 DEF LateRecord
<1>6. ASSUME Tick PROVE RelayInv'
  <2>1. lease \in [holder : Pods \cup {None}, left : Int]
    BY DEF TypeOK
  <2>2. lease' = [lease EXCEPT !.left = @ - 1]
    BY <1>6 DEF Tick
  <2>3. lease' \in [holder : Pods \cup {None}, left : Int]
    <3> HIDE DEF TypeOK, RelayInv
    <3> QED BY <2>1, <2>2
  <2> QED BY <1>6, <2>3 DEF Tick
<1> HIDE DEF RelayInv
<1> QED BY <1>1, <1>2, <1>3, <1>4, <1>5, <1>6

(* The steps of a relay loop keep RelayInv.                                *)
LEMMA LoopKeepsInv ==
    ASSUME RelayAssumption, RelayInv, NEW p \in Pods,
           Loop(p) \/ LeaseError(p) \/ Stop(p) \/ Crash(p)
    PROVE  RelayInv'
<1> USE DEF RelayInv, TypeOK, CompletedIsRecorded, GivenUpAfterMaxRetries,
            AnsweredIsRecorded, BatchInHand, CountsAreStale, Current,
            storeVars, leaseVars, ledgerVars, loopVars, Goto
<1>1. CASE TryAcquireOrRenew(p)
  <2>1. lease' \in [holder : Pods \cup {None}, left : Int]
    BY <1>1 DEF TryAcquireOrRenew, Held, RelayAssumption
  <2>2. isLeader' \in [Pods -> BOOLEAN]
    <3>1. LeaseIsFree(p) \in BOOLEAN
      BY Zenon DEF LeaseIsFree
    <3> QED BY <1>1, <3>1, Zenon DEF TryAcquireOrRenew
  <2>3. CASE LeaseIsFree(p)
    <3>1. pc' = [pc EXCEPT ![p] = "fetch"] /\ UNCHANGED <<storeVars, created, ledgerVars, direct, batch, seen, stopping, faults>>
      BY <1>1, <2>3 DEF TryAcquireOrRenew
    <3>2. TypeOK'
      BY <2>1, <2>2, <3>1
    <3>3. AnsweredIsRecorded' /\ BatchInHand'
      BY <3>1
    <3>4. CompletedIsRecorded' /\ GivenUpAfterMaxRetries' /\ CountsAreStale'
      BY <3>1
    <3> HIDE DEF TypeOK, CompletedIsRecorded, GivenUpAfterMaxRetries, AnsweredIsRecorded, BatchInHand, CountsAreStale
    <3> QED BY <3>2, <3>3, <3>4
  <2>4. CASE ~LeaseIsFree(p)
    BY <1>1, <2>1, <2>2, <2>4 DEF TryAcquireOrRenew
  <2> QED BY <2>3, <2>4
<1>2. CASE Fetch(p)
  <2>1. FindPending \in SUBSET Tasks
    BY DEF FindPending, Pending
  <2>2. faults' \in 0 .. MaxFaults
    BY <1>2 DEF Fetch, CallFails, Fault, NoFault, RelayAssumption
  <2>3. CASE /\ batch' = [batch EXCEPT ![p] = FindPending]
             /\ seen' = [seen EXCEPT ![p] =
                           [t \in Tasks |-> IF t \in FindPending THEN retries[t] ELSE 0]]
             /\ Goto(p, IF FindPending = {} THEN "idle" ELSE "send")
    BY <1>2, <2>1, <2>2, <2>3 DEF Fetch
  <2>4. CASE Goto(p, "idle") /\ UNCHANGED <<batch, seen>>
    BY <1>2, <2>2, <2>4 DEF Fetch
  <2> QED BY <1>2, <2>3, <2>4 DEF Fetch
<1>3. CASE Send(p)
  <2>1. batch[p] # {}
    BY <1>3 DEF Send
  <2>2. Oldest(batch[p]) \in Tasks
    BY <2>1, CurrentInBatch
  <2>3. CASE LedgerRecords(Current(p)) /\ Goto(p, "completed")
    BY <1>3, <2>1, <2>2, <2>3 DEF Send, LedgerRecords
  <2>4. CASE LedgerFails(Current(p)) /\ Goto(p, "failed")
    BY <1>3, <2>1, <2>2, <2>4 DEF Send, LedgerFails
  <2>5. CASE UNCHANGED ledgerVars /\ Goto(p, "failed")
    BY <1>3, <2>1, <2>5 DEF Send
  <2> QED BY <1>3, <2>3, <2>4, <2>5 DEF Send
<1>4. CASE Mark(p)
  <2> DEFINE c == Oldest(batch[p])
             rest == batch[p] \ {c}
  <2>1. batch[p] # {}
    BY <1>4 DEF Mark
  <2>2. c \in Tasks
    BY <2>1, CurrentInBatch
  <2> HIDE DEF c
  <2>3. faults' \in 0 .. MaxFaults
    BY <1>4 DEF Mark, CallFails, Fault, NoFault, RelayAssumption
  <2>4. /\ batch' = [batch EXCEPT ![p] = rest]
        /\ seen' = [seen EXCEPT ![p][c] = 0]
        /\ pc' = [pc EXCEPT ![p] = IF rest = {} THEN "idle" ELSE "send"]
        /\ UNCHANGED <<created, lease, recorded, late, direct, isLeader, stopping>>
    BY <1>4 DEF Mark, c
  <2>5. \A q \in Pods, t \in Tasks : seen'[q][t] <= seen[q][t] /\ seen'[q][t] \in Nat
    BY <2>2, <2>4
  <2>6. CASE pc[p] = "completed" /\ Marked(p)
    <3>1. status' = [status EXCEPT ![c] = "completed"] /\ UNCHANGED retries
      BY <2>6 DEF Marked, c
    <3>2. c \in recorded
      BY <2>6 DEF c
    <3> QED BY <2>2, <2>3, <2>4, <2>5, <3>1, <3>2
  <2>7. CASE pc[p] # "completed" /\ Marked(p)
    <3>1. /\ retries' = [retries EXCEPT ![c] = @ + 1]
          /\ status' = IF GivesUp(p) THEN [status EXCEPT ![c] = "failed"] ELSE status
      BY <2>7 DEF Marked, c
    <3>2. GivesUp(p) => retries[c] + 1 >= MaxRetries
      BY <2>2 DEF GivesUp, RelayAssumption, c
    <3>3. \A q \in Pods, t \in Tasks : seen'[q][t] <= retries'[t]
      BY <2>2, <2>5, <3>1
    <3>4. \A t \in Tasks : retries'[t] >= retries[t]
      BY <2>2, <3>1
    <3>5. CASE GivesUp(p)
      BY <2>2, <2>3, <2>4, <3>1, <3>2, <3>3, <3>4, <3>5 DEF RelayAssumption
    <3>6. CASE ~GivesUp(p)
      BY <2>2, <2>3, <2>4, <3>1, <3>3, <3>4, <3>6 DEF RelayAssumption
    <3> QED BY <3>5, <3>6
  <2>8. CASE UNCHANGED storeVars
    BY <2>2, <2>3, <2>4, <2>5, <2>8
  <2> QED BY <1>4, <2>6, <2>7, <2>8 DEF Mark
<1>5. CASE Shutdown(p)
  <2>1. lease' \in [holder : Pods \cup {None}, left : Int]
    BY <1>5 DEF Shutdown, Release
  <2>2. faults' \in 0 .. MaxFaults
    BY <1>5 DEF Shutdown, Fault, NoFault, RelayAssumption
  <2> QED BY <1>5, <2>1, <2>2 DEF Shutdown, Down, Nothing
<1>6. CASE Restart(p)
  BY <1>6 DEF Restart
<1>7. CASE LeaseError(p)
  <2>1. lease' \in [holder : Pods \cup {None}, left : Int]
    BY <1>7 DEF LeaseError, Held, RelayAssumption
  <2>2. faults' \in 0 .. MaxFaults
    BY <1>7 DEF LeaseError, Fault, RelayAssumption
  <2> QED BY <1>7, <2>1, <2>2 DEF LeaseError
<1>8. CASE Stop(p)
  BY <1>8 DEF Stop, Fault, RelayAssumption
<1>9. CASE Crash(p)
  <2>1. faults' \in 0 .. MaxFaults
    BY <1>9 DEF Crash, Fault, RelayAssumption
  <2> QED BY <1>9, <2>1 DEF Crash, Down, Nothing
<1>10. CASE EnsureDocExists(p)
  <2>1. created' \in {created, TRUE} /\ (NoFault \/ Fault)
    BY <1>10, Zenon DEF EnsureDocExists
  <2>3. created \in BOOLEAN
    OBVIOUS
  <2>4. created' \in BOOLEAN
    BY <2>1, <2>3, Zenon
  <2>5. faults' \in 0 .. MaxFaults
    BY <2>1, RelayAssumption DEF Fault, NoFault, RelayAssumption
  <2>2. /\ pc' = [pc EXCEPT ![p] = "idle"]
        /\ UNCHANGED <<status, retries, lease, recorded, late, direct, isLeader, batch, seen, stopping>>
    BY <1>10 DEF EnsureDocExists
  <2> QED BY <2>2, <2>4, <2>5
<1> HIDE DEF RelayInv
<1> QED BY <1>1, <1>2, <1>3, <1>4, <1>5, <1>6, <1>7, <1>8, <1>9, <1>10 DEF Loop

(* Every pod count, batch size, retry limit, TTL and skew: RelayInv holds  *)
(* in every reachable state.                                               *)
THEOREM RelayInvariant == Spec => []RelayInv
<1>1. Init => RelayInv
  <2> SUFFICES ASSUME Init PROVE RelayInv
    OBVIOUS
  <2>1. created \in BOOLEAN
    BY Zenon DEF Init
  <2>2. lease \in [holder : Pods \cup {None}, left : Int]
    BY DEF Init
  <2>3. TypeOK
    BY <2>1, <2>2, RelayAssumption DEF Init, Nothing, TypeOK, RelayAssumption
  <2>4. /\ CompletedIsRecorded /\ GivenUpAfterMaxRetries /\ AnsweredIsRecorded
        /\ BatchInHand /\ CountsAreStale
    BY RelayAssumption DEF Init, Nothing, CompletedIsRecorded, GivenUpAfterMaxRetries,
       AnsweredIsRecorded, BatchInHand, CountsAreStale, RelayAssumption
  <2> QED BY <2>3, <2>4 DEF RelayInv
<1>2. RelayInv /\ [Next]_vars => RelayInv'
  <2> SUFFICES ASSUME RelayInv, [Next]_vars PROVE RelayInv'
    OBVIOUS
  <2>1. CASE UNCHANGED vars
    BY <2>1 DEF RelayInv, TypeOK, CompletedIsRecorded, GivenUpAfterMaxRetries,
       AnsweredIsRecorded, BatchInHand, CountsAreStale, Current, vars, storeVars, leaseVars,
       ledgerVars, loopVars
  <2>2. CASE Next
    BY <2>2, RelayAssumption, EnvironmentKeepsInv, LoopKeepsInv DEF Next
  <2> QED BY <2>1, <2>2
<1> QED BY <1>1, <1>2, PTL DEF Spec

(* The state of the relays and of the outbox is always well typed.         *)
THEOREM TypeCorrect == Spec => []TypeOK
<1>1. RelayInv => TypeOK
  BY DEF RelayInv
<1> QED BY <1>1, RelayInvariant, PTL

(* ProcessBatch and DispatchImmediate never mark a task completed that the *)
(* ledger does not have, however many relays act on it at once.            *)
THEOREM CompletedTasksAreRecorded == Spec => []CompletedIsRecorded
<1>1. RelayInv => CompletedIsRecorded
  BY DEF RelayInv
<1> QED BY <1>1, RelayInvariant, PTL

(* MarkPermanentlyFailed is reached only after MaxRetries counted          *)
(* failures, although the relay judges by a stale count.                   *)
THEOREM GivenUpOnlyAfterMaxRetries == Spec => []GivenUpAfterMaxRetries
<1>1. RelayInv => GivenUpAfterMaxRetries
  BY DEF RelayInv
<1> QED BY <1>1, RelayInvariant, PTL

(* Release and TryAcquireOrRenew take the lease from nobody whose lease    *)
(* has not run out by the taker's clock.                                   *)
THEOREM LeaseIsLostFairly == Spec => LeaseLostFairly
<1> DEFINE A == \A p \in Pods : lease.holder = p /\ lease'.holder # p =>
                  \/ pc'[p] = "down"
                  \/ \E q \in Pods : lease'.holder = q /\ lease.left < Skew[q]
<1>1. TypeOK /\ [Next]_vars => [A]_vars
  <2> SUFFICES ASSUME TypeOK, Next, NEW p \in Pods, lease.holder = p, lease'.holder # p
               PROVE  \/ pc'[p] = "down"
                      \/ \E q \in Pods : lease'.holder = q /\ lease.left < Skew[q]
    BY DEF vars
  <2>1. lease' # lease
    OBVIOUS
  <2>2. CASE \E t \in Tasks :
               \/ AppendLedgerTask(t) \/ DirectSend(t) \/ DirectMark(t) \/ DirectLost(t)
               \/ LateRecord(t)
    BY <2>1, <2>2 DEF AppendLedgerTask, DirectSend, DirectMark, DirectLost, LateRecord, leaseVars
  <2>3. CASE Tick
    BY <2>3 DEF Tick, TypeOK
  <2>4. CASE \E q \in Pods : Loop(q) \/ LeaseError(q) \/ Stop(q) \/ Crash(q)
    <3>1. PICK q \in Pods : Loop(q) \/ LeaseError(q) \/ Stop(q) \/ Crash(q)
      BY <2>4
    <3>2. CASE TryAcquireOrRenew(q) \/ LeaseError(q)
      <4>1. lease' = Held(q) /\ LeaseIsFree(q)
        BY <2>1, <3>2 DEF TryAcquireOrRenew, LeaseError
      <4> QED BY <4>1 DEF Held, LeaseIsFree
    <3>3. CASE Shutdown(q)
      <4>1. lease' = IF lease.holder = q THEN [holder |-> None, left |-> -1] ELSE lease
        BY <2>1, <3>3 DEF Shutdown, Release
      <4>2. q = p
        BY <2>1, <4>1
      <4> QED BY <3>3, <4>2 DEF Shutdown, Down, Goto, TypeOK
    <3> QED BY <2>1, <3>1, <3>2, <3>3 
       DEF Loop, EnsureDocExists, Fetch, Send, Mark, Restart, Stop, Crash, leaseVars
  <2> QED BY <2>2, <2>3, <2>4 DEF Next
<1> QED BY <1>1, TypeCorrect, PTL DEF Spec, LeaseLostFairly

-----------------------------------------------------------------------------
(* The bound on the retry count.  The relays that hold a task, and those   *)
(* of them that will not give it up when they fail once more.              *)
Holders(t) == {p \in Pods : t \in batch[p]}
Hopeful(t) == {p \in Holders(t) : seen[p][t] + 1 < MaxRetries}
Undecided(t) == status[t] \in {"absent", "pending"}

(* Near the limit every increment still to come is spoken for: before the  *)
(* task is decided by the relays that read it in time, afterwards by those *)
(* that hold it; nobody fetches it any more.                               *)
SpokenFor(t) ==
    /\ Undecided(t) /\ retries[t] + 1 >= MaxRetries =>
         retries[t] + Cardinality(Hopeful(t)) <= MaxRetries - 2 + Cardinality(Pods)
    /\ ~Undecided(t) =>
         retries[t] + Cardinality(Holders(t)) <= MaxRetries - 2 + 2 * Cardinality(Pods)
FailuresSpokenFor == \A t \in Tasks : SpokenFor(t)

(* Counting relays: a set of pods is no larger than Pods or than a set     *)
(* that contains it, and a member leaves it one smaller.                   *)
LEMMA PodCounts ==
    /\ Cardinality(Pods) \in Nat /\ Cardinality(Pods) >= 1
    /\ \A S \in SUBSET Pods : Cardinality(S) \in Nat /\ Cardinality(S) <= Cardinality(Pods)
    /\ \A S, T \in SUBSET Pods : S \subseteq T => Cardinality(S) <= Cardinality(T)
    /\ \A S \in SUBSET Pods : \A p \in S : Cardinality(S \ {p}) = Cardinality(S) - 1
<1>1. \A S \in SUBSET Pods : IsFiniteSet(S) /\ Cardinality(S) \in Nat
  BY PodsAssumption, FS_Subset, FS_CardinalityType DEF PodsAssumption
<1>2. \A S, T \in SUBSET Pods : S \subseteq T => Cardinality(S) <= Cardinality(T)
  BY <1>1, FS_Subset
<1>3. \A S \in SUBSET Pods : \A p \in S : Cardinality(S \ {p}) = Cardinality(S) - 1
  BY <1>1, FS_RemoveElement
<1>4. Cardinality(Pods) >= 1
  <2>1. IsFiniteSet(Pods) /\ Cardinality(Pods) \in Nat /\ Pods # {}
    BY <1>1, PodsAssumption DEF PodsAssumption
  <2>2. Cardinality(Pods) # 0
    BY <2>1, FS_EmptySet
  <2> QED BY <2>1, <2>2
<1> QED BY <1>1, <1>2, <1>3, <1>4

(* A step that counts no failure keeps the account of a task, if the task  *)
(* is not reopened and gains no holder but one that sees the limit.        *)
LEMMA SpokenStays ==
    ASSUME RelayAssumption, TypeOK, NEW t \in Tasks, SpokenFor(t), retries'[t] = retries[t],
           Undecided(t)' => Undecided(t),
           ~Undecided(t)' => Undecided(t) \/ Holders(t)' \subseteq Holders(t),
           retries[t] + 1 >= MaxRetries => Hopeful(t)' \subseteq Hopeful(t)
    PROVE  SpokenFor(t)'
<1> DEFINE P == Cardinality(Pods)
           h == Cardinality(Holders(t))   e == Cardinality(Hopeful(t))
<1>1. /\ Holders(t) \in SUBSET Pods /\ Holders(t)' \in SUBSET Pods
      /\ Hopeful(t) \in SUBSET Pods /\ Hopeful(t)' \in SUBSET Pods
  BY DEF Holders, Hopeful
<1>2. P \in Nat /\ P >= 1 /\ h \in Nat /\ h' \in Nat /\ e \in Nat /\ e' \in Nat /\ h' <= P
  BY <1>1, PodCounts
<1>3. /\ retries[t] + 1 >= MaxRetries => e' <= e
      /\ ~Undecided(t)' => Undecided(t) \/ h' <= h
  BY <1>1, PodCounts
<1>4. retries[t] \in Nat /\ MaxRetries \in Nat
  BY DEF TypeOK, RelayAssumption
<1>5. /\ Undecided(t) /\ retries[t] + 1 >= MaxRetries => retries[t] + e <= MaxRetries - 2 + P
      /\ ~Undecided(t) => retries[t] + h <= MaxRetries - 2 + 2 * P
  BY DEF SpokenFor
<1>6. /\ Undecided(t)' /\ retries[t] + 1 >= MaxRetries => retries[t] + e' <= MaxRetries - 2 + P
      /\ ~Undecided(t)' => retries[t] + h' <= MaxRetries - 2 + 2 * P
  <2> HIDE DEF P, h, e
  <2> QED BY <1>2, <1>3, <1>4, <1>5
<1> QED BY <1>6 DEF SpokenFor

(* A failure of p that is counted keeps the account of its task: p was one *)
(* of the hopeful, or it gives the task up.                                *)
LEMMA SpokenCounted ==
    ASSUME RelayAssumption, TypeOK, CountsAreStale, NEW t \in Tasks, SpokenFor(t), NEW p \in Holders(t),
           retries'[t] = retries[t] + 1, Holders(t)' = Holders(t) \ {p},
           \/ p \in Hopeful(t) /\ Hopeful(t)' = Hopeful(t) \ {p} /\ (Undecided(t)' <=> Undecided(t))
           \/ p \notin Hopeful(t) /\ ~Undecided(t)'
    PROVE  SpokenFor(t)'
<1> DEFINE P == Cardinality(Pods)
           h == Cardinality(Holders(t))   e == Cardinality(Hopeful(t))
<1>1. Holders(t) \in SUBSET Pods /\ Hopeful(t) \in SUBSET Pods /\ p \in Pods
  BY DEF Holders, Hopeful
<1>2. P \in Nat /\ P >= 1 /\ h \in Nat /\ e \in Nat /\ h <= P /\ e <= P /\ h' = h - 1
  BY <1>1, PodCounts
<1>3. retries[t] \in Nat /\ MaxRetries \in Nat /\ seen[p][t] \in Nat /\ seen[p][t] <= retries[t]
  BY <1>1 DEF TypeOK, RelayAssumption, CountsAreStale
<1>4. /\ Undecided(t) /\ retries[t] + 1 >= MaxRetries => retries[t] + e <= MaxRetries - 2 + P
      /\ ~Undecided(t) => retries[t] + h <= MaxRetries - 2 + 2 * P
  BY DEF SpokenFor
<1>5. CASE p \in Hopeful(t) /\ Hopeful(t)' = Hopeful(t) \ {p} /\ (Undecided(t)' <=> Undecided(t))
  <2>1. e' = e - 1
    BY <1>1, <1>5, PodCounts
  <2>2. /\ Undecided(t)' /\ retries[t] + 2 >= MaxRetries => retries[t] + 1 + e' <= MaxRetries - 2 + P
        /\ ~Undecided(t)' => retries[t] + 1 + h' <= MaxRetries - 2 + 2 * P
    <3> HIDE DEF P, h, e
    <3> QED BY <1>2, <1>3, <1>4, <1>5, <2>1
  <2> QED BY <1>3, <2>2 DEF SpokenFor
<1>6. CASE p \notin Hopeful(t) /\ ~Undecided(t)'
  <2>1. seen[p][t] + 1 >= MaxRetries
    BY <1>3, <1>6 DEF Hopeful
  <2>2. retries[t] + 1 + h' <= MaxRetries - 2 + 2 * P
    <3> HIDE DEF P, h, e
    <3> QED BY <1>2, <1>3, <1>4, <2>1
  <2> QED BY <1>6, <2>2 DEF SpokenFor
<1> QED BY <1>5, <1>6

(* Every step keeps the account of every task.                             *)
LEMMA StepKeepsAccount ==
    ASSUME RelayAssumption, RelayInv, FailuresSpokenFor, [Next]_vars
    PROVE  FailuresSpokenFor'
<1>0. TypeOK /\ CountsAreStale /\ BatchInHand /\ \A t \in Tasks : SpokenFor(t)
  BY DEF RelayInv, FailuresSpokenFor
<1> SUFFICES ASSUME NEW t \in Tasks PROVE SpokenFor(t)'
  BY DEF FailuresSpokenFor
<1>1. CASE UNCHANGED <<batch, seen, retries>> /\ (Undecided(t)' => Undecided(t))
  BY <1>0, <1>1, SpokenStays DEF Holders, Hopeful
<1>2. ASSUME NEW u \in Tasks,
             \/ AppendLedgerTask(u) \/ DirectSend(u) \/ DirectMark(u) \/ DirectLost(u) \/ LateRecord(u)
      PROVE  UNCHANGED <<batch, seen, retries>> /\ (Undecided(t)' => Undecided(t))
  BY <1>0, <1>2 DEF AppendLedgerTask, DirectSend, DirectMark, DirectLost, LateRecord, Undecided, TypeOK,
     storeVars, loopVars
<1>3. ASSUME NEW p \in Pods,
             \/ EnsureDocExists(p) \/ TryAcquireOrRenew(p) \/ Send(p) \/ Restart(p)
             \/ LeaseError(p) \/ Stop(p)
      PROVE  UNCHANGED <<batch, seen, retries>> /\ (Undecided(t)' => Undecided(t))
  BY <1>3 DEF EnsureDocExists, TryAcquireOrRenew, Send, Restart, LeaseError, Stop, Undecided, storeVars, loopVars
<1>4. CASE UNCHANGED vars \/ Tick
  BY <1>1, <1>4 DEF Tick, Undecided, vars, storeVars, loopVars
<1>5. ASSUME NEW p \in Pods, Shutdown(p) \/ Crash(p) PROVE SpokenFor(t)'
  <2>1. /\ UNCHANGED <<status, retries>> /\ batch' = [batch EXCEPT ![p] = {}]
        /\ \A q \in Pods : q # p => seen'[q] = seen[q]
    BY <1>0, <1>5 DEF Shutdown, Crash, Down, storeVars, TypeOK
  <2>2. Holders(t)' \subseteq Holders(t) /\ Hopeful(t)' \subseteq Hopeful(t)
    BY <1>0, <2>1 DEF Holders, Hopeful, TypeOK
  <2>3. Undecided(t)' <=> Undecided(t)
    BY <2>1 DEF Undecided
  <2> QED BY <1>0, <2>1, <2>2, <2>3, SpokenStays
<1>6. ASSUME NEW p \in Pods, Fetch(p) PROVE SpokenFor(t)'
  <2>1. UNCHANGED <<status, retries>>
    BY <1>6 DEF Fetch, storeVars
  <2>2. Undecided(t)' <=> Undecided(t)
    BY <2>1 DEF Undecided
  <2>3. CASE UNCHANGED <<batch, seen>>
    BY <1>1, <2>1, <2>2, <2>3
  <2>4. CASE /\ batch' = [batch EXCEPT ![p] = FindPending]
             /\ seen' = [seen EXCEPT ![p] =
                           [u \in Tasks |-> IF u \in FindPending THEN retries[u] ELSE 0]]
    <3>1. t \in FindPending => Undecided(t)
      BY DEF FindPending, Pending, Undecided
    <3>2. /\ batch'[p] = FindPending /\ (t \in FindPending => seen'[p][t] = retries[t])
          /\ \A q \in Pods : q # p => batch'[q] = batch[q] /\ seen'[q] = seen[q]
      BY <1>0, <2>4 DEF TypeOK
    <3>3. ~Undecided(t) => Holders(t)' \subseteq Holders(t)
      BY <3>1, <3>2 DEF Holders
    <3>4. retries[t] + 1 >= MaxRetries => Hopeful(t)' \subseteq Hopeful(t)
      <4> SUFFICES ASSUME retries[t] + 1 >= MaxRetries, NEW q \in Hopeful(t)'
                   PROVE  q \in Hopeful(t)
        OBVIOUS
      <4>1. q \in Pods /\ t \in batch'[q] /\ seen'[q][t] + 1 < MaxRetries
        BY DEF Hopeful, Holders
      <4>2. retries[t] \in Nat /\ MaxRetries \in Nat
        BY <1>0 DEF TypeOK, RelayAssumption
      <4>3. q # p
        BY <3>2, <4>1, <4>2
      <4> QED BY <3>2, <4>1, <4>3 DEF Hopeful, Holders
    <3> QED BY <1>0, <2>1, <2>2, <3>3, <3>4, SpokenStays
  <2> QED BY <1>6, <2>3, <2>4 DEF Fetch
<1>7. ASSUME NEW p \in Pods, Mark(p) PROVE SpokenFor(t)'
  <2> DEFINE c == Current(p)
  <2>1. batch[p] # {} /\ c \in batch[p] /\ c \in Tasks
    <3>1. batch[p] # {}
      BY <1>0, <1>7 DEF Mark, BatchInHand
    <3> QED BY <1>0, <3>1, CurrentInBatch DEF Current
  <2> HIDE DEF c
  <2>2. batch' = [batch EXCEPT ![p] = batch[p] \ {c}] /\ seen' = [seen EXCEPT ![p][c] = 0]
    BY <1>7 DEF Mark, c
  <2>3. /\ batch'[p] = batch[p] \ {c}
        /\ \A q \in Pods : q # p => batch'[q] = batch[q] /\ seen'[q] = seen[q]
        /\ \A u \in Tasks : u # c => seen'[p][u] = seen[p][u]
    BY <1>0, <2>1, <2>2 DEF TypeOK
  <2>4. Holders(t)' = (IF t = c THEN Holders(t) \ {p} ELSE Holders(t))
    BY <2>3 DEF Holders
  <2>5. Hopeful(t)' = (IF t = c THEN Hopeful(t) \ {p} ELSE Hopeful(t))
    BY <2>3, <2>4 DEF Hopeful, Holders
  <2>6. CASE UNCHANGED retries /\ (Undecided(t)' => Undecided(t))
    BY <1>0, <2>4, <2>5, <2>6, SpokenStays
  <2>7. CASE pc[p] # "completed" /\ Marked(p)
    <3>1. /\ retries' = [retries EXCEPT ![c] = @ + 1]
          /\ status' = IF seen[p][c] + 1 >= MaxRetries THEN [status EXCEPT ![c] = "failed"] ELSE status
      BY <2>7 DEF Marked, GivesUp, c
    <3>2. CASE t # c
      <4>1. retries'[t] = retries[t] /\ (Undecided(t)' <=> Undecided(t))
        BY <1>0, <2>1, <3>1, <3>2 DEF TypeOK, Undecided
      <4> QED BY <1>0, <2>4, <2>5, <3>2, <4>1, SpokenStays
    <3>3. CASE t = c
      <4>1. p \in Holders(t) /\ retries'[t] = retries[t] + 1 /\ seen[p][t] \in Nat /\ MaxRetries \in Nat
        BY <1>0, <2>1, <3>1, <3>3 DEF TypeOK, Holders, RelayAssumption
      <4>2. CASE seen[p][t] + 1 >= MaxRetries
        <5>1. p \notin Hopeful(t)
          BY <4>1, <4>2 DEF Hopeful
        <5>2. ~Undecided(t)'
          BY <1>0, <2>1, <3>1, <3>3, <4>2 DEF Undecided, TypeOK
        <5> QED BY <1>0, <2>4, <3>3, <4>1, <5>1, <5>2, SpokenCounted
      <4>3. CASE ~(seen[p][t] + 1 >= MaxRetries)
        <5>1. p \in Hopeful(t)
          BY <4>1, <4>3 DEF Hopeful
        <5>2. Undecided(t)' <=> Undecided(t)
          BY <3>1, <3>3, <4>3 DEF Undecided
        <5> QED BY <1>0, <2>4, <2>5, <3>3, <4>1, <5>1, <5>2, SpokenCounted
      <4> QED BY <4>2, <4>3
    <3> QED BY <3>2, <3>3
  <2>8. CASE pc[p] = "completed" /\ Marked(p)
    <3>1. UNCHANGED retries /\ status' = [status EXCEPT ![c] = "completed"]
      BY <2>8 DEF Marked, c
    <3>2. Undecided(t)' => Undecided(t)
      BY <1>0, <2>1, <3>1 DEF Undecided, TypeOK
    <3> QED BY <2>6, <3>1, <3>2
  <2>9. CASE UNCHANGED storeVars
    BY <2>6, <2>9 DEF storeVars, Undecided
  <2> QED BY <1>7, <2>7, <2>8, <2>9 DEF Mark
<1>8. CASE Next
  <2>1. CASE \E u \in Tasks : \/ AppendLedgerTask(u) \/ DirectSend(u) \/ DirectMark(u) \/ DirectLost(u)
                              \/ LateRecord(u)
    BY <1>1, <1>2, <2>1
  <2>2. CASE \E p \in Pods : Loop(p) \/ LeaseError(p) \/ Stop(p) \/ Crash(p)
    BY <1>1, <1>3, <1>5, <1>6, <1>7, <2>2 DEF Loop
  <2> QED BY <1>4, <1>8, <2>1, <2>2 DEF Next
<1> QED BY <1>4, <1>8

(* However the batches of several relays overlap, the retry count of a     *)
(* task stays bounded by the number of relays that can act on a stale one. *)
THEOREM RetriesStayBounded == Spec => []RetriesBounded
<1>1. Init => FailuresSpokenFor
  <2> SUFFICES ASSUME Init, NEW t \in Tasks PROVE SpokenFor(t)
    BY DEF FailuresSpokenFor
  <2>1. Undecided(t) /\ retries[t] = 0 /\ Hopeful(t) = {}
    BY DEF Init, Undecided, Nothing, Hopeful, Holders
  <2>2. Cardinality(Hopeful(t)) = 0
    BY <2>1, FS_EmptySet
  <2>3. MaxRetries \in Nat \ {0} /\ Cardinality(Pods) \in Nat /\ Cardinality(Pods) >= 1
    BY RelayAssumption, PodCounts DEF RelayAssumption
  <2> QED BY <2>1, <2>2, <2>3 DEF SpokenFor
<1>2. RelayInv /\ FailuresSpokenFor /\ [Next]_vars => FailuresSpokenFor'
  BY RelayAssumption, StepKeepsAccount
<1>3. RelayInv /\ FailuresSpokenFor => RetriesBounded
  <2> SUFFICES ASSUME RelayInv, FailuresSpokenFor, NEW t \in Tasks
               PROVE  retries[t] <= MaxRetries - 2 + 2 * Cardinality(Pods)
    BY DEF RetriesBounded
  <2>1. Holders(t) \in SUBSET Pods /\ Hopeful(t) \in SUBSET Pods /\ SpokenFor(t)
    BY DEF Holders, Hopeful, FailuresSpokenFor
  <2>2. /\ Cardinality(Pods) \in Nat /\ Cardinality(Pods) >= 1
        /\ Cardinality(Holders(t)) \in Nat /\ Cardinality(Hopeful(t)) \in Nat
    BY <2>1, PodCounts
  <2>3. retries[t] \in Nat /\ MaxRetries \in Nat
    BY RelayAssumption DEF RelayInv, TypeOK, RelayAssumption
  <2> QED BY <2>1, <2>2, <2>3 DEF SpokenFor
<1> QED BY <1>1, <1>2, <1>3, RelayInvariant, PTL DEF Spec
=============================================================================
