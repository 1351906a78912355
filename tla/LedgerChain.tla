---------------------------- MODULE LedgerChain ----------------------------
(***************************************************************************)
(* RecordTransaction and VerifyAuditChain of the ledger service            *)
(* (cmd/ledger-service/main.go, double_entry.go), run by several pods over *)
(* one MongoDB collection "ledger_entries".                                *)
(*                                                                         *)
(* A call is one RPC, handled by one goroutine of one pod.  Within a pod   *)
(* seqMu serialises "read the head, then insert"; between pods only the    *)
(* unique indexes on idempotency_key, sequence_number and _id protect the  *)
(* chain.  Every database operation may fail, an insert may be applied     *)
(* although its caller sees an error (the 3 s deadline of the wallet's     *)
(* client expires, the connection breaks), and a pod may crash.            *)
(*                                                                         *)
(* SHA-256 is modelled as an injective function: the hash of an entry is   *)
(* the sequence of everything sealed so far.                               *)
(***************************************************************************)
EXTENDS DoubleEntry, FiniteSets, Functions

CONSTANTS
    Calls,             \* RecordTransaction RPCs
    Pods,              \* replicas of the ledger service
    PodOf,             \* [Calls -> Pods]
    Requests,          \* the requests a call may carry
    Keys, Txns,        \* idempotency keys and transaction ids
    None,              \* "no call holds the mutex", "no request yet"
    MaxInsertRetries,  \* 5 in the code
    Faults             \* may database operations fail and pods crash?

ASSUME LedgerAssumption ==
    /\ PodOf \in [Calls -> Pods]
    /\ None \notin Calls
    /\ MaxInsertRetries \in Nat \ {0}
    /\ Faults \in BOOLEAN
    /\ Requests \subseteq
         [key : Keys, txn : Txns, src : Accounts, dst : Accounts, amt : Int,
          cur : Currencies, damt : Int, dcur : Currencies \cup {NoCurrency}]

VARIABLES
    entries,    \* the documents of ledger_entries
    audit,      \* transaction ids whose AUDIT event is in ledger_outbox
    seqMu,      \* [Pods -> Calls \cup {None}], the holder of server.seqMu
    pc,         \* where each call is
    req,        \* the request of each call
    seqNumber, prevHash,  \* locals: the head as the call last read it
    attempt,    \* failed insert attempts of each call
    reply,      \* [Calls -> reply sent to the client]
    scan        \* the cursor of VerifyAuditChain

callVars == <<pc, req, seqNumber, prevHash, attempt, reply>>
vars == <<entries, audit, seqMu, callVars, scan>>

-----------------------------------------------------------------------------
GenesisHash == << >>

Seals == [seq : Nat, txn : Txns, key : Keys, postings : Seq(Postings)]

ComputeEntryHash(prev, n, t, k, ps) ==
    Append(prev, [seq |-> n, txn |-> t, key |-> k, postings |-> ps])

(* The document call c is about to insert.                                 *)
NewEntry(c) ==
    LET ps == CreateMultiCurrencyTransferPostings(req[c]) IN
    [seq |-> seqNumber[c], txn |-> req[c].txn, key |-> req[c].key,
     postings |-> ps, prev |-> prevHash[c],
     hash |-> ComputeEntryHash(prevHash[c], seqNumber[c], req[c].txn, req[c].key, ps)]

Entries ==
    [seq : Nat \ {0}, txn : Txns, key : Keys, postings : Seq(Postings),
     prev : Seq(Seals), hash : Seq(Seals)]

(* Mutants: an index is missing.                                           *)
ConflictsWithoutSequenceIndex(d, e) == d.key = e.key \/ d.txn = e.txn
ConflictsWithoutKeyIndex(d, e) == d.seq = e.seq \/ d.txn = e.txn

(* The unique indexes of EnsureLedgerIndexes, and _id.                     *)
Conflicts(d, e) == d.key = e.key \/ d.seq = e.seq \/ d.txn = e.txn

IsDuplicate(c) == \E d \in entries : Conflicts(d, NewEntry(c))

Recorded(k) == {e \in entries : e.key = k}

IsHead(d) == d \in entries /\ \A e \in entries : e.seq <= d.seq

NoReply == [status |-> "none", txn |-> None]
Success(t) == [status |-> "success", txn |-> t]
Failure == [status |-> "failure", txn |-> None]

(* from is history: the entries present when the scan began.               *)
IdleScan == [pc |-> "idle", expectedSeq |-> 1, expectedPrev |-> GenesisHash,
             seen |-> {}, status |-> "none", from |-> {}]

Scans ==
    [pc : {"idle", "scanning", "done"}, expectedSeq : Nat \ {0},
     expectedPrev : Seq(Seals), seen : SUBSET Entries, from : SUBSET Entries,
     status : {"none", "VERIFIED", "CORRUPTED", "TRIAL_BALANCE_UNBALANCED"}]

PCs == {"idle", "check", "lock", "insert", "dup", "exhausted", "audit", "done"}

TypeOK ==
    /\ entries \in SUBSET Entries
    /\ audit \in SUBSET Txns
    /\ seqMu \in [Pods -> Calls \cup {None}]
    /\ pc \in [Calls -> PCs]
    /\ req \in [Calls -> Requests \cup {None}]
    /\ \A c \in Calls : pc[c] \notin {"idle", "done"} => req[c] \in Requests
    /\ seqNumber \in [Calls -> Nat \ {0}]
    /\ prevHash \in [Calls -> Seq(Seals)]
    /\ attempt \in [Calls -> 0 .. MaxInsertRetries]
    /\ \A c \in Calls : pc[c] \in {"idle", "check", "lock", "insert", "dup"}
                         => attempt[c] < MaxInsertRetries
    /\ reply \in [Calls -> [status : {"none", "success", "failure"},
                            txn : Txns \cup {None}]]
    /\ scan \in Scans

Init ==
    /\ entries = {}
    /\ audit = {}
    /\ seqMu = [p \in Pods |-> None]
    /\ pc = [c \in Calls |-> "idle"]
    /\ req = [c \in Calls |-> None]
    /\ seqNumber = [c \in Calls |-> 1]
    /\ prevHash = [c \in Calls |-> GenesisHash]
    /\ attempt = [c \in Calls |-> 0]
    /\ reply = [c \in Calls |-> NoReply]
    /\ scan = IdleScan

-----------------------------------------------------------------------------
Return(c, r) ==
    /\ pc' = [pc EXCEPT ![c] = "done"]
    /\ reply' = [reply EXCEPT ![c] = r]

Goto(c, l) ==
    /\ pc' = [pc EXCEPT ![c] = l]
    /\ UNCHANGED reply

(* A request arrives; invalid amounts are refused before any I/O.          *)
Receive(c) ==
    /\ pc[c] = "idle"
    /\ \E r \in Requests :
         /\ req' = [req EXCEPT ![c] = r]
         /\ IF ValidRequest(r) THEN Goto(c, "check") ELSE Return(c, Failure)
    /\ UNCHANGED <<entries, audit, seqMu, seqNumber, prevHash, attempt, scan>>

(* checkDuplicateTransaction finds the key: the stored id is returned.     *)
ReplayStored(c) ==
    /\ pc[c] = "check"
    /\ \E e \in Recorded(req[c].key) : Return(c, Success(e.txn))
    /\ UNCHANGED <<entries, audit, seqMu, req, seqNumber, prevHash, attempt, scan>>

(* It finds nothing, or the query fails, which the code takes for the same. *)
NoDuplicateSeen(c) ==
    /\ pc[c] = "check"
    /\ Recorded(req[c].key) = {} \/ Faults
    /\ IF ValidatePostings(CreateMultiCurrencyTransferPostings(req[c]))
       THEN Goto(c, "lock") ELSE Return(c, Failure)
    /\ UNCHANGED <<entries, audit, seqMu, req, seqNumber, prevHash, attempt, scan>>

(* Mutant: seqMu is not taken.                                             *)
LockIgnored(c) ==
    /\ pc[c] = "lock"
    /\ seqMu' = [seqMu EXCEPT ![PodOf[c]] = c]
    /\ Goto(c, "insert")

Lock(c) ==
    /\ pc[c] = "lock"
    /\ seqMu[PodOf[c]] = None
    /\ seqMu' = [seqMu EXCEPT ![PodOf[c]] = c]
    /\ Goto(c, "insert")

Unlock(c) == seqMu' = [seqMu EXCEPT ![PodOf[c]] = None]

(* seqMu.Lock and getPreviousSequenceAndHash.                              *)
ReadHead(c) ==
    /\ Lock(c)
    /\ \E d \in entries :
         /\ IsHead(d)
         /\ seqNumber' = [seqNumber EXCEPT ![c] = d.seq + 1]
         /\ prevHash' = [prevHash EXCEPT ![c] = d.hash]
    /\ UNCHANGED <<entries, audit, req, attempt, scan>>

(* No entry yet, or the query fails: the code falls back to the genesis.   *)
ReadHeadMiss(c) ==
    /\ Lock(c)
    /\ entries = {} \/ Faults
    /\ seqNumber' = [seqNumber EXCEPT ![c] = 1]
    /\ prevHash' = [prevHash EXCEPT ![c] = GenesisHash]
    /\ UNCHANGED <<entries, audit, req, attempt, scan>>

InsertOK(c) ==
    /\ pc[c] = "insert"
    /\ ~IsDuplicate(c)
    /\ entries' = entries \cup {NewEntry(c)}
    /\ Unlock(c)
    /\ Goto(c, "audit")
    /\ UNCHANGED <<audit, req, seqNumber, prevHash, attempt, scan>>

(* Mutant: the error path leaves seqMu locked.                             *)
InsertDuplicateKeepsLock(c) ==
    /\ pc[c] = "insert"
    /\ IsDuplicate(c)
    /\ Goto(c, "dup")
    /\ UNCHANGED <<entries, audit, seqMu, req, seqNumber, prevHash, attempt, scan>>

InsertDuplicate(c) ==
    /\ pc[c] = "insert"
    /\ IsDuplicate(c)
    /\ Unlock(c)
    /\ Goto(c, "dup")
    /\ UNCHANGED <<entries, audit, req, seqNumber, prevHash, attempt, scan>>

(* The insert is not applied and fails with another error.                 *)
InsertFails(c) ==
    /\ Faults
    /\ pc[c] = "insert"
    /\ Unlock(c)
    /\ Return(c, Failure)
    /\ UNCHANGED <<entries, audit, req, seqNumber, prevHash, attempt, scan>>

(* The insert is applied but its acknowledgement is lost.                  *)
InsertUnacknowledged(c) ==
    /\ Faults
    /\ pc[c] = "insert"
    /\ ~IsDuplicate(c)
    /\ entries' = entries \cup {NewEntry(c)}
    /\ Unlock(c)
    /\ Return(c, Failure)
    /\ UNCHANGED <<audit, req, seqNumber, prevHash, attempt, scan>>

(* Mutant: the caller is told its own transaction id, not the stored one.  *)
ReplayReturnsRequestId(c) ==
    /\ pc[c] \in {"dup", "exhausted"}
    /\ Recorded(req[c].key) # {}
    /\ Return(c, Success(req[c].txn))
    /\ UNCHANGED <<entries, audit, seqMu, req, seqNumber, prevHash, attempt, scan>>

(* A duplicate key error whose key is already stored is a replay, whether  *)
(* found in the loop or by handleInsertError after the last attempt.       *)
DuplicateIsReplay(c) ==
    /\ pc[c] \in {"dup", "exhausted"}
    /\ \E e \in Recorded(req[c].key) : Return(c, Success(e.txn))
    /\ UNCHANGED <<entries, audit, seqMu, req, seqNumber, prevHash, attempt, scan>>

(* Mutant: one attempt more than maxInsertRetries.                         *)
CollisionRetriesOnceMore(c) ==
    /\ pc[c] = "dup"
    /\ Recorded(req[c].key) = {} \/ Faults
    /\ attempt' = [attempt EXCEPT ![c] = @ + 1]
    /\ Goto(c, IF attempt[c] < MaxInsertRetries THEN "lock" ELSE "exhausted")
    /\ UNCHANGED <<entries, audit, seqMu, req, seqNumber, prevHash, scan>>

(* Otherwise the sequence number collided: retry with the latest head.     *)
DuplicateIsCollision(c) ==
    /\ pc[c] = "dup"
    /\ Recorded(req[c].key) = {} \/ Faults
    /\ attempt' = [attempt EXCEPT ![c] = @ + 1]
    /\ Goto(c, IF attempt[c] + 1 < MaxInsertRetries THEN "lock" ELSE "exhausted")
    /\ UNCHANGED <<entries, audit, seqMu, req, seqNumber, prevHash, scan>>

GiveUp(c) ==
    /\ pc[c] = "exhausted"
    /\ Recorded(req[c].key) = {} \/ Faults
    /\ Return(c, Failure)
    /\ UNCHANGED <<entries, audit, seqMu, req, seqNumber, prevHash, attempt, scan>>

(* outbox.Append of ledger.transaction.persisted, after the insert and     *)
(* outside any transaction.                                                *)
AppendAudit(c) ==
    /\ pc[c] = "audit"
    /\ audit' = audit \cup {req[c].txn}
    /\ Return(c, Success(req[c].txn))
    /\ UNCHANGED <<entries, seqMu, req, seqNumber, prevHash, attempt, scan>>

AppendAuditFails(c) ==
    /\ Faults
    /\ pc[c] = "audit"
    /\ Return(c, Failure)
    /\ UNCHANGED <<entries, audit, seqMu, req, seqNumber, prevHash, attempt, scan>>

(* A pod dies: its calls fail, its mutex is gone.                          *)
Crash(p) ==
    LET hit == {c \in Calls : PodOf[c] = p /\ pc[c] \notin {"idle", "done"}} IN
    /\ Faults
    /\ hit # {}
    /\ pc' = [c \in Calls |-> IF c \in hit THEN "done" ELSE pc[c]]
    /\ reply' = [c \in Calls |-> IF c \in hit THEN Failure ELSE reply[c]]
    /\ seqMu' = [seqMu EXCEPT ![p] = None]
    /\ UNCHANGED <<entries, audit, req, seqNumber, prevHash, attempt, scan>>

-----------------------------------------------------------------------------
(* VerifyAuditChain: an ascending cursor that is not a snapshot, so it     *)
(* runs while entries are being added.                                     *)
VerifyStart ==
    /\ scan.pc # "scanning"
    /\ scan' = [IdleScan EXCEPT !.pc = "scanning", !.from = entries]
    /\ UNCHANGED <<entries, audit, seqMu, callVars>>

Unread == {e \in entries \ scan.seen : \A s \in scan.seen : s.seq <= e.seq}

(* verifyDocIntegrity.                                                     *)
DocIntegrity(e) ==
    /\ e.seq = scan.expectedSeq
    /\ e.prev = scan.expectedPrev
    /\ e.hash = ComputeEntryHash(e.prev, e.seq, e.txn, e.key, e.postings)
    /\ ValidatePostings(e.postings)

VerifyNext ==
    /\ scan.pc = "scanning"
    /\ \E e \in Unread :
         /\ \A d \in Unread : e.seq <= d.seq
         /\ scan' = IF DocIntegrity(e)
                    THEN [scan EXCEPT !.expectedSeq = @ + 1, !.expectedPrev = e.hash,
                                      !.seen = @ \cup {e}]
                    ELSE [scan EXCEPT !.pc = "done", !.status = "CORRUPTED"]
    /\ UNCHANGED <<entries, audit, seqMu, callVars>>

TrialTotal(es, d, c) == SumFunction([e \in es |-> Total(e.postings, d, c)])

(* checkTrialBalanceEquilibrium looks at the currencies that were debited. *)
Balanced(es) ==
    \A c \in Currencies : TrialTotal(es, "DEBIT", c) # 0 =>
        TrialTotal(es, "DEBIT", c) = TrialTotal(es, "CREDIT", c)

(* Mutant: the scan may stop after any page.                               *)
VerifyEndsEarly ==
    /\ scan.pc = "scanning"
    /\ scan' = [scan EXCEPT !.pc = "done", !.status = "VERIFIED"]
    /\ UNCHANGED <<entries, audit, seqMu, callVars>>

(* cursor.Next returned false: the entries are exhausted or the query      *)
(* failed, which the code does not tell apart (cursor.Err is not read).    *)
VerifyEnd ==
    /\ scan.pc = "scanning"
    /\ Unread = {} \/ Faults
    /\ scan' = [scan EXCEPT
                  !.pc = "done",
                  !.status = IF Balanced(scan.seen) THEN "VERIFIED"
                             ELSE "TRIAL_BALANCE_UNBALANCED"]
    /\ UNCHANGED <<entries, audit, seqMu, callVars>>

-----------------------------------------------------------------------------
Step(c) ==
    \/ ReplayStored(c) \/ NoDuplicateSeen(c) \/ ReadHead(c) \/ ReadHeadMiss(c)
    \/ InsertOK(c) \/ InsertDuplicate(c) \/ InsertFails(c) \/ InsertUnacknowledged(c)
    \/ DuplicateIsReplay(c) \/ DuplicateIsCollision(c) \/ GiveUp(c)
    \/ AppendAudit(c) \/ AppendAuditFails(c)

Next ==
    \/ \E c \in Calls : Receive(c) \/ Step(c)
    \/ \E p \in Pods : Crash(p)
    \/ VerifyStart \/ VerifyNext \/ VerifyEnd

Spec == Init /\ [][Next]_vars

(* A handler goroutine that can take its next step eventually takes it.    *)
FairSpec == Spec /\ \A c \in Calls : WF_vars(Step(c))
-----------------------------------------------------------------------------
(* Sequence numbers run from 1 without gap or repetition and every entry   *)
(* seals its predecessor, whatever pods insert, collide, fail or crash.    *)
ChainIntact ==
    /\ \A e \in entries : \A i \in 1 .. e.seq : \E d \in entries : d.seq = i
    /\ \A d, e \in entries : d.seq = e.seq => d = e
    /\ \A e \in entries : e.seq = 1 => e.prev = GenesisHash
    /\ \A d, e \in entries : e.seq = d.seq + 1 => e.prev = d.hash
    /\ \A e \in entries : e.hash = ComputeEntryHash(e.prev, e.seq, e.txn, e.key, e.postings)

(* A caller told "success, transaction t" can rely on the ledger holding    *)
(* its key under id t, on the first delivery and on every replay.          *)
AcknowledgedIsRecorded ==
    \A c \in Calls : reply[c].status = "success" =>
        \E e \in entries : e.key = req[c].key /\ e.txn = reply[c].txn

(* What makes the two invariants above inductive: the head a call is about *)
(* to extend is, or was, the head of this chain, a call appends its audit  *)
(* event only after its entry is stored, and it answers once, at its end.  *)
HeadWasRead ==
    \A c \in Calls : pc[c] = "insert" =>
        \/ seqNumber[c] = 1 /\ prevHash[c] = GenesisHash
        \/ \E d \in entries : seqNumber[c] = d.seq + 1 /\ prevHash[c] = d.hash

StoredBeforeAudit ==
    \A c \in Calls : pc[c] = "audit" =>
        \E e \in entries : e.key = req[c].key /\ e.txn = req[c].txn

AnsweredWhenDone == \A c \in Calls : pc[c] # "done" => reply[c].status = "none"

ChainInv ==
    /\ ChainIntact /\ HeadWasRead /\ StoredBeforeAudit
    /\ AcknowledgedIsRecorded /\ AnsweredWhenDone

(* A ledger reported VERIFIED was read to the end: at least every entry    *)
(* present when the scan began has been checked.                           *)
VerifiedCoversLedger == scan.status = "VERIFIED" => scan.from \subseteq scan.seen

(* The verifier never reports a broken chain, because what it has read is  *)
(* exactly the part of the chain below expectedSeq, and every stored entry *)
(* and every entry about to be stored balances.                            *)
NoFalseCorruption == scan.status # "CORRUPTED"

PostingsBalance ==
    /\ \A e \in entries : ValidatePostings(e.postings)
    /\ \A c \in Calls : pc[c] \in {"lock", "insert", "dup"} =>
         ValidatePostings(CreateMultiCurrencyTransferPostings(req[c]))

ScanAligned ==
    scan.pc = "scanning" =>
      /\ scan.from \subseteq entries
      /\ scan.seen = {e \in entries : e.seq < scan.expectedSeq}
      /\ \/ scan.expectedSeq = 1 /\ scan.expectedPrev = GenesisHash
         \/ \E d \in scan.seen : scan.expectedSeq = d.seq + 1 /\ scan.expectedPrev = d.hash

VerifyInv ==
    /\ PostingsBalance /\ ScanAligned
    /\ NoFalseCorruption /\ (~Faults => VerifiedCoversLedger)

(* /audit/verify raises no false alarm when it scans a ledger that calls    *)
(* are writing to.                                                         *)
VerifierRaisesNoAlarm == scan.status \in {"none", "VERIFIED"}

(* When the database answers, a call loses an insert attempt only to an    *)
(* entry of another pod, one for each: one call's retry is another call's  *)
(* progress, and on one replica seqMu alone keeps the optimistic loop from *)
(* ever seeing a sequence number collision.                                *)
CollisionsComeFromOtherPods ==
    ~Faults => \A c \in Calls :
        attempt[c] <= Cardinality({d \in Calls : /\ PodOf[d] # PodOf[c]
                                                /\ \/ pc[d] = "audit"
                                                   \/ reply[d].status = "success"})

(* A received call is answered: no collision, lock wait or failure keeps   *)
(* RecordTransaction from returning.                                       *)
CallsReturn == \A c \in Calls : (pc[c] # "idle") ~> (pc[c] = "done")

(* The abstract journal that the documents and the replies represent.      *)
JournalLog ==
    [i \in 1 .. Cardinality(entries) |->
        LET e == CHOOSE d \in entries : d.seq = i IN [key |-> e.key, txn |-> e.txn]]

JournalAcked ==
    {<<req[c].key, reply[c].txn>> : c \in {d \in Calls : reply[d].status = "success"}}

Abstract == INSTANCE Journal WITH log <- JournalLog, acked <- JournalAcked

(* The pods together implement the abstract journal.                       *)
ImplementsJournal == Abstract!JournalSpec

-----------------------------------------------------------------------------
(* A claim of the documentation that the code does not keep; no run        *)
(* expects it to hold (README, section 4).                                 *)

(* Every persisted entry has its AUDIT event in ledger_outbox, or the call *)
(* that persisted it is about to append it.                                *)
NoAuditEventLost ==
    \A e \in entries : \/ e.txn \in audit
                       \/ \E c \in Calls : pc[c] = "audit" /\ req[c].txn = e.txn
=============================================================================
