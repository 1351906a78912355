------------------------ MODULE LedgerChain_proofs ------------------------
(***************************************************************************)
(* Type correctness of LedgerChain, the inductive argument for ChainIntact *)
(* and AcknowledgedIsRecorded, the verdicts of the verifier, the           *)
(* refinement of Journal, and the account of lost insert attempts, for any *)
(* number of pods, calls, keys and requests, with and without faults.      *)
(***************************************************************************)
EXTENDS LedgerChain, FiniteSetTheorems, TLAPS

(* Postings of a well-typed request are well typed.                        *)
LEMMA PostingsType ==
    ASSUME NEW r \in Requests
    PROVE  CreateMultiCurrencyTransferPostings(r) \in Seq(Postings)
<1>1. /\ r.src \in Accounts /\ r.dst \in Accounts
      /\ r.amt \in Int /\ r.damt \in Int
      /\ r.cur \in Currencies /\ r.dcur \in Currencies \cup {NoCurrency}
  BY LedgerAssumption
<1>2. ASSUME NEW a \in PostingAccounts, NEW d \in {"DEBIT", "CREDIT"},
             NEW n \in Int, NEW c \in Currencies
      PROVE  Posting(a, d, n, c) \in Postings
  BY DEF Posting, Postings
<1>3. r.src \in PostingAccounts /\ r.dst \in PostingAccounts
  BY <1>1 DEF PostingAccounts
<1>4. \A c \in Currencies : Pool(c) \in PostingAccounts
  BY DEF PostingAccounts
<1>5. CASE r.dcur \in {NoCurrency, r.cur} \/ r.damt <= 0
  <2>1. Posting(r.src, "DEBIT", r.amt, r.cur) \in Postings
    BY <1>1, <1>2, <1>3
  <2>2. Posting(r.dst, "CREDIT", r.amt, r.cur) \in Postings
    BY <1>1, <1>2, <1>3
  <2> QED
    BY <1>5, <2>1, <2>2 DEF CreateMultiCurrencyTransferPostings, CreateTransferPostings
<1>6. CASE ~(r.dcur \in {NoCurrency, r.cur} \/ r.damt <= 0)
  <2>1. r.dcur \in Currencies
    BY <1>1, <1>6
  <2>2. Posting(r.src, "DEBIT", r.amt, r.cur) \in Postings
    BY <1>1, <1>2, <1>3
  <2>3. Posting(Pool(r.cur), "CREDIT", r.amt, r.cur) \in Postings
    BY <1>1, <1>2, <1>4
  <2>4. Posting(Pool(r.dcur), "DEBIT", r.damt, r.dcur) \in Postings
    BY <1>1, <1>2, <1>4, <2>1
  <2>5. Posting(r.dst, "CREDIT", r.damt, r.dcur) \in Postings
    BY <1>1, <1>2, <1>3, <2>1
  <2> QED
    BY <1>6, <2>2, <2>3, <2>4, <2>5 DEF CreateMultiCurrencyTransferPostings
<1> QED
  BY <1>5, <1>6

(* The document a call inserts is well typed.                              *)
LEMMA NewEntryType ==
    ASSUME TypeOK, NEW c \in Calls, pc[c] = "insert"
    PROVE  NewEntry(c) \in Entries
<1>1. req[c] \in Requests
  BY DEF TypeOK
<1>2. req[c].txn \in Txns /\ req[c].key \in Keys
  BY <1>1, LedgerAssumption
<1>3. seqNumber[c] \in Nat \ {0} /\ prevHash[c] \in Seq(Seals)
  BY DEF TypeOK
<1> DEFINE ps == CreateMultiCurrencyTransferPostings(req[c])
<1>4. ps \in Seq(Postings)
  BY <1>1, PostingsType
<1> HIDE DEF ps
<1>5. [seq |-> seqNumber[c], txn |-> req[c].txn, key |-> req[c].key, postings |-> ps] \in Seals
  BY <1>2, <1>3, <1>4 DEF Seals
<1>6. ComputeEntryHash(prevHash[c], seqNumber[c], req[c].txn, req[c].key, ps) \in Seq(Seals)
  BY <1>3, <1>5 DEF ComputeEntryHash
<1> QED
  BY <1>2, <1>3, <1>4, <1>6 DEF NewEntry, Entries, ps

(* A request names a known key and a known transaction id.                 *)
LEMMA RequestFields ==
    ASSUME NEW r \in Requests
    PROVE  r.txn \in Txns /\ r.key \in Keys
BY LedgerAssumption

(* Every variable keeps its type along every behaviour.                    *)
THEOREM TypeCorrect == Spec => []TypeOK
<1> USE DEF PCs
<1>1. Init => TypeOK
  BY LedgerAssumption DEF Init, TypeOK, NoReply, IdleScan, GenesisHash, Scans
<1>2. TypeOK /\ [Next]_vars => TypeOK'
  <2> SUFFICES ASSUME TypeOK, [Next]_vars PROVE TypeOK'
    OBVIOUS
  <2> USE DEF TypeOK
  <2>a. ASSUME NEW c \in Calls, NEW t \in Txns, Return(c, Success(t)),
               UNCHANGED <<entries, seqMu, req, seqNumber, prevHash, attempt, scan>>,
               audit' \in SUBSET Txns
        PROVE TypeOK'
    BY <2>a DEF Return, Success
  <2>b. ASSUME NEW c \in Calls, Return(c, Failure),
               UNCHANGED <<entries, audit, seqMu, req, seqNumber, prevHash, attempt, scan>>
        PROVE TypeOK'
    BY <2>b DEF Return, Failure
  <2>1. ASSUME NEW c \in Calls, Receive(c) PROVE TypeOK'
    <3>1. PICK r \in Requests :
            /\ req' = [req EXCEPT ![c] = r]
            /\ IF ValidRequest(r) THEN Goto(c, "check") ELSE Return(c, Failure)
      BY <2>1 DEF Receive
    <3>2. UNCHANGED <<entries, audit, seqMu, seqNumber, prevHash, attempt, scan>>
      BY <2>1 DEF Receive
    <3>3. CASE ValidRequest(r)
      <4>1. Goto(c, "check")
        BY <3>1, <3>3
      <4>2. /\ req' \in [Calls -> Requests \cup {None}]
            /\ pc' \in [Calls -> PCs]
            /\ \A d \in Calls : pc'[d] \notin {"idle", "done"} => req'[d] \in Requests
        BY <3>1, <4>1 DEF Goto
      <4>3. \A d \in Calls : pc'[d] \in {"idle", "check", "lock", "insert", "dup"}
                             => attempt[d] < MaxInsertRetries
        BY <2>1, <4>1 DEF Goto, Receive
      <4> QED
        BY <3>2, <4>1, <4>2, <4>3 DEF Goto
    <3>4. CASE ~ValidRequest(r)
      <4>1. Return(c, Failure)
        BY <3>1, <3>4
      <4> QED
        BY <3>1, <3>2, <4>1 DEF Return, Failure
    <3> QED
      BY <3>3, <3>4
  <2>2. ASSUME NEW c \in Calls, ReplayStored(c) PROVE TypeOK'
    <3>1. PICK e \in Recorded(req[c].key) : Return(c, Success(e.txn))
      BY <2>2 DEF ReplayStored
    <3>2. e.txn \in Txns
      BY DEF Recorded, Entries
    <3> QED
      BY <2>2, <2>a, <3>1, <3>2 DEF ReplayStored
  <2>3. ASSUME NEW c \in Calls, NoDuplicateSeen(c) PROVE TypeOK'
    <3>1. CASE ValidatePostings(CreateMultiCurrencyTransferPostings(req[c]))
      BY <2>3, <3>1 DEF NoDuplicateSeen, Goto
    <3>2. CASE ~ValidatePostings(CreateMultiCurrencyTransferPostings(req[c]))
      <4>1. Return(c, Failure)
        BY <2>3, <3>2 DEF NoDuplicateSeen
      <4> QED
        BY <2>3, <2>b, <4>1 DEF NoDuplicateSeen
    <3> QED
      BY <3>1, <3>2
  <2>4. ASSUME NEW c \in Calls, ReadHead(c) PROVE TypeOK'
    <3>1. PICK d \in entries :
            /\ seqNumber' = [seqNumber EXCEPT ![c] = d.seq + 1]
            /\ prevHash' = [prevHash EXCEPT ![c] = d.hash]
      BY <2>4 DEF ReadHead
    <3>2. d.seq + 1 \in Nat \ {0} /\ d.hash \in Seq(Seals)
      BY DEF Entries
    <3>3. seqNumber' \in [Calls -> Nat \ {0}] /\ prevHash' \in [Calls -> Seq(Seals)]
      BY <3>1, <3>2
    <3>4. seqMu' \in [Pods -> Calls \cup {None}]
      BY <2>4, LedgerAssumption DEF ReadHead, Lock
    <3> QED
      BY <2>4, <3>3, <3>4 DEF ReadHead, Lock, Goto
  <2>5. ASSUME NEW c \in Calls, ReadHeadMiss(c) PROVE TypeOK'
    <3>1. seqMu' \in [Pods -> Calls \cup {None}]
      BY <2>5, LedgerAssumption DEF ReadHeadMiss, Lock
    <3> QED
      BY <2>5, <3>1 DEF ReadHeadMiss, Lock, Goto, GenesisHash
  <2>6. ASSUME NEW c \in Calls, InsertOK(c) PROVE TypeOK'
    <3>1. NewEntry(c) \in Entries
      BY <2>6, NewEntryType DEF InsertOK
    <3> QED
      BY <2>6, <3>1 DEF InsertOK, Goto, Unlock
  <2>7. ASSUME NEW c \in Calls, InsertDuplicate(c) PROVE TypeOK'
    BY <2>7 DEF InsertDuplicate, Goto, Unlock
  <2>8. ASSUME NEW c \in Calls, InsertFails(c) PROVE TypeOK'
    BY <2>8 DEF InsertFails, Return, Failure, Unlock
  <2>9. ASSUME NEW c \in Calls, InsertUnacknowledged(c) PROVE TypeOK'
    <3>1. NewEntry(c) \in Entries
      BY <2>9, NewEntryType DEF InsertUnacknowledged
    <3> QED
      BY <2>9, <3>1 DEF InsertUnacknowledged, Return, Failure, Unlock
  <2>10. ASSUME NEW c \in Calls, DuplicateIsReplay(c) PROVE TypeOK'
    <3>1. PICK e \in Recorded(req[c].key) : Return(c, Success(e.txn))
      BY <2>10 DEF DuplicateIsReplay
    <3>2. e.txn \in Txns
      BY DEF Recorded, Entries
    <3> QED
      BY <2>10, <2>a, <3>1, <3>2 DEF DuplicateIsReplay
  <2>11. ASSUME NEW c \in Calls, DuplicateIsCollision(c) PROVE TypeOK'
    <3>1. attempt[c] \in Nat /\ MaxInsertRetries \in Nat /\ attempt[c] < MaxInsertRetries
      BY <2>11, LedgerAssumption DEF DuplicateIsCollision
    <3>2. attempt' \in [Calls -> 0 .. MaxInsertRetries] /\ attempt'[c] = attempt[c] + 1
      BY <2>11, <3>1 DEF DuplicateIsCollision
    <3>3. CASE attempt[c] + 1 < MaxInsertRetries
      <4>1. Goto(c, "lock")
        BY <2>11, <3>3 DEF DuplicateIsCollision
      <4> QED
        BY <2>11, <3>2, <3>3, <4>1 DEF DuplicateIsCollision, Goto
    <3>4. CASE ~(attempt[c] + 1 < MaxInsertRetries)
      <4>1. Goto(c, "exhausted")
        BY <2>11, <3>4 DEF DuplicateIsCollision
      <4> QED
        BY <2>11, <3>2, <4>1 DEF DuplicateIsCollision, Goto
    <3> QED
      BY <3>3, <3>4
  <2>12. ASSUME NEW c \in Calls, GiveUp(c) PROVE TypeOK'
    BY <2>12, <2>b DEF GiveUp
  <2>13. ASSUME NEW c \in Calls, AppendAudit(c) PROVE TypeOK'
    <3>1. req[c].txn \in Txns
      BY <2>13, RequestFields DEF AppendAudit
    <3>2. audit' \in SUBSET Txns
      BY <2>13, <3>1 DEF AppendAudit
    <3> QED
      BY <2>13, <2>a, <3>1, <3>2 DEF AppendAudit
  <2>14. ASSUME NEW c \in Calls, AppendAuditFails(c) PROVE TypeOK'
    BY <2>14, <2>b DEF AppendAuditFails
  <2>15. ASSUME NEW p \in Pods, Crash(p) PROVE TypeOK'
    BY <2>15 DEF Crash, Failure
  <2>16. CASE VerifyStart
    <3>1. IdleScan \in Scans
      BY DEF IdleScan, Scans, GenesisHash
    <3>2. scan' \in Scans
      BY <2>16, <3>1 DEF VerifyStart, Scans
    <3> QED
      BY <2>16, <3>2 DEF VerifyStart, callVars
  <2>17. CASE VerifyNext
    <3>1. PICK e \in entries :
            scan' = IF DocIntegrity(e)
                    THEN [scan EXCEPT !.expectedSeq = @ + 1, !.expectedPrev = e.hash,
                                      !.seen = @ \cup {e}]
                    ELSE [scan EXCEPT !.pc = "done", !.status = "CORRUPTED"]
      BY <2>17 DEF VerifyNext, Unread
    <3>2. e \in Entries /\ e.hash \in Seq(Seals)
      BY DEF Entries
    <3>3. CASE DocIntegrity(e)
      <4>1. /\ scan.expectedSeq + 1 \in Nat \ {0}
            /\ scan.seen \cup {e} \in SUBSET Entries
        BY <3>2 DEF Scans
      <4>2. scan' = [scan EXCEPT !.expectedSeq = scan.expectedSeq + 1, !.expectedPrev = e.hash,
                                 !.seen = scan.seen \cup {e}]
        BY <3>1, <3>3 DEF Scans
      <4>3. scan' \in Scans
        BY <3>2, <4>1, <4>2 DEF Scans
      <4> QED
        BY <2>17, <4>3 DEF VerifyNext, callVars
    <3>4. CASE ~DocIntegrity(e)
      <4>1. scan' \in Scans
        BY <3>1, <3>4 DEF Scans
      <4> QED
        BY <2>17, <4>1 DEF VerifyNext, callVars
    <3> QED
      BY <3>3, <3>4
  <2>18. CASE VerifyEnd
    <3>1. scan' \in Scans
      BY <2>18 DEF VerifyEnd, Scans
    <3> QED
      BY <2>18, <3>1 DEF VerifyEnd, callVars
  <2>19. CASE UNCHANGED vars
    BY <2>19 DEF vars, callVars
  <2> QED
    BY <2>1, <2>2, <2>3, <2>4, <2>5, <2>6, <2>7, <2>8, <2>9, <2>10, <2>11, <2>12,
       <2>13, <2>14, <2>15, <2>16, <2>17, <2>18, <2>19 DEF Next, Step
<1> QED
  BY <1>1, <1>2, PTL DEF Spec

-----------------------------------------------------------------------------
(* Storing the entry a call built on the head it read extends the chain by *)
(* one well-sealed entry: a stale head would collide on sequence_number.   *)
LEMMA InsertExtendsChain ==
    ASSUME TypeOK, ChainIntact, HeadWasRead,
           NEW c \in Calls, pc[c] = "insert", ~IsDuplicate(c),
           entries' = entries \cup {NewEntry(c)}
    PROVE  ChainIntact'
<1> DEFINE n == NewEntry(c)
<1>1. /\ n.seq = seqNumber[c] /\ n.prev = prevHash[c]
      /\ n.hash = ComputeEntryHash(n.prev, n.seq, n.txn, n.key, n.postings)
  BY DEF NewEntry
<1>2. \A d \in entries : d.seq # n.seq
  BY DEF IsDuplicate, Conflicts
<1>3. n.seq \in Nat \ {0} /\ \A d \in entries : d.seq \in Nat \ {0}
  BY <1>1 DEF TypeOK, Entries
<1>4. \/ n.seq = 1 /\ n.prev = GenesisHash
      \/ \E d \in entries : n.seq = d.seq + 1 /\ n.prev = d.hash
  BY <1>1 DEF HeadWasRead
<1> HIDE DEF n
<1>5. entries' = entries \cup {n}
  BY DEF n
<1>6. \A e \in entries' : \A i \in 1 .. e.seq : \E d \in entries' : d.seq = i
  <2>1. ASSUME NEW i \in 1 .. n.seq PROVE \E d \in entries' : d.seq = i
    <3>1. CASE i = n.seq
      BY <1>5, <3>1
    <3>2. CASE i # n.seq
      <4>1. PICK d \in entries : n.seq = d.seq + 1
        BY <1>3, <1>4, <3>2
      <4>2. i \in 1 .. d.seq
        BY <1>3, <3>2, <4>1
      <4> QED
        BY <1>5, <4>2 DEF ChainIntact
    <3> QED
      BY <3>1, <3>2
  <2> QED
    BY <1>5, <2>1 DEF ChainIntact
<1>7. \A d, e \in entries' : d.seq = e.seq => d = e
  BY <1>2, <1>5 DEF ChainIntact
<1>8. \A e \in entries' : e.seq = 1 => e.prev = GenesisHash
  <2>1. n.seq = 1 => n.prev = GenesisHash
    BY <1>3, <1>4
  <2> QED
    BY <1>5, <2>1 DEF ChainIntact
<1>9. \A d, e \in entries' : e.seq = d.seq + 1 => e.prev = d.hash
  <2>1. ASSUME NEW d \in entries, n.seq = d.seq + 1 PROVE n.prev = d.hash
    <3>1. PICK b \in entries : n.seq = b.seq + 1 /\ n.prev = b.hash
      BY <1>3, <1>4, <2>1
    <3>2. b = d
      BY <1>3, <2>1, <3>1 DEF ChainIntact
    <3> QED
      BY <3>1, <3>2
  <2>2. ASSUME NEW e \in entries PROVE e.seq # n.seq + 1
    <3>1. SUFFICES ASSUME e.seq = n.seq + 1 PROVE FALSE
      OBVIOUS
    <3>2. n.seq \in 1 .. e.seq
      BY <1>3, <3>1
    <3> QED
      BY <1>2, <3>2 DEF ChainIntact
  <2>3. n.seq # n.seq + 1
    BY <1>3
  <2> QED
    BY <1>5, <2>1, <2>2, <2>3 DEF ChainIntact
<1>10. \A e \in entries' : e.hash = ComputeEntryHash(e.prev, e.seq, e.txn, e.key, e.postings)
  BY <1>1, <1>5 DEF ChainIntact, n
<1> QED
  BY <1>6, <1>7, <1>8, <1>9, <1>10 DEF ChainIntact

(* An inserting step: the chain grows, what was acknowledged stays stored. *)
LEMMA InsertKeepsInv ==
    ASSUME TypeOK, ChainInv, NEW c \in Calls, pc[c] = "insert", ~IsDuplicate(c),
           entries' = entries \cup {NewEntry(c)},
           Goto(c, "audit") \/ Return(c, Failure),
           UNCHANGED <<req, seqNumber, prevHash>>
    PROVE  ChainInv'
<1>1. ChainIntact'
  BY InsertExtendsChain DEF ChainInv
<1>2. /\ \A b \in Calls : pc'[b] = "insert" => pc[b] = "insert"
      /\ \A b \in Calls : pc'[b] = "audit" => pc[b] = "audit" \/ b = c
      /\ \A b \in Calls : reply'[b].status = "success" => reply'[b] = reply[b]
  BY DEF Goto, Return, Failure, TypeOK
<1>3. HeadWasRead'
  BY <1>2 DEF ChainInv, HeadWasRead
<1>4. NewEntry(c).key = req[c].key /\ NewEntry(c).txn = req[c].txn
  BY DEF NewEntry
<1>5. StoredBeforeAudit'
  BY <1>2, <1>4 DEF ChainInv, StoredBeforeAudit
<1>6. AcknowledgedIsRecorded'
  BY <1>2 DEF ChainInv, AcknowledgedIsRecorded
<1>7. AnsweredWhenDone'
  BY DEF ChainInv, AnsweredWhenDone, Goto, Return, TypeOK
<1> QED
  BY <1>1, <1>3, <1>5, <1>6, <1>7 DEF ChainInv

(* A step that returns to its caller keeps the invariant when it reports   *)
(* failure, or a transaction id that is stored under the call's key.       *)
LEMMA ReturnKeepsInv ==
    ASSUME TypeOK, ChainInv, NEW c \in Calls, NEW r, Return(c, r),
           r.status = "success" =>
             \E e \in entries : e.key = req[c].key /\ e.txn = r.txn,
           UNCHANGED <<entries, req, seqNumber, prevHash>>
    PROVE  ChainInv'
<1>1. /\ \A b \in Calls : pc'[b] = "insert" => pc[b] = "insert"
      /\ \A b \in Calls : pc'[b] = "audit" => pc[b] = "audit"
      /\ \A b \in Calls : b # c => reply'[b] = reply[b]
      /\ reply'[c] = r
  BY DEF Return, TypeOK
<1>2. AcknowledgedIsRecorded'
  BY <1>1 DEF ChainInv, AcknowledgedIsRecorded
<1>3. AnsweredWhenDone'
  BY DEF ChainInv, AnsweredWhenDone, Return, TypeOK
<1> QED
  BY <1>1, <1>2, <1>3 DEF ChainInv, ChainIntact, HeadWasRead, StoredBeforeAudit

(* A step that moves a call on without touching the ledger.                *)
LEMMA GotoKeepsInv ==
    ASSUME TypeOK, ChainInv, NEW c \in Calls, NEW l, l \notin {"insert", "audit"},
           Goto(c, l), pc[c] \notin {"idle", "done"},
           UNCHANGED <<entries, req, seqNumber, prevHash>>
    PROVE  ChainInv'
<1>1. /\ \A b \in Calls : pc'[b] = "insert" => pc[b] = "insert"
      /\ \A b \in Calls : pc'[b] = "audit" => pc[b] = "audit"
      /\ reply' = reply
  BY DEF Goto, TypeOK
<1>2. AnsweredWhenDone'
  BY DEF ChainInv, AnsweredWhenDone, Goto, TypeOK
<1> QED
  BY <1>1, <1>2
     DEF ChainInv, ChainIntact, HeadWasRead, StoredBeforeAudit, AcknowledgedIsRecorded

(* Locking and reading the head gives the call a head of this chain.       *)
LEMMA LockKeepsInv ==
    ASSUME TypeOK, ChainInv, NEW c \in Calls, Lock(c),
           NEW s, NEW h, seqNumber' = [seqNumber EXCEPT ![c] = s],
           prevHash' = [prevHash EXCEPT ![c] = h],
           \/ s = 1 /\ h = GenesisHash
           \/ \E d \in entries : s = d.seq + 1 /\ h = d.hash,
           UNCHANGED <<entries, req>>
    PROVE  ChainInv'
<1>1. /\ \A b \in Calls : b # c => pc'[b] = pc[b] /\ seqNumber'[b] = seqNumber[b]
                                   /\ prevHash'[b] = prevHash[b]
      /\ pc'[c] = "insert" /\ seqNumber'[c] = s /\ prevHash'[c] = h
      /\ reply' = reply
  BY DEF Lock, Goto, TypeOK
<1>2. HeadWasRead'
  BY <1>1 DEF ChainInv, HeadWasRead
<1>3. AnsweredWhenDone'
  BY <1>1 DEF ChainInv, AnsweredWhenDone, Lock
<1> QED
  BY <1>1, <1>2, <1>3 DEF ChainInv, ChainIntact, StoredBeforeAudit, AcknowledgedIsRecorded

(* The inductive step: no action of any pod, and no fault, breaks ChainInv. *)
LEMMA ChainInvStep ==
    ASSUME TypeOK, ChainInv, [Next]_vars
    PROVE  ChainInv'
<1>1. ASSUME NEW c \in Calls, Receive(c) PROVE ChainInv'
  <2>1. /\ reply[c].status = "none" /\ pc[c] = "idle"
        /\ UNCHANGED <<entries, seqNumber, prevHash>>
    BY <1>1 DEF Receive, ChainInv, AnsweredWhenDone
  <2>2. /\ \A b \in Calls : b # c => pc'[b] = pc[b] /\ reply'[b] = reply[b] /\ req'[b] = req[b]
        /\ pc'[c] \in {"check", "done"} /\ reply'[c] \in {reply[c], Failure}
        /\ pc'[c] # "done" => reply'[c] = reply[c]
    BY <1>1 DEF Receive, Goto, Return, TypeOK
  <2>3. reply'[c].status # "success" /\ (pc'[c] # "done" => reply'[c].status = "none")
    BY <2>1, <2>2 DEF Failure
  <2>4. AcknowledgedIsRecorded' /\ AnsweredWhenDone'
    BY <2>1, <2>2, <2>3 DEF ChainInv, AcknowledgedIsRecorded, AnsweredWhenDone
  <2> QED
    BY <2>1, <2>2, <2>4 DEF ChainInv, ChainIntact, HeadWasRead, StoredBeforeAudit
<1>2. ASSUME NEW c \in Calls, ReplayStored(c) PROVE ChainInv'
  <2>1. PICK e \in entries : e.key = req[c].key /\ Return(c, Success(e.txn))
    BY <1>2 DEF ReplayStored, Recorded
  <2> QED
    BY <1>2, <2>1, ReturnKeepsInv DEF ReplayStored, Success
<1>3. ASSUME NEW c \in Calls, NoDuplicateSeen(c) PROVE ChainInv'
  <2>1. Goto(c, "lock") \/ Return(c, Failure)
    BY <1>3 DEF NoDuplicateSeen
  <2>2. CASE Goto(c, "lock")
    BY <1>3, <2>2, GotoKeepsInv DEF NoDuplicateSeen
  <2>3. CASE Return(c, Failure)
    BY <1>3, <2>3, ReturnKeepsInv DEF NoDuplicateSeen, Failure
  <2> QED
    BY <2>1, <2>2, <2>3
<1>4. ASSUME NEW c \in Calls, ReadHead(c) PROVE ChainInv'
  <2>1. PICK d \in entries : /\ seqNumber' = [seqNumber EXCEPT ![c] = d.seq + 1]
                             /\ prevHash' = [prevHash EXCEPT ![c] = d.hash]
    BY <1>4 DEF ReadHead
  <2> QED
    BY <1>4, <2>1, LockKeepsInv DEF ReadHead
<1>5. ASSUME NEW c \in Calls, ReadHeadMiss(c) PROVE ChainInv'
  BY <1>5, LockKeepsInv DEF ReadHeadMiss
<1>6. ASSUME NEW c \in Calls, InsertOK(c) PROVE ChainInv'
  BY <1>6, InsertKeepsInv DEF InsertOK
<1>7. ASSUME NEW c \in Calls, InsertDuplicate(c) PROVE ChainInv'
  BY <1>7, GotoKeepsInv DEF InsertDuplicate
<1>8. ASSUME NEW c \in Calls, InsertFails(c) PROVE ChainInv'
  BY <1>8, ReturnKeepsInv DEF InsertFails, Failure
<1>9. ASSUME NEW c \in Calls, InsertUnacknowledged(c) PROVE ChainInv'
  BY <1>9, InsertKeepsInv DEF InsertUnacknowledged
<1>10. ASSUME NEW c \in Calls, DuplicateIsReplay(c) PROVE ChainInv'
  <2>1. PICK e \in entries : e.key = req[c].key /\ Return(c, Success(e.txn))
    BY <1>10 DEF DuplicateIsReplay, Recorded
  <2> QED
    BY <1>10, <2>1, ReturnKeepsInv DEF DuplicateIsReplay, Success
<1>11. ASSUME NEW c \in Calls, DuplicateIsCollision(c) PROVE ChainInv'
  BY <1>11, GotoKeepsInv DEF DuplicateIsCollision
<1>12. ASSUME NEW c \in Calls, GiveUp(c) PROVE ChainInv'
  BY <1>12, ReturnKeepsInv DEF GiveUp, Failure
<1>13. ASSUME NEW c \in Calls, AppendAudit(c) PROVE ChainInv'
  <2>1. \E e \in entries : e.key = req[c].key /\ e.txn = req[c].txn
    BY <1>13 DEF AppendAudit, ChainInv, StoredBeforeAudit
  <2> QED
    BY <1>13, <2>1, ReturnKeepsInv DEF AppendAudit, Success
<1>14. ASSUME NEW c \in Calls, AppendAuditFails(c) PROVE ChainInv'
  BY <1>14, ReturnKeepsInv DEF AppendAuditFails, Failure
<1>15. ASSUME NEW p \in Pods, Crash(p) PROVE ChainInv'
  <2>1. /\ UNCHANGED <<entries, req, seqNumber, prevHash>>
        /\ \A c \in Calls : \/ pc'[c] = pc[c] /\ reply'[c] = reply[c]
                            \/ pc'[c] = "done" /\ reply'[c] = Failure
    BY <1>15 DEF Crash
  <2>2. Failure.status = "failure"
    BY DEF Failure
  <2> QED
    BY <2>1, <2>2 DEF ChainInv, ChainIntact, HeadWasRead, StoredBeforeAudit,
                      AcknowledgedIsRecorded, AnsweredWhenDone
<1>16. ASSUME UNCHANGED <<entries, callVars>> PROVE ChainInv'
  BY <1>16 DEF callVars, ChainInv, ChainIntact, HeadWasRead, StoredBeforeAudit,
               AcknowledgedIsRecorded, AnsweredWhenDone
<1>17. CASE VerifyStart \/ VerifyNext \/ VerifyEnd \/ UNCHANGED vars
  BY <1>16, <1>17 DEF VerifyStart, VerifyNext, VerifyEnd, vars
<1> QED
  BY <1>1, <1>2, <1>3, <1>4, <1>5, <1>6, <1>7, <1>8, <1>9, <1>10, <1>11, <1>12,
     <1>13, <1>14, <1>15, <1>17 DEF Next, Step

(* ChainInv holds along every behaviour.                                   *)
THEOREM ChainInvariant == Spec => []ChainInv
<1>1. Init => ChainInv
  BY DEF Init, ChainInv, ChainIntact, HeadWasRead, StoredBeforeAudit,
         AcknowledgedIsRecorded, AnsweredWhenDone, NoReply
<1>2. TypeOK /\ ChainInv /\ [Next]_vars => ChainInv'
  BY ChainInvStep
<1> QED
  BY <1>1, <1>2, TypeCorrect, PTL DEF Spec

(* The hash chain has no gap, no fork and no broken link, for any number   *)
(* of pods inserting concurrently, failing and crashing.                   *)
THEOREM ChainIsIntact == Spec => []ChainIntact
<1>1. ChainInv => ChainIntact
  BY DEF ChainInv
<1> QED
  BY <1>1, ChainInvariant, PTL

(* Every acknowledged transaction id is stored under the caller's key.     *)
THEOREM AcknowledgementsAreDurable == Spec => []AcknowledgedIsRecorded
<1>1. ChainInv => AcknowledgedIsRecorded
  BY DEF ChainInv
<1> QED
  BY <1>1, ChainInvariant, PTL

-----------------------------------------------------------------------------
(* The verifier reads a chain that grows under it: an entry stored during  *)
(* the scan lies above everything the scan has passed.                     *)
LEMMA InsertKeepsScan ==
    ASSUME TypeOK, ChainInv, VerifyInv, NEW c \in Calls, pc[c] = "insert", ~IsDuplicate(c),
           entries' = entries \cup {NewEntry(c)}, UNCHANGED scan
    PROVE  ScanAligned' /\ \A e \in entries' : ValidatePostings(e.postings)
<1> DEFINE n == NewEntry(c)
<1>1. n.seq \in Nat \ {0} /\ \A d \in entries : d.seq # n.seq /\ d.seq \in Nat \ {0}
  BY DEF NewEntry, IsDuplicate, Conflicts, TypeOK, Entries
<1>2. ValidatePostings(n.postings)
  BY DEF NewEntry, VerifyInv, PostingsBalance
<1> HIDE DEF n
<1>3. entries' = entries \cup {n}
  BY DEF n
<1>4. scan.expectedSeq \in Nat \ {0}
  BY DEF TypeOK, Scans
<1>5. ASSUME scan.pc = "scanning" PROVE ~(n.seq < scan.expectedSeq)
  <2>1. SUFFICES ASSUME n.seq < scan.expectedSeq PROVE FALSE
    OBVIOUS
  <2>2. PICK d \in entries : scan.expectedSeq = d.seq + 1
    BY <1>1, <1>5, <2>1 DEF VerifyInv, ScanAligned
  <2>3. n.seq \in 1 .. d.seq
    BY <1>1, <2>1, <2>2
  <2> QED
    BY <1>1, <2>3 DEF ChainInv, ChainIntact
<1>6. ScanAligned'
  BY <1>3, <1>5 DEF VerifyInv, ScanAligned
<1> QED
  BY <1>2, <1>3, <1>6 DEF VerifyInv, PostingsBalance

(* The next document of an aligned scan passes verifyDocIntegrity and      *)
(* leaves the scan aligned.                                                *)
LEMMA NextDocumentIsIntact ==
    ASSUME TypeOK, ChainInv, VerifyInv, scan.pc = "scanning",
           NEW e \in Unread, \A d \in Unread : e.seq <= d.seq
    PROVE  DocIntegrity(e)
<1>1. e \in entries /\ (\A d \in entries : d.seq \in Nat \ {0}) /\ scan.expectedSeq \in Nat \ {0}
  BY DEF Unread, TypeOK, Entries, Scans
<1>2. e.seq >= scan.expectedSeq
  <2>1. CASE scan.expectedSeq = 1
    BY <1>1, <2>1
  <2>2. CASE \E d \in scan.seen : scan.expectedSeq = d.seq + 1
    BY <1>1, <2>2 DEF Unread, VerifyInv, ScanAligned
  <2> QED
    BY <2>1, <2>2 DEF VerifyInv, ScanAligned
<1>3. PICK f \in entries : f.seq = scan.expectedSeq
  <2>1. scan.expectedSeq \in 1 .. e.seq
    BY <1>1, <1>2
  <2> QED
    BY <1>1, <2>1 DEF ChainInv, ChainIntact
<1>4. f \in Unread
  BY <1>1, <1>3 DEF Unread, VerifyInv, ScanAligned
<1>5. e.seq = scan.expectedSeq
  BY <1>1, <1>2, <1>3, <1>4
<1>6. e.prev = scan.expectedPrev
  <2>1. CASE scan.expectedSeq = 1 /\ scan.expectedPrev = GenesisHash
    BY <1>1, <1>5, <2>1 DEF ChainInv, ChainIntact
  <2>2. CASE \E d \in scan.seen : scan.expectedSeq = d.seq + 1 /\ scan.expectedPrev = d.hash
    BY <1>1, <1>5, <2>2 DEF ChainInv, ChainIntact, VerifyInv, ScanAligned
  <2> QED
    BY <2>1, <2>2 DEF VerifyInv, ScanAligned
<1> QED
  BY <1>1, <1>5, <1>6 DEF DocIntegrity, ChainInv, ChainIntact, VerifyInv, PostingsBalance

(* A step of a call that does not store an entry keeps VerifyInv.          *)
LEMMA CallKeepsVerifyInv ==
    ASSUME VerifyInv, UNCHANGED <<entries, scan>>,
           \A c \in Calls : pc'[c] \in {"lock", "insert", "dup"} =>
             /\ req'[c] = req[c]
             /\ \/ pc[c] \in {"lock", "insert", "dup"}
                \/ ValidatePostings(CreateMultiCurrencyTransferPostings(req[c]))
    PROVE  VerifyInv'
<1>1. PostingsBalance'
  BY DEF VerifyInv, PostingsBalance
<1> QED
  BY <1>1 DEF VerifyInv, ScanAligned, NoFalseCorruption, VerifiedCoversLedger

(* The inductive step for the verifier.                                    *)
LEMMA VerifyInvStep ==
    ASSUME TypeOK, ChainInv, VerifyInv, [Next]_vars
    PROVE  VerifyInv'
<1>1. ASSUME NEW c \in Calls, Receive(c) PROVE VerifyInv'
  BY <1>1, CallKeepsVerifyInv DEF Receive, Goto, Return, TypeOK
<1>2. ASSUME NEW c \in Calls, NoDuplicateSeen(c) PROVE VerifyInv'
  BY <1>2, CallKeepsVerifyInv DEF NoDuplicateSeen, Goto, Return, TypeOK
<1>3. ASSUME NEW c \in Calls,
             ReadHead(c) \/ ReadHeadMiss(c) \/ InsertDuplicate(c) \/ InsertFails(c)
      PROVE VerifyInv'
  BY <1>3, CallKeepsVerifyInv
     DEF ReadHead, ReadHeadMiss, Lock, InsertDuplicate, InsertFails, Goto, Return, TypeOK
<1>4. ASSUME NEW c \in Calls, InsertOK(c) \/ InsertUnacknowledged(c) PROVE VerifyInv'
  <2>1. ScanAligned' /\ \A e \in entries' : ValidatePostings(e.postings)
    BY <1>4, InsertKeepsScan DEF InsertOK, InsertUnacknowledged
  <2>2. /\ \A b \in Calls : pc'[b] \in {"lock", "insert", "dup"} => pc[b] = pc'[b]
        /\ UNCHANGED <<req, scan>>
    BY <1>4 DEF InsertOK, InsertUnacknowledged, Goto, Return, TypeOK
  <2> QED
    BY <2>1, <2>2 DEF VerifyInv, PostingsBalance, NoFalseCorruption, VerifiedCoversLedger
<1>5. ASSUME NEW c \in Calls, DuplicateIsCollision(c) PROVE VerifyInv'
  <2>1. /\ pc[c] = "dup" /\ UNCHANGED <<entries, req, scan>>
        /\ \A b \in Calls : b # c => pc'[b] = pc[b]
    BY <1>5 DEF DuplicateIsCollision, Goto, TypeOK
  <2> QED
    BY <2>1, CallKeepsVerifyInv
<1>6. ASSUME NEW c \in Calls, NEW r, Return(c, r), UNCHANGED <<entries, req, scan>>
      PROVE VerifyInv'
  BY <1>6, CallKeepsVerifyInv DEF Return, TypeOK
<1>7. ASSUME NEW c \in Calls, ReplayStored(c) \/ DuplicateIsReplay(c) \/ GiveUp(c)
                              \/ AppendAudit(c) \/ AppendAuditFails(c)
      PROVE VerifyInv'
  <2>1. UNCHANGED <<entries, req, scan>> /\ \E r : Return(c, r)
    BY <1>7 DEF ReplayStored, DuplicateIsReplay, GiveUp, AppendAudit, AppendAuditFails
  <2> QED
    BY <1>6, <2>1
<1>8. ASSUME NEW p \in Pods, Crash(p) PROVE VerifyInv'
  <2>1. /\ UNCHANGED <<entries, req, scan>>
        /\ \A b \in Calls : pc'[b] = pc[b] \/ pc'[b] = "done"
    BY <1>8 DEF Crash
  <2> QED
    BY <2>1, CallKeepsVerifyInv
<1>9. CASE VerifyStart
  <2>1. /\ scan'.pc = "scanning" /\ scan'.expectedSeq = 1 /\ scan'.expectedPrev = GenesisHash
        /\ scan'.seen = {} /\ scan'.status = "none" /\ scan'.from = entries
        /\ UNCHANGED <<entries, pc, req>>
    BY <1>9 DEF VerifyStart, IdleScan, callVars
  <2>2. \A e \in entries : ~(e.seq < 1)
    BY DEF TypeOK, Entries
  <2> QED
    BY <2>1, <2>2 DEF VerifyInv, PostingsBalance, ScanAligned, NoFalseCorruption,
                      VerifiedCoversLedger
<1>10. CASE VerifyNext
  <2>1. PICK e \in Unread :
          /\ \A d \in Unread : e.seq <= d.seq
          /\ scan' = IF DocIntegrity(e)
                     THEN [scan EXCEPT !.expectedSeq = @ + 1, !.expectedPrev = e.hash,
                                       !.seen = @ \cup {e}]
                     ELSE [scan EXCEPT !.pc = "done", !.status = "CORRUPTED"]
    BY <1>10 DEF VerifyNext
  <2>2. scan.pc = "scanning" /\ UNCHANGED <<entries, pc, req>>
    BY <1>10 DEF VerifyNext, callVars
  <2>3. DocIntegrity(e)
    BY <2>1, <2>2, NextDocumentIsIntact
  <2>4. /\ scan'.expectedSeq = scan.expectedSeq + 1 /\ scan'.expectedPrev = e.hash
        /\ scan'.seen = scan.seen \cup {e} /\ scan'.status = scan.status
        /\ scan'.from = scan.from /\ scan'.pc = scan.pc
    BY <2>1, <2>3 DEF TypeOK, Scans
  <2>5. e.seq = scan.expectedSeq /\ e \in entries
    BY <2>3 DEF DocIntegrity, Unread
  <2>6. /\ scan.expectedSeq \in Nat
        /\ \A d \in entries : d.seq \in Nat /\ (d.seq = e.seq => d = e)
    BY <2>5 DEF TypeOK, Scans, Entries, ChainInv, ChainIntact
  <2>7. scan'.seen = {d \in entries : d.seq < scan'.expectedSeq}
    <3>1. \A d \in entries : d.seq < scan.expectedSeq + 1 <=> d.seq < scan.expectedSeq \/ d = e
      BY <2>5, <2>6
    <3>2. scan.seen = {d \in entries : d.seq < scan.expectedSeq}
      BY <2>2 DEF VerifyInv, ScanAligned
    <3> QED
      BY <2>4, <2>5, <3>1, <3>2
  <2>8. ScanAligned'
    BY <2>2, <2>4, <2>5, <2>7 DEF VerifyInv, ScanAligned
  <2> QED
    BY <2>2, <2>4, <2>8 DEF VerifyInv, PostingsBalance, NoFalseCorruption, VerifiedCoversLedger
<1>11. CASE VerifyEnd
  <2>1. /\ scan.pc = "scanning" /\ scan'.pc = "done" /\ scan'.status # "CORRUPTED"
        /\ scan'.from = scan.from /\ scan'.seen = scan.seen
        /\ Unread = {} \/ Faults
        /\ UNCHANGED <<entries, pc, req>>
    BY <1>11 DEF VerifyEnd, callVars, TypeOK, Scans
  <2>2. ASSUME ~Faults PROVE scan.from \subseteq scan.seen
    <3>1. Unread = {}
      BY <2>1, <2>2
    <3>2. (\A e \in entries : e.seq \in Nat) /\ scan.expectedSeq \in Nat
      BY DEF TypeOK, Entries, Scans
    <3>3. scan.from \subseteq entries /\ scan.seen = {e \in entries : e.seq < scan.expectedSeq}
      BY <2>1 DEF VerifyInv, ScanAligned
    <3>4. \A e \in entries \ scan.seen : \A s \in scan.seen : s.seq <= e.seq
      BY <3>2, <3>3
    <3> QED
      BY <3>1, <3>3, <3>4 DEF Unread
  <2> QED
    BY <2>1, <2>2 DEF VerifyInv, PostingsBalance, ScanAligned, NoFalseCorruption,
                      VerifiedCoversLedger
<1>12. CASE UNCHANGED vars
  BY <1>12, CallKeepsVerifyInv DEF vars, callVars
<1> QED
  BY <1>1, <1>2, <1>3, <1>4, <1>5, <1>7, <1>8, <1>9, <1>10, <1>11, <1>12 DEF Next, Step

(* VerifyInv holds along every behaviour.                                  *)
THEOREM VerifyInvariant == Spec => []VerifyInv
<1>1. Init => VerifyInv
  BY DEF Init, VerifyInv, PostingsBalance, ScanAligned, NoFalseCorruption,
         VerifiedCoversLedger, IdleScan
<1>2. TypeOK /\ ChainInv /\ VerifyInv /\ [Next]_vars => VerifyInv'
  BY VerifyInvStep
<1> QED
  BY <1>1, <1>2, TypeCorrect, ChainInvariant, PTL DEF Spec

(* VerifyAuditChain never reports CORRUPTED for a ledger that only this    *)
(* service writes, and when the database answers every VERIFIED verdict    *)
(* covers all entries present at the start of the scan.                    *)
THEOREM VerifierIsTrustworthy ==
    Spec => [](NoFalseCorruption /\ (~Faults => VerifiedCoversLedger))
<1>1. VerifyInv => NoFalseCorruption /\ (~Faults => VerifiedCoversLedger)
  BY DEF VerifyInv
<1> QED
  BY <1>1, VerifyInvariant, PTL

-----------------------------------------------------------------------------
(* Entries that each balance balance together: the two sides of the trial  *)
(* balance are the sum of the same function.                               *)
LEMMA TrialBalances ==
    ASSUME NEW es, \A e \in es : ValidatePostings(e.postings)
    PROVE  Balanced(es)
<1> SUFFICES ASSUME NEW c \in Currencies PROVE TrialTotal(es, "DEBIT", c) = TrialTotal(es, "CREDIT", c)
  BY DEF Balanced
<1> DEFINE side(d) == [e \in es |-> Total(e.postings, d, c)]
<1>1. \A e \in es : Total(e.postings, "DEBIT", c) = Total(e.postings, "CREDIT", c)
  BY DEF ValidatePostings
<1>2. side("DEBIT") = side("CREDIT")
  BY <1>1
<1>3. TrialTotal(es, "DEBIT", c) = SumFunction(side("DEBIT")) /\ TrialTotal(es, "CREDIT", c) = SumFunction(side("CREDIT"))
  BY DEF TrialTotal
<1> HIDE DEF side
<1> QED BY <1>2, <1>3

(* VerifyAuditChain raises no alarm at all on a ledger that only this      *)
(* service writes, while it writes: neither a broken chain nor a trial     *)
(* balance that does not add up (checkTrialBalanceEquilibrium).            *)
THEOREM VerifierNeverAlarms == Spec => []VerifierRaisesNoAlarm
<1> DEFINE Balances == scan.status # "TRIAL_BALANCE_UNBALANCED"
<1>1. Init => Balances
  BY DEF Init, IdleScan
<1>2. ASSUME TypeOK, VerifyInv, Balances, [Next]_vars PROVE Balances'
  <2>1. CASE VerifyStart
    BY <2>1 DEF VerifyStart, IdleScan
  <2>2. CASE VerifyNext
    <3>1. scan'.status \in {scan.status, "CORRUPTED"}
      BY <1>2, <2>2 DEF VerifyNext, TypeOK, Scans
    <3> QED BY <1>2, <3>1
  <2>3. CASE VerifyEnd
    <3>1. Balanced(scan.seen)
      <4>1. scan.seen \subseteq entries /\ \A e \in entries : ValidatePostings(e.postings)
        BY <1>2, <2>3 DEF VerifyEnd, VerifyInv, ScanAligned, PostingsBalance
      <4> QED BY <4>1, TrialBalances
    <3> QED BY <1>2, <2>3, <3>1 DEF VerifyEnd, TypeOK, Scans
  <2>4. CASE UNCHANGED scan
    BY <1>2, <2>4
  <2>5. \/ VerifyStart \/ VerifyNext \/ VerifyEnd \/ UNCHANGED scan
    BY <1>2 DEF Next, Step, Receive, ReplayStored, NoDuplicateSeen, ReadHead, ReadHeadMiss, InsertOK, InsertDuplicate,
             InsertFails, InsertUnacknowledged, DuplicateIsReplay, DuplicateIsCollision, GiveUp, AppendAudit,
             AppendAuditFails, Crash, vars
  <2> QED BY <2>1, <2>2, <2>3, <2>4, <2>5
<1>3. TypeOK /\ VerifyInv /\ Balances => VerifierRaisesNoAlarm
  BY DEF TypeOK, Scans, VerifyInv, NoFalseCorruption, VerifierRaisesNoAlarm
<1>4. TypeOK /\ VerifyInv /\ Balances /\ [Next]_vars => Balances'
  BY <1>2
<1> HIDE DEF Balances
<1> QED BY <1>1, <1>3, <1>4, TypeCorrect, VerifyInvariant, PTL DEF Spec

-----------------------------------------------------------------------------
(* LedgerChain implements Journal.  The log is the entries in the order of *)
(* their numbers, which are 1 to their count; no key occurs twice.         *)
Numbered(es) ==
    /\ IsFiniteSet(es)
    /\ \A e \in es : e.seq <= Cardinality(es)
    /\ \A i \in 1 .. Cardinality(es) : \E d \in es : d.seq = i
LogInv == Numbered(entries) /\ \A d, e \in entries : d.key = e.key => d = e

(* An insert that the unique indexes let pass takes the next number.       *)
LEMMA InsertIsNext ==
    ASSUME TypeOK, ChainInv, LogInv, NEW c \in Calls, pc[c] = "insert", ~IsDuplicate(c)
    PROVE  /\ Cardinality(entries) \in Nat /\ seqNumber[c] = Cardinality(entries) + 1
           /\ IsFiniteSet(entries \cup {NewEntry(c)})
           /\ Cardinality(entries \cup {NewEntry(c)}) = Cardinality(entries) + 1
<1> DEFINE n == Cardinality(entries)
<1>1. n \in Nat
  BY FS_CardinalityType DEF LogInv, Numbered
<1>2. NewEntry(c).seq = seqNumber[c]
  BY DEF NewEntry
<1>3. \A d \in entries : d.seq # seqNumber[c]
  BY <1>2 DEF IsDuplicate, Conflicts
<1>4. NewEntry(c) \notin entries
  BY <1>2, <1>3
<1>5. seqNumber[c] \in Nat \ {0} /\ \A d \in entries : d.seq \in Nat
  BY DEF TypeOK, Entries
<1>6. seqNumber[c] <= n + 1
  BY <1>1, <1>5 DEF ChainInv, HeadWasRead, LogInv, Numbered
<1>7. seqNumber[c] \notin 1 .. n
  BY <1>3 DEF LogInv, Numbered
<1>8. seqNumber[c] = n + 1
  BY <1>1, <1>5, <1>6, <1>7
<1> QED BY <1>1, <1>4, <1>8, FS_AddElement DEF LogInv, Numbered

(* The log inherits its shape from the indexes.                            *)
LEMMA InsertKeepsLogInv ==
    ASSUME TypeOK, ChainInv, LogInv, NEW c \in Calls, pc[c] = "insert", ~IsDuplicate(c),
           entries' = entries \cup {NewEntry(c)}
    PROVE  LogInv'
<1>1. PICK e : e = NewEntry(c)
  OBVIOUS
<1>2. PICK n \in Nat : n = Cardinality(entries)
  BY InsertIsNext
<1>3. IsFiniteSet(entries') /\ Cardinality(entries') = n + 1 /\ e.seq = n + 1
  BY <1>1, <1>2, InsertIsNext DEF NewEntry
<1>4. \A d \in entries : d.key # e.key /\ d.seq \in Nat /\ d.seq <= n
  BY <1>1, <1>2 DEF IsDuplicate, Conflicts, TypeOK, Entries, LogInv, Numbered
<1>5. \A d \in entries' : d.seq <= n + 1
  BY <1>1, <1>3, <1>4
<1>6. \A i \in 1 .. (n + 1) : \E d \in entries' : d.seq = i
  BY <1>1, <1>2, <1>3 DEF LogInv, Numbered
<1>7. \A d, b \in entries' : d.key = b.key => d = b
  BY <1>1, <1>4 DEF LogInv, Numbered
<1>8. /\ \A d \in entries' : d.seq <= Cardinality(entries')
      /\ \A i \in 1 .. Cardinality(entries') : \E d \in entries' : d.seq = i
  BY <1>3, <1>5, <1>6
<1> QED BY <1>3, <1>7, <1>8, Zenon DEF LogInv, Numbered

(* Entries are only ever inserted.                                         *)
LEMMA EntriesOnlyInserted ==
    ASSUME [Next]_vars
    PROVE  \/ entries' = entries
           \/ \E c \in Calls : InsertOK(c) \/ InsertUnacknowledged(c)
BY DEF Next, Step, Receive, ReplayStored, NoDuplicateSeen, ReadHead, ReadHeadMiss, InsertDuplicate,
       InsertFails, DuplicateIsReplay, DuplicateIsCollision, GiveUp, AppendAudit, AppendAuditFails,
       Crash, VerifyStart, VerifyNext, VerifyEnd, vars

(* LogInv holds along every behaviour.                                     *)
THEOREM LogInvariant == Spec => []LogInv
<1>1. Init => LogInv
  BY FS_EmptySet DEF Init, LogInv, Numbered
<1>2. ASSUME TypeOK, ChainInv, LogInv, [Next]_vars PROVE LogInv'
  <2>1. CASE entries' = entries
    BY <1>2, <2>1 DEF LogInv, Numbered
  <2>2. ASSUME NEW c \in Calls, InsertOK(c) \/ InsertUnacknowledged(c) PROVE LogInv'
    BY <1>2, <2>2, InsertKeepsLogInv DEF InsertOK, InsertUnacknowledged
  <2> QED BY <1>2, <2>1, <2>2, EntriesOnlyInserted
<1> QED BY <1>1, <1>2, TypeCorrect, ChainInvariant, PTL DEF Spec

(* The log that a numbered set of entries represents.                      *)
LogOf(es) == [i \in 1 .. Cardinality(es) |->
                LET e == CHOOSE d \in es : d.seq = i IN [key |-> e.key, txn |-> e.txn]]

(* The position of an entry in the log is its number.                      *)
LEMMA LogAt ==
    ASSUME NEW es \in SUBSET Entries, Numbered(es), \A d, e \in es : d.seq = e.seq => d = e
    PROVE  /\ LogOf(es) \in Seq([key : Keys, txn : Txns]) /\ Len(LogOf(es)) = Cardinality(es)
           /\ DOMAIN LogOf(es) = 1 .. Cardinality(es)
           /\ \A e \in es : /\ e.seq \in 1 .. Cardinality(es)
                            /\ LogOf(es)[e.seq] = [key |-> e.key, txn |-> e.txn]
                            /\ LogOf(es)[e.seq].key = e.key /\ LogOf(es)[e.seq].txn = e.txn
<1> DEFINE at(i) == CHOOSE d \in es : d.seq = i
           item(e) == [key |-> e.key, txn |-> e.txn]
<1>1. PICK n \in Nat : n = Cardinality(es)
  BY FS_CardinalityType DEF Numbered
<1>2. \A e \in es : e.seq \in 1 .. n /\ e.key \in Keys /\ e.txn \in Txns
  BY <1>1 DEF Numbered, Entries
<1>3. ASSUME NEW i \in 1 .. n PROVE at(i) \in es /\ at(i).seq = i
  <2>1. \E d \in es : d.seq = i
    BY <1>1 DEF Numbered
  <2> QED BY <2>1
<1>4. ASSUME NEW e \in es PROVE at(e.seq) = e
  <2>1. at(e.seq) \in es /\ at(e.seq).seq = e.seq
    BY <1>2, <1>3
  <2> QED BY <2>1
<1>5. LogOf(es) = [i \in 1 .. n |-> item(at(i))]
  BY <1>1 DEF LogOf
<1>6. \A e \in es : item(e) \in [key : Keys, txn : Txns] /\ item(e).key = e.key /\ item(e).txn = e.txn
  BY <1>2
<1> HIDE DEF at, item
<1>7. LogOf(es) \in Seq([key : Keys, txn : Txns]) /\ Len(LogOf(es)) = n
  BY <1>3, <1>5, <1>6
<1>8. \A e \in es : LogOf(es)[e.seq] = item(e)
  BY <1>2, <1>4, <1>5
<1> QED BY <1>1, <1>2, <1>5, <1>6, <1>7, <1>8 DEF item

(* The same of the log of the ledger.                                      *)
LEMMA LedgerLog ==
    ASSUME TypeOK, ChainInv, LogInv
    PROVE  /\ JournalLog \in Seq([key : Keys, txn : Txns]) /\ Len(JournalLog) = Cardinality(entries)
           /\ DOMAIN JournalLog = 1 .. Cardinality(entries)
           /\ \A e \in entries : /\ e.seq \in 1 .. Cardinality(entries)
                                 /\ JournalLog[e.seq] = [key |-> e.key, txn |-> e.txn]
                                 /\ JournalLog[e.seq].key = e.key /\ JournalLog[e.seq].txn = e.txn
<1>1. entries \in SUBSET Entries /\ Numbered(entries) /\ \A d, e \in entries : d.seq = e.seq => d = e
  BY DEF TypeOK, LogInv, ChainInv, ChainIntact
<1>2. JournalLog = LogOf(entries)
  BY DEF JournalLog, LogOf
<1> QED BY <1>1, <1>2, LogAt

(* An insert appends to the log and acknowledges nothing.                  *)
LEMMA InsertIsRecord ==
    ASSUME TypeOK, ChainInv, LogInv, TypeOK', ChainInv', LogInv',
           NEW c \in Calls, InsertOK(c) \/ InsertUnacknowledged(c)
    PROVE  Abstract!JournalNext
<1>1. /\ pc[c] = "insert" /\ ~IsDuplicate(c) /\ entries' = entries \cup {NewEntry(c)} /\ req' = req
      /\ \A b \in Calls : b # c => reply'[b] = reply[b]
      /\ reply[c].status # "success" /\ reply'[c].status # "success"
  BY DEF InsertOK, InsertUnacknowledged, Goto, Return, TypeOK, Failure, ChainInv, AnsweredWhenDone
<1>2. PICK e : e = NewEntry(c)
  OBVIOUS
<1>3. PICK n \in Nat : n = Cardinality(entries)
  BY <1>1, InsertIsNext
<1>4. /\ Cardinality(entries') = n + 1 /\ e.seq = n + 1 /\ e \in entries'
      /\ e.key = req[c].key /\ e.txn = req[c].txn
  BY <1>1, <1>2, <1>3, InsertIsNext DEF NewEntry
<1>5. req[c].key \in Keys /\ req[c].txn \in Txns
  BY <1>1, RequestFields DEF TypeOK
<1>6. /\ JournalLog \in Seq([key : Keys, txn : Txns]) /\ Len(JournalLog) = n /\ DOMAIN JournalLog = 1 .. n
      /\ \A d \in entries : /\ d.seq \in 1 .. n /\ JournalLog[d.seq] = [key |-> d.key, txn |-> d.txn]
                            /\ JournalLog[d.seq].key = d.key
  BY <1>3, LedgerLog
<1>7. /\ JournalLog' \in Seq([key : Keys, txn : Txns]) /\ Len(JournalLog') = n + 1
      /\ \A d \in entries' : JournalLog'[d.seq] = [key |-> d.key, txn |-> d.txn]
  <2>1. entries' \in SUBSET Entries /\ Numbered(entries') /\ \A d, b \in entries' : d.seq = b.seq => d = b
    BY Zenon DEF TypeOK, LogInv, ChainInv, ChainIntact, Numbered
  <2>2. JournalLog' = LogOf(entries')
    BY DEF JournalLog, LogOf
  <2>3. /\ LogOf(entries') \in Seq([key : Keys, txn : Txns]) /\ Len(LogOf(entries')) = Cardinality(entries')
        /\ \A d \in entries' : LogOf(entries')[d.seq] = [key |-> d.key, txn |-> d.txn]
    BY <2>1, LogAt
  <2> QED BY <1>4, <2>2, <2>3
<1>8. \A i \in 1 .. n : JournalLog'[i] = JournalLog[i]
  <2> SUFFICES ASSUME NEW i \in 1 .. n PROVE JournalLog'[i] = JournalLog[i]
    OBVIOUS
  <2>1. PICK d \in entries : d.seq = i
    BY <1>3 DEF LogInv, Numbered
  <2>2. d \in entries'
    BY <1>1, <2>1
  <2>3. JournalLog'[d.seq] = [key |-> d.key, txn |-> d.txn]
    BY <1>7, <2>2
  <2>4. JournalLog[d.seq] = [key |-> d.key, txn |-> d.txn]
    BY <1>6, <2>1
  <2> QED BY <2>1, <2>3, <2>4
<1>9. JournalLog'[n + 1] = [key |-> req[c].key, txn |-> req[c].txn]
  BY <1>4, <1>7
<1> DEFINE it == [key |-> req[c].key, txn |-> req[c].txn]
<1>10. it \in [key : Keys, txn : Txns]
  BY <1>5
<1>11. JournalLog' = Append(JournalLog, it)
  <2> HIDE DEF it
  <2>1. PICK s \in Seq([key : Keys, txn : Txns]), t \in Seq([key : Keys, txn : Txns]) :
          s = JournalLog /\ t = JournalLog'
    BY <1>6, <1>7
  <2>2. Len(s) = n /\ Len(t) = n + 1 /\ (\A i \in 1 .. n : t[i] = s[i]) /\ t[n + 1] = it
    BY <1>6, <1>7, <1>8, <1>9, <2>1 DEF it
  <2>3. t = Append(s, it)
    BY <1>10, <2>2
  <2> QED BY <2>1, <2>3
<1>12. \A i \in DOMAIN JournalLog : JournalLog[i].key # req[c].key
  <2> SUFFICES ASSUME NEW i \in 1 .. n PROVE JournalLog[i].key # req[c].key
    BY <1>6
  <2>1. PICK d \in entries : d.seq = i
    BY <1>3 DEF LogInv, Numbered
  <2>2. d.key # req[c].key
    BY <1>1, <1>2, <1>4 DEF IsDuplicate, Conflicts
  <2> QED BY <1>6, <2>1, <2>2
<1>13. JournalAcked' = JournalAcked
  BY <1>1 DEF JournalAcked
<1>14. Abstract!Record(req[c].key, req[c].txn)
  BY <1>11, <1>12, <1>13 DEF Abstract!Record
<1> QED BY <1>5, <1>14 DEF Abstract!JournalNext

(* A call that answers success acknowledges an entry of the log.           *)
LEMMA AnswerIsAcknowledge ==
    ASSUME TypeOK, ChainInv, LogInv, NEW c \in Calls, NEW e \in entries, pc[c] # "done",
           e.key = req[c].key, Return(c, Success(e.txn)), UNCHANGED <<entries, req>>
    PROVE  Abstract!JournalNext
<1>1. /\ reply[c].status # "success"
      /\ reply'[c].status = "success" /\ reply'[c].txn = e.txn
      /\ \A b \in Calls : b # c => reply'[b] = reply[b]
  BY DEF Return, Success, TypeOK, ChainInv, AnsweredWhenDone
<1>2. JournalAcked' = JournalAcked \cup {<<req[c].key, e.txn>>}
  BY <1>1 DEF JournalAcked
<1>3. e.seq \in DOMAIN JournalLog /\ JournalLog[e.seq].key = e.key /\ JournalLog[e.seq].txn = e.txn
  BY LedgerLog
<1>4. JournalLog' = JournalLog
  BY DEF JournalLog
<1>5. Abstract!Acknowledge(e.seq)
  BY <1>2, <1>3, <1>4 DEF Abstract!Acknowledge
<1> QED BY <1>3, <1>5 DEF Abstract!JournalNext

(* A step that neither stores an entry nor answers success leaves the      *)
(* journal as it is.                                                       *)
LEMMA QuietStep ==
    ASSUME entries' = entries,
           \A c \in Calls : /\ reply'[c].status = "success" <=> reply[c].status = "success"
                            /\ reply[c].status = "success" => reply'[c] = reply[c] /\ req'[c] = req[c]
    PROVE  UNCHANGED <<JournalLog, JournalAcked>>
<1>1. JournalLog' = JournalLog
  BY DEF JournalLog
<1>2. JournalAcked' = JournalAcked
  BY DEF JournalAcked
<1> QED BY <1>1, <1>2

(* Every step of the pods is a step of the journal or none.                *)
LEMMA StepIsJournalStep ==
    ASSUME TypeOK, ChainInv, LogInv, TypeOK', ChainInv', LogInv', [Next]_vars
    PROVE  [Abstract!JournalNext]_<<JournalLog, JournalAcked>>
<1>1. ASSUME NEW c \in Calls, InsertOK(c) \/ InsertUnacknowledged(c) PROVE Abstract!JournalNext
  BY <1>1, InsertIsRecord
<1>2. ASSUME NEW c \in Calls, ReplayStored(c) \/ DuplicateIsReplay(c) PROVE Abstract!JournalNext
  <2>1. PICK e \in entries : e.key = req[c].key /\ Return(c, Success(e.txn))
    BY <1>2 DEF ReplayStored, DuplicateIsReplay, Recorded
  <2>2. pc[c] # "done" /\ UNCHANGED <<entries, req>>
    BY <1>2 DEF ReplayStored, DuplicateIsReplay
  <2> QED BY <2>1, <2>2, AnswerIsAcknowledge
<1>3. ASSUME NEW c \in Calls, AppendAudit(c) PROVE Abstract!JournalNext
  <2>1. PICK e \in entries : e.key = req[c].key /\ e.txn = req[c].txn
    BY <1>3 DEF AppendAudit, ChainInv, StoredBeforeAudit
  <2>2. pc[c] # "done" /\ UNCHANGED <<entries, req>> /\ Return(c, Success(e.txn))
    BY <1>3, <2>1 DEF AppendAudit
  <2> QED BY <2>1, <2>2, AnswerIsAcknowledge
<1>4. ASSUME NEW c \in Calls, pc[c] # "done", entries' = entries, req' = req,
             Return(c, Failure) \/ reply' = reply
      PROVE  UNCHANGED <<JournalLog, JournalAcked>>
  <2>1. reply[c].status # "success" /\ Failure.status = "failure"
    BY <1>4 DEF ChainInv, AnsweredWhenDone, Failure
  <2> QED BY <1>4, <2>1, QuietStep DEF Return, TypeOK
<1>5. ASSUME NEW c \in Calls, Receive(c) PROVE UNCHANGED <<JournalLog, JournalAcked>>
  <2>1. reply[c].status # "success" /\ Failure.status = "failure" /\ entries' = entries
    BY <1>5 DEF ChainInv, AnsweredWhenDone, Failure, Receive
  <2>2. /\ \A b \in Calls : b # c => reply'[b] = reply[b] /\ req'[b] = req[b]
        /\ reply'[c] \in {reply[c], Failure}
    BY <1>5 DEF Receive, Goto, Return, TypeOK
  <2> QED BY <2>1, <2>2, QuietStep
<1>6. ASSUME NEW c \in Calls,
             \/ NoDuplicateSeen(c) \/ ReadHead(c) \/ ReadHeadMiss(c) \/ InsertDuplicate(c) \/ InsertFails(c)
             \/ DuplicateIsCollision(c) \/ GiveUp(c) \/ AppendAuditFails(c)
      PROVE  UNCHANGED <<JournalLog, JournalAcked>>
  <2>1. /\ pc[c] # "done" /\ entries' = entries /\ req' = req
        /\ Return(c, Failure) \/ reply' = reply
    BY <1>6 DEF NoDuplicateSeen, ReadHead, ReadHeadMiss, Lock, InsertDuplicate, InsertFails, DuplicateIsCollision,
                GiveUp, AppendAuditFails, Goto
  <2> QED BY <1>4, <2>1
<1>7. ASSUME NEW p \in Pods, Crash(p) PROVE UNCHANGED <<JournalLog, JournalAcked>>
  <2>1. /\ entries' = entries /\ req' = req
        /\ \A c \in Calls : \/ reply'[c] = reply[c]
                            \/ pc[c] # "done" /\ reply'[c] = Failure
    BY <1>7 DEF Crash
  <2>2. \A c \in Calls : pc[c] # "done" => reply[c].status = "none"
    BY DEF ChainInv, AnsweredWhenDone
  <2>3. Failure.status = "failure"
    BY DEF Failure
  <2> QED BY <2>1, <2>2, <2>3, QuietStep
<1>8. CASE VerifyStart \/ VerifyNext \/ VerifyEnd \/ UNCHANGED vars
  BY <1>8, QuietStep DEF VerifyStart, VerifyNext, VerifyEnd, vars, callVars
<1> QED BY <1>1, <1>2, <1>3, <1>5, <1>6, <1>7, <1>8 DEF Next, Step

(* The pods, with their collisions, retries, faults and crashes, implement *)
(* a journal that only grows at its end, holds a key once, and             *)
(* acknowledges what it holds (RecordTransaction).                         *)
THEOREM LedgerImplementsJournal == Spec => ImplementsJournal
<1>1. Init => Abstract!JournalInit
  <2> SUFFICES ASSUME Init PROVE Abstract!JournalInit
    OBVIOUS
  <2>1. JournalLog = << >>
    BY FS_EmptySet DEF Init, JournalLog
  <2>2. JournalAcked = {}
    BY DEF Init, JournalAcked, NoReply
  <2> QED BY <2>1, <2>2 DEF Abstract!JournalInit
<1>2. /\ TypeOK /\ ChainInv /\ LogInv /\ TypeOK' /\ ChainInv' /\ LogInv' /\ [Next]_vars
      => [Abstract!JournalNext]_<<JournalLog, JournalAcked>>
  BY StepIsJournalStep
<1> QED
  BY <1>1, <1>2, TypeCorrect, ChainInvariant, LogInvariant, PTL
     DEF Spec, ImplementsJournal, Abstract!JournalSpec

-----------------------------------------------------------------------------
(* The account of lost insert attempts.  The callers of RecordTransaction  *)
(* make a transaction id for one idempotency key.                          *)
OneKeyPerTxn == \A r, s \in Requests : r.txn = s.txn => r.key = s.key

(* The calls of other pods that hold the sequence number of an entry, and  *)
(* those of them below the number a call has read.                         *)
Holds(d) == /\ pc[d] = "audit" \/ reply[d].status = "success"
            /\ \E e \in entries : e.seq = seqNumber[d]
Foreign(c) == {d \in Calls : PodOf[d] # PodOf[c] /\ Holds(d)}
Below(c) == {d \in Foreign(c) : seqNumber[d] < seqNumber[c]}

(* A call that is about to insert has lost its earlier attempts to entries *)
(* below the number it read, and if that number is taken by now, then by   *)
(* another pod, since it holds the mutex of its own; so is the attempt it  *)
(* has just lost, unless its key is stored.                                *)
LossesExplained(c) ==
    /\ attempt[c] <= Cardinality(Foreign(c))
    /\ pc[c] = "insert" =>
         /\ seqMu[PodOf[c]] = c
         /\ attempt[c] <= Cardinality(Below(c))
         /\ \A e \in entries : e.seq = seqNumber[c] =>
              \E d \in Foreign(c) : seqNumber[d] = seqNumber[c]
    /\ pc[c] = "dup" /\ Recorded(req[c].key) = {} => attempt[c] + 1 <= Cardinality(Foreign(c))
RequestsStored == \A e \in entries : \E r \in Requests : e.key = r.key /\ e.txn = r.txn
CollisionInv == RequestsStored /\ \A c \in Calls : LossesExplained(c)

(* Counting calls.                                                         *)
LEMMA CallCounts ==
    ASSUME IsFiniteSet(Calls)
    PROVE  /\ \A S \in SUBSET Calls : IsFiniteSet(S) /\ Cardinality(S) \in Nat
           /\ \A S, T \in SUBSET Calls : S \subseteq T => Cardinality(S) <= Cardinality(T)
           /\ \A S, T \in SUBSET Calls : \A d \in T \ S :
                S \subseteq T => Cardinality(S) + 1 <= Cardinality(T)
<1>1. \A S \in SUBSET Calls : IsFiniteSet(S) /\ Cardinality(S) \in Nat
  BY FS_Subset, FS_CardinalityType
<1>2. \A S, T \in SUBSET Calls : S \subseteq T => Cardinality(S) <= Cardinality(T)
  BY <1>1, FS_Subset
<1>3. ASSUME NEW S \in SUBSET Calls, NEW T \in SUBSET Calls, NEW d \in T \ S, S \subseteq T
      PROVE  Cardinality(S) + 1 <= Cardinality(T)
  <2>1. S \subseteq T \ {d} /\ T \ {d} \in SUBSET Calls
    BY <1>3
  <2>2. Cardinality(S) <= Cardinality(T \ {d})
    BY <1>2, <2>1
  <2>3. Cardinality(T \ {d}) = Cardinality(T) - 1
    BY <1>1, FS_RemoveElement
  <2> QED BY <1>1, <2>1, <2>2, <2>3
<1> QED BY <1>1, <1>2, <1>3

(* A call that holds a number keeps it while the database answers: it has  *)
(* been answered, or is appending its audit event.                         *)
LEMMA HoldsStays ==
    ASSUME TypeOK, ChainInv, ~Faults, [Next]_vars
    PROVE  /\ \A d \in Calls : Holds(d) => Holds(d)' /\ seqNumber'[d] = seqNumber[d]
           /\ entries \subseteq entries'
<1>1. entries \subseteq entries'
  BY EntriesOnlyInserted DEF InsertOK, InsertUnacknowledged
<1>2. ASSUME NEW d \in Calls, pc[d] = "audit" \/ reply[d].status = "success"
      PROVE  /\ seqNumber'[d] = seqNumber[d]
             /\ pc'[d] = "audit" \/ reply'[d].status = "success"
  <2>1. pc[d] \in {"audit", "done"}
    BY <1>2 DEF ChainInv, AnsweredWhenDone
  <2>2. ASSUME NEW c \in Calls, Receive(c) \/ Step(c), d # c
        PROVE  pc'[d] = pc[d] /\ reply'[d] = reply[d] /\ seqNumber'[d] = seqNumber[d]
    <3>1. /\ Goto(c, pc'[c]) \/ \E r : Return(c, r)
          /\ seqNumber' = seqNumber \/ \E s : seqNumber' = [seqNumber EXCEPT ![c] = s]
      <4>1. ASSUME NEW l, Goto(c, l) PROVE Goto(c, pc'[c])
        BY <4>1 DEF Goto, TypeOK
      <4>2. CASE Receive(c) \/ ReplayStored(c) \/ NoDuplicateSeen(c) \/ DuplicateIsReplay(c)
        BY <4>1, <4>2 DEF Receive, ReplayStored, NoDuplicateSeen, DuplicateIsReplay
      <4>3. CASE ReadHead(c) \/ ReadHeadMiss(c) \/ InsertOK(c) \/ InsertDuplicate(c)
        BY <4>1, <4>3 DEF ReadHead, ReadHeadMiss, InsertOK, InsertDuplicate, Lock
      <4>4. CASE DuplicateIsCollision(c) \/ GiveUp(c) \/ AppendAudit(c)
        BY <4>1, <4>4 DEF DuplicateIsCollision, GiveUp, AppendAudit
      <4>5. CASE InsertFails(c) \/ InsertUnacknowledged(c) \/ AppendAuditFails(c)
        BY <4>5 DEF InsertFails, InsertUnacknowledged, AppendAuditFails
      <4> QED BY <2>2, <4>2, <4>3, <4>4, <4>5 DEF Step
    <3> QED BY <2>2, <3>1 DEF Goto, Return, TypeOK
  <2>3. CASE Receive(d) \/ Step(d)
    <3>1. AppendAudit(d)
      BY <2>1, <2>3 DEF Receive, Step, ReplayStored, NoDuplicateSeen, ReadHead, ReadHeadMiss, Lock,
         InsertOK, InsertDuplicate, InsertFails, InsertUnacknowledged, DuplicateIsReplay,
         DuplicateIsCollision, GiveUp, AppendAuditFails
    <3> QED BY <3>1 DEF AppendAudit, Return, Success, TypeOK
  <2>4. CASE UNCHANGED <<callVars>>
    BY <1>2, <2>4 DEF callVars
  <2>5. CASE VerifyStart \/ VerifyNext \/ VerifyEnd \/ UNCHANGED vars
    BY <2>4, <2>5 DEF VerifyStart, VerifyNext, VerifyEnd, vars
  <2>6. \A p \in Pods : ~Crash(p)
    BY DEF Crash
  <2> QED BY <1>2, <2>2, <2>3, <2>5, <2>6 DEF Next
<1> QED BY <1>1, <1>2 DEF Holds

(* The sets that are counted grow.                                         *)
LEMMA ForeignGrows ==
    ASSUME IsFiniteSet(Calls), TypeOK, NEW b \in Calls,
           \A d \in Calls : Holds(d) => Holds(d)' /\ seqNumber'[d] = seqNumber[d]
    PROVE  /\ Foreign(b) \subseteq Foreign(b)'
           /\ Cardinality(Foreign(b)) \in Nat /\ Cardinality(Foreign(b)') \in Nat
           /\ Cardinality(Foreign(b)) <= Cardinality(Foreign(b)')
           /\ seqNumber'[b] = seqNumber[b] => /\ Cardinality(Below(b)) <= Cardinality(Below(b)')
                                              /\ Cardinality(Below(b)) \in Nat
                                              /\ Cardinality(Below(b)') \in Nat
<1>1. Foreign(b) \subseteq Foreign(b)' /\ Foreign(b) \in SUBSET Calls /\ Foreign(b)' \in SUBSET Calls
  BY DEF Foreign
<1>2. Below(b) \in SUBSET Calls /\ Below(b)' \in SUBSET Calls
  BY <1>1 DEF Below
<1>3. seqNumber'[b] = seqNumber[b] => Below(b) \subseteq Below(b)'
  BY <1>1 DEF Below, Foreign
<1> QED BY <1>1, <1>2, <1>3, CallCounts

(* A call that does not move keeps its account, if a new entry with its    *)
(* number was inserted by another pod.                                     *)
LEMMA BystanderKeepsAccount ==
    ASSUME IsFiniteSet(Calls), TypeOK, NEW b \in Calls, LossesExplained(b),
           \A d \in Calls : Holds(d) => Holds(d)' /\ seqNumber'[d] = seqNumber[d],
           entries \subseteq entries',
           pc'[b] = pc[b], seqNumber'[b] = seqNumber[b], attempt'[b] = attempt[b], req'[b] = req[b],
           pc[b] = "insert" =>
             /\ seqMu'[PodOf[b]] = seqMu[PodOf[b]]
             /\ \A e \in entries' \ entries : e.seq = seqNumber[b] =>
                  \E d \in Foreign(b)' : seqNumber'[d] = seqNumber[b]
    PROVE  LossesExplained(b)'
<1>1. /\ Foreign(b) \subseteq Foreign(b)'
      /\ Cardinality(Foreign(b)) \in Nat /\ Cardinality(Foreign(b)') \in Nat
      /\ Cardinality(Foreign(b)) <= Cardinality(Foreign(b)')
      /\ Cardinality(Below(b)) <= Cardinality(Below(b)')
      /\ Cardinality(Below(b)) \in Nat /\ Cardinality(Below(b)') \in Nat
  BY ForeignGrows
<1>2. attempt[b] \in Nat
  BY LedgerAssumption DEF TypeOK
<1>3. attempt[b] <= Cardinality(Foreign(b)')
  BY <1>1, <1>2 DEF LossesExplained
<1>4. ASSUME pc[b] = "insert"
      PROVE  /\ seqMu'[PodOf[b]] = b /\ attempt[b] <= Cardinality(Below(b)')
             /\ \A e \in entries' : e.seq = seqNumber[b] =>
                  \E d \in Foreign(b)' : seqNumber'[d] = seqNumber[b]
  <2>1. seqMu'[PodOf[b]] = b /\ attempt[b] <= Cardinality(Below(b)')
    BY <1>1, <1>2, <1>4 DEF LossesExplained
  <2>2. ASSUME NEW e \in entries, e.seq = seqNumber[b]
        PROVE  \E d \in Foreign(b)' : seqNumber'[d] = seqNumber[b]
    <3>1. PICK d \in Foreign(b) : seqNumber[d] = seqNumber[b]
      BY <1>4, <2>2 DEF LossesExplained
    <3>2. d \in Foreign(b)' /\ seqNumber'[d] = seqNumber[d]
      BY <1>1 DEF Foreign
    <3> QED BY <3>1, <3>2
  <2> QED BY <1>4, <2>1, <2>2
<1>5. ASSUME pc[b] = "dup", Recorded(req[b].key)' = {}, req'[b] = req[b]
      PROVE  attempt[b] + 1 <= Cardinality(Foreign(b)')
  <2>1. Recorded(req[b].key) = {}
    BY <1>5 DEF Recorded
  <2> QED BY <1>1, <1>2, <1>5, <2>1 DEF LossesExplained
<1> QED BY <1>3, <1>4, <1>5 DEF LossesExplained

(* The call that moves: where it is no longer about to insert, nor judging *)
(* an error, its account is the first line of LossesExplained.             *)
LEMMA OtherStepsKeepAccount ==
    ASSUME IsFiniteSet(Calls), TypeOK, NEW c \in Calls, LossesExplained(c),
           \A d \in Calls : Holds(d) => Holds(d)' /\ seqNumber'[d] = seqNumber[d],
           pc'[c] \notin {"insert", "dup"}, attempt'[c] = attempt[c]
    PROVE  LossesExplained(c)'
<1>1. /\ Cardinality(Foreign(c)) \in Nat /\ Cardinality(Foreign(c)') \in Nat
      /\ Cardinality(Foreign(c)) <= Cardinality(Foreign(c)')
  BY ForeignGrows
<1>2. attempt[c] \in Nat
  BY LedgerAssumption DEF TypeOK
<1> QED BY <1>1, <1>2 DEF LossesExplained

(* Under the mutex a call reads a head above every number that is held.    *)
LEMMA LockKeepsAccount ==
    ASSUME IsFiniteSet(Calls), TypeOK, NEW c \in Calls, LossesExplained(c), Lock(c),
           \A d \in Calls : Holds(d) => Holds(d)' /\ seqNumber'[d] = seqNumber[d],
           UNCHANGED <<entries, attempt>>, seqNumber'[c] \in Nat,
           \A e \in entries : e.seq < seqNumber'[c]
    PROVE  LossesExplained(c)'
<1>1. /\ Foreign(c) \subseteq Foreign(c)'
      /\ Cardinality(Foreign(c)) \in Nat /\ Cardinality(Foreign(c)') \in Nat
      /\ Cardinality(Foreign(c)) <= Cardinality(Foreign(c)')
  BY ForeignGrows
<1>2. attempt[c] \in Nat /\ attempt[c] <= Cardinality(Foreign(c)')
  BY <1>1, LedgerAssumption DEF TypeOK, LossesExplained
<1>3. pc'[c] = "insert" /\ seqMu'[PodOf[c]] = c
  BY LedgerAssumption DEF Lock, Goto, TypeOK
<1>4. Below(c)' = Foreign(c)'
  BY DEF Below, Foreign, Holds
<1>5. \A e \in entries' : e.seq # seqNumber'[c]
  BY DEF TypeOK, Entries
<1> QED BY <1>2, <1>3, <1>4, <1>5 DEF LossesExplained

(* An insert that is refused although the key is not stored was refused    *)
(* for its sequence number, which a call of another pod holds.             *)
LEMMA RefusedInsertIsExplained ==
    ASSUME IsFiniteSet(Calls), OneKeyPerTxn, TypeOK, RequestsStored, NEW c \in Calls, LossesExplained(c),
           InsertDuplicate(c), Recorded(req[c].key) = {}
    PROVE  attempt[c] + 1 <= Cardinality(Foreign(c))
<1>1. PICK e \in entries : Conflicts(e, NewEntry(c))
  BY DEF InsertDuplicate, IsDuplicate
<1>2. pc[c] = "insert" /\ req[c] \in Requests
  BY DEF InsertDuplicate, TypeOK
<1>3. /\ NewEntry(c).key = req[c].key /\ NewEntry(c).txn = req[c].txn
      /\ NewEntry(c).seq = seqNumber[c]
  BY DEF NewEntry
<1>4. e.key # req[c].key
  BY DEF Recorded
<1>5. e.txn # req[c].txn
  <2>1. PICK r \in Requests : e.key = r.key /\ e.txn = r.txn
    BY DEF RequestsStored
  <2> QED BY <1>2, <1>4, <2>1 DEF OneKeyPerTxn
<1>6. e.seq = seqNumber[c]
  BY <1>1, <1>3, <1>4, <1>5 DEF Conflicts
<1>7. PICK d \in Foreign(c) : seqNumber[d] = seqNumber[c]
  BY <1>2, <1>6 DEF LossesExplained
<1>8. d \notin Below(c) /\ Below(c) \subseteq Foreign(c) /\ Foreign(c) \in SUBSET Calls
  BY <1>7 DEF Below, Foreign, TypeOK
<1>9. Cardinality(Below(c)) + 1 <= Cardinality(Foreign(c))
  <2>1. Below(c) \in SUBSET Calls /\ d \in Foreign(c) \ Below(c)
    BY <1>8
  <2> QED BY <1>8, <2>1, CallCounts
<1>10. Cardinality(Below(c)) \in Nat /\ Cardinality(Foreign(c)) \in Nat
  <2>1. Below(c) \in SUBSET Calls
    BY <1>8
  <2> QED BY <1>8, <2>1, CallCounts
<1>11. attempt[c] \in Nat /\ attempt[c] <= Cardinality(Below(c))
  BY <1>2, LedgerAssumption DEF TypeOK, LossesExplained
<1> QED BY <1>9, <1>10, <1>11

(* While the database answers, every step keeps the account of every call. *)
LEMMA CollisionInvStep ==
    ASSUME IsFiniteSet(Calls), OneKeyPerTxn, TypeOK, ChainInv, ~Faults, CollisionInv, [Next]_vars
    PROVE  CollisionInv'
<1>0. /\ \A d \in Calls : Holds(d) => Holds(d)' /\ seqNumber'[d] = seqNumber[d]
      /\ entries \subseteq entries' /\ RequestsStored /\ \A b \in Calls : LossesExplained(b)
  BY HoldsStays DEF CollisionInv
<1>1. RequestsStored'
  <2>1. CASE entries' = entries
    BY <1>0, <2>1 DEF RequestsStored
  <2>2. ASSUME NEW c \in Calls, InsertOK(c) PROVE RequestsStored'
    <3>1. entries' = entries \cup {NewEntry(c)} /\ req[c] \in Requests
      BY <2>2 DEF InsertOK, TypeOK
    <3>2. NewEntry(c).key = req[c].key /\ NewEntry(c).txn = req[c].txn
      BY DEF NewEntry
    <3> QED BY <1>0, <3>1, <3>2 DEF RequestsStored
  <2> QED BY <2>1, <2>2, EntriesOnlyInserted DEF InsertUnacknowledged
<1> SUFFICES ASSUME NEW b \in Calls PROVE LossesExplained(b)'
  BY <1>1 DEF CollisionInv
<1>2. ASSUME pc'[b] = pc[b], seqNumber'[b] = seqNumber[b], attempt'[b] = attempt[b], req'[b] = req[b],
             entries' = entries, pc[b] = "insert" => seqMu'[PodOf[b]] = seqMu[PodOf[b]]
      PROVE  LossesExplained(b)'
  BY <1>0, <1>2, BystanderKeepsAccount
<1>3. CASE VerifyStart \/ VerifyNext \/ VerifyEnd \/ UNCHANGED vars
  BY <1>2, <1>3 DEF VerifyStart, VerifyNext, VerifyEnd, vars, callVars
<1>4. ASSUME NEW c \in Calls,
             \/ Receive(c) \/ ReplayStored(c) \/ NoDuplicateSeen(c) \/ DuplicateIsReplay(c)
             \/ GiveUp(c) \/ AppendAudit(c)
      PROVE  LossesExplained(b)'
  <2>1. /\ UNCHANGED <<entries, seqMu, seqNumber, attempt>>
        /\ \A d \in Calls : d # c => pc'[d] = pc[d] /\ req'[d] = req[d]
        /\ pc'[c] \in {"check", "lock", "done"}
    BY <1>4 DEF Receive, ReplayStored, NoDuplicateSeen, DuplicateIsReplay, GiveUp, AppendAudit,
       Goto, Return, TypeOK
  <2>2. CASE b = c
    BY <1>0, <2>1, <2>2, OtherStepsKeepAccount
  <2>3. CASE b # c
    BY <1>2, <2>1, <2>3
  <2> QED BY <2>2, <2>3
<1>5. ASSUME NEW c \in Calls, ReadHead(c) \/ ReadHeadMiss(c) PROVE LossesExplained(b)'
  <2>1. /\ Lock(c) /\ UNCHANGED <<entries, attempt, req>>
        /\ \A d \in Calls : d # c => pc'[d] = pc[d] /\ seqNumber'[d] = seqNumber[d]
    BY <1>5 DEF ReadHead, ReadHeadMiss, Lock, Goto, TypeOK
  <2>2. seqNumber'[c] \in Nat /\ \A e \in entries : e.seq < seqNumber'[c]
    <3>1. CASE ReadHead(c)
      <4>1. PICK d \in entries : IsHead(d) /\ seqNumber' = [seqNumber EXCEPT ![c] = d.seq + 1]
        BY <3>1 DEF ReadHead
      <4>2. seqNumber'[c] = d.seq + 1 /\ \A e \in entries : e.seq \in Nat /\ e.seq <= d.seq
        BY <4>1 DEF TypeOK, Entries, IsHead
      <4> QED BY <4>2
    <3>2. CASE ReadHeadMiss(c)
      BY <3>2 DEF ReadHeadMiss, TypeOK
    <3> QED BY <1>5, <3>1, <3>2
  <2>3. CASE b = c
    BY <1>0, <2>1, <2>2, <2>3, LockKeepsAccount
  <2>4. CASE b # c
    <3>1. pc[b] = "insert" => seqMu'[PodOf[b]] = seqMu[PodOf[b]]
      <4>1. ASSUME pc[b] = "insert" PROVE PodOf[b] # PodOf[c]
        <5>1. seqMu[PodOf[b]] = b /\ seqMu[PodOf[c]] = None /\ b # None
          BY <1>0, <2>1, <4>1, LedgerAssumption DEF LossesExplained, Lock
        <5> QED BY <5>1
      <4> QED BY <2>1, <4>1, LedgerAssumption DEF Lock, TypeOK
    <3> QED BY <1>2, <2>1, <2>4, <3>1
  <2> QED BY <2>3, <2>4
<1>6. ASSUME NEW c \in Calls, pc[c] = "insert", pc[b] = "insert", b # c, Unlock(c)
      PROVE  PodOf[b] # PodOf[c] /\ seqMu'[PodOf[b]] = seqMu[PodOf[b]]
  <2>1. seqMu[PodOf[b]] = b /\ seqMu[PodOf[c]] = c
    BY <1>0, <1>6 DEF LossesExplained
  <2> QED BY <1>6, <2>1, LedgerAssumption DEF Unlock, TypeOK
<1>7. ASSUME NEW c \in Calls, InsertOK(c) PROVE LossesExplained(b)'
  <2>1. /\ pc[c] = "insert" /\ Unlock(c) /\ UNCHANGED <<attempt, req, seqNumber>>
        /\ entries' = entries \cup {NewEntry(c)} /\ pc'[c] = "audit"
        /\ \A d \in Calls : d # c => pc'[d] = pc[d]
    BY <1>7 DEF InsertOK, Goto, TypeOK
  <2>2. CASE b = c
    BY <1>0, <2>1, <2>2, OtherStepsKeepAccount
  <2>3. CASE b # c
    <3>1. ASSUME pc[b] = "insert", NEW e \in entries' \ entries, e.seq = seqNumber[b]
          PROVE  \E d \in Foreign(b)' : seqNumber'[d] = seqNumber[b]
      <4>1. e = NewEntry(c) /\ e.seq = seqNumber[c]
        BY <2>1, <3>1 DEF NewEntry
      <4>2. c \in Foreign(b)'
        BY <1>6, <2>1, <2>3, <3>1, <4>1 DEF Foreign, Holds
      <4> QED BY <2>1, <3>1, <4>1, <4>2
    <3>2. pc[b] = "insert" => seqMu'[PodOf[b]] = seqMu[PodOf[b]]
      BY <1>6, <2>1, <2>3
    <3> QED BY <1>0, <2>1, <2>3, <3>1, <3>2, BystanderKeepsAccount
  <2> QED BY <2>2, <2>3
<1>8. ASSUME NEW c \in Calls, InsertDuplicate(c) PROVE LossesExplained(b)'
  <2>1. /\ pc[c] = "insert" /\ Unlock(c) /\ UNCHANGED <<entries, attempt, req, seqNumber>>
        /\ pc'[c] = "dup" /\ \A d \in Calls : d # c => pc'[d] = pc[d]
    BY <1>8 DEF InsertDuplicate, Goto, TypeOK
  <2>2. CASE b = c
    <3>1. /\ Cardinality(Foreign(c)) \in Nat /\ Cardinality(Foreign(c)') \in Nat
          /\ Cardinality(Foreign(c)) <= Cardinality(Foreign(c)')
      BY <1>0, ForeignGrows
    <3>2. attempt[c] \in Nat /\ attempt[c] <= Cardinality(Foreign(c))
      BY <1>0, LedgerAssumption DEF TypeOK, LossesExplained
    <3>3. Recorded(req[c].key) = {} => attempt[c] + 1 <= Cardinality(Foreign(c))
      BY <1>0, <1>8, RefusedInsertIsExplained
    <3>4. Recorded(req[c].key)' = Recorded(req[c].key)
      BY <2>1 DEF Recorded
    <3> QED BY <2>1, <2>2, <3>1, <3>2, <3>3, <3>4 DEF LossesExplained
  <2>3. CASE b # c
    BY <1>2, <1>6, <2>1, <2>3
  <2> QED BY <2>2, <2>3
<1>9. ASSUME NEW c \in Calls, DuplicateIsCollision(c) PROVE LossesExplained(b)'
  <2>1. /\ pc[c] = "dup" /\ Recorded(req[c].key) = {}
        /\ UNCHANGED <<entries, seqMu, req, seqNumber>>
        /\ attempt'[c] = attempt[c] + 1 /\ pc'[c] \in {"lock", "exhausted"}
        /\ \A d \in Calls : d # c => pc'[d] = pc[d] /\ attempt'[d] = attempt[d]
    BY <1>9 DEF DuplicateIsCollision, Goto, TypeOK
  <2>2. CASE b = c
    <3>1. /\ Cardinality(Foreign(c)) \in Nat /\ Cardinality(Foreign(c)') \in Nat
          /\ Cardinality(Foreign(c)) <= Cardinality(Foreign(c)')
      BY <1>0, ForeignGrows
    <3>2. attempt[c] \in Nat /\ attempt[c] + 1 <= Cardinality(Foreign(c))
      BY <1>0, <2>1, LedgerAssumption DEF TypeOK, LossesExplained
    <3> QED BY <2>1, <2>2, <3>1, <3>2 DEF LossesExplained
  <2>3. CASE b # c
    BY <1>2, <2>1, <2>3
  <2> QED BY <2>2, <2>3
<1>10. /\ \A p \in Pods : ~Crash(p)
       /\ \A c \in Calls : ~InsertFails(c) /\ ~InsertUnacknowledged(c) /\ ~AppendAuditFails(c)
  BY DEF Crash, InsertFails, InsertUnacknowledged, AppendAuditFails
<1> QED
  BY <1>3, <1>4, <1>5, <1>7, <1>8, <1>9, <1>10 DEF Next, Step

(* When the database answers, a call loses an insert attempt only to an    *)
(* entry of another pod, one for each, so that on one replica seqMu keeps  *)
(* the optimistic loop from ever seeing a collision: for finitely many     *)
(* calls, if a transaction id comes with one idempotency key.              *)
THEOREM CollisionsExplained ==
    ASSUME IsFiniteSet(Calls), OneKeyPerTxn
    PROVE  Spec => []CollisionsComeFromOtherPods
<1> DEFINE I == ~Faults => CollisionInv
<1>1. Init => I
  <2> SUFFICES ASSUME Init PROVE CollisionInv
    OBVIOUS
  <2>1. RequestsStored /\ \A c \in Calls : pc[c] = "idle" /\ attempt[c] = 0
    BY DEF Init, RequestsStored
  <2>2. \A c \in Calls : Foreign(c) \in SUBSET Calls
    BY DEF Foreign
  <2>3. \A c \in Calls : Cardinality(Foreign(c)) \in Nat
    BY <2>2, CallCounts
  <2> QED BY <2>1, <2>3 DEF CollisionInv, LossesExplained
<1>2. TypeOK /\ ChainInv /\ I /\ [Next]_vars => I'
  BY CollisionInvStep
<1>3. TypeOK /\ I => CollisionsComeFromOtherPods
  <2> SUFFICES ASSUME TypeOK, CollisionInv, NEW c \in Calls
               PROVE  attempt[c] <= Cardinality({d \in Calls : /\ PodOf[d] # PodOf[c]
                                                              /\ \/ pc[d] = "audit"
                                                                 \/ reply[d].status = "success"})
    BY DEF CollisionsComeFromOtherPods
  <2> DEFINE S == {d \in Calls : /\ PodOf[d] # PodOf[c]
                                 /\ pc[d] = "audit" \/ reply[d].status = "success"}
  <2>1. Foreign(c) \subseteq S /\ S \in SUBSET Calls /\ Foreign(c) \in SUBSET Calls
    BY DEF Foreign, Holds
  <2> HIDE DEF S
  <2>2. /\ Cardinality(Foreign(c)) <= Cardinality(S)
        /\ Cardinality(Foreign(c)) \in Nat /\ Cardinality(S) \in Nat
    BY <2>1, CallCounts
  <2>3. attempt[c] \in Nat /\ attempt[c] <= Cardinality(Foreign(c))
    BY LedgerAssumption DEF TypeOK, CollisionInv, LossesExplained
  <2>4. attempt[c] <= Cardinality(S)
    BY <2>2, <2>3
  <2> QED BY <2>4 DEF S
<1> HIDE DEF I
<1> QED
  BY <1>1, <1>2, <1>3, TypeCorrect, ChainInvariant, PTL DEF Spec
=============================================================================
