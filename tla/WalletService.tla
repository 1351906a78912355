--------------------------- MODULE WalletService ---------------------------
(***************************************************************************)
(* The money movements of the wallet service: TransferFunds,               *)
(* ExchangeCurrency, DepositFunds and WithdrawFunds, with CreateWallet and *)
(* the administrative changes of status and KYC tier                       *)
(* (cmd/wallet-service/main.go, compliance.go, ledger_outbox.go).          *)
(*                                                                         *)
(* A handler is one goroutine serving one request at a time, in any pod.   *)
(* Its MongoDB transaction reads a snapshot when it begins; the commit     *)
(* succeeds only if no document it writes was written by anybody since     *)
(* (first committer wins), otherwise the driver runs the callback again.   *)
(* dirty[h] holds the documents written since h's snapshot was taken.      *)
(*                                                                         *)
(* The ledger service is what Journal promises: the first record sent      *)
(* under a key is kept, later ones are answered with it.  Its relay, the   *)
(* balance cache and the failover switch have modules of their own.        *)
(***************************************************************************)
EXTENDS Money, FiniteSets, FiniteSetsExt

CONSTANTS
    Handlers,      \* request goroutines
    Wallets, Currencies, Keys,
    Primary,       \* [Wallets -> Currencies], WalletModel.Currency
    Opening,       \* [Wallets -> Nat], initial_balance of CreateWallet
    Statuses,      \* ACTIVE, FROZEN and CLOSED in the code
    Tiers,         \* KYC tiers
    BasicTier,     \* the tier of a new wallet
    Limits,        \* [Tiers -> [single, daily, hourly : Nat]]
    USDRate,       \* [Currencies -> rate], the fixed velocity rates
    Rates,         \* [Currencies \X Currencies -> set of rates], fx-service or fallback
    External,      \* the clearing account of a payment rail
    CallSet,       \* the requests clients may send
    None,
    FXConfigured,  \* is there a client for the fx-service?
    Faults,        \* may calls fail, pods crash, acknowledgements get lost?
    MaxCalls       \* bound on the number of requests

Ops == {"TRANSFER", "EXCHANGE", "DEPOSIT", "WITHDRAW"}
Accounts == Wallets \cup {External}

CallType ==
    [op : Ops, key : Keys, src : Accounts, dst : Accounts,
     cur : Currencies, to : Currencies, amt : Int]

WalletConstants ==
    /\ Primary \in [Wallets -> Currencies]
    /\ Opening \in [Wallets -> Nat]
    /\ "ACTIVE" \in Statuses
    /\ BasicTier \in Tiers
    /\ Limits \in [Tiers -> [single : Nat, daily : Nat, hourly : Nat]]
    /\ USDRate \in [Currencies -> Nat \X (Nat \ {0})]
    /\ Rates \in [Currencies \X Currencies -> SUBSET (Nat \X (Nat \ {0}))]
    /\ External \notin Wallets
    /\ Wallets \cap Keys = {}
    /\ None \notin CallSet \cup Handlers
    /\ CallSet \subseteq CallType
    /\ \A c \in CallSet :
         /\ c.op # "DEPOSIT" => c.src \in Wallets
         /\ c.op # "WITHDRAW" => c.dst \in Wallets
         /\ c.op = "DEPOSIT" => c.src = External
         /\ c.op = "WITHDRAW" => c.dst = External
         /\ c.op = "EXCHANGE" => c.dst = c.src
    /\ FXConfigured \in BOOLEAN
    /\ Faults \in BOOLEAN
    /\ MaxCalls \in Nat
ASSUME WalletAssumption == WalletConstants

VARIABLES
    wallets,    \* collection wallets: document or None
    velocity,   \* wallet_velocity_records, at most one for a key
    idem,       \* idempotency_records: transaction id or None
    tasks,      \* ledger_tasks: the movement committed under a key, or None
    completed,  \* the keys whose task is marked completed
    ledger,     \* what the ledger service recorded under a key, or None
    pc, call, txn, leg, dirty,  \* locals of each handler
    final,      \* finalTxnID, the id a handler will answer with
    calls,      \* requests received so far, the source of fresh ids
    told        \* <<key, id>> pairs clients were told are done

dbVars == <<wallets, velocity, idem, tasks, completed, ledger>>
handlerVars == <<pc, call, txn, leg, dirty, final>>
vars == <<dbVars, handlerVars, calls, told>>

-----------------------------------------------------------------------------
Docs == [balance : Int, pots : [Currencies -> Int], status : Statuses, tier : Tiers]

Movements ==
    [op : Ops, txn : Nat, src : Accounts, dst : Accounts,
     amt : Nat, cur : Currencies, damt : Nat, dcur : Currencies]

Windows == {"hour", "day"}  \* a record is in the last hour, or in the last 24
Records == [wallet : Wallets, usd : Nat, window : Windows]
Legs == [cur : Currencies, amt : Nat]
Labels == {"idle", "precheck", "tx", "commit", "dispatch"}

(* None stands for "no document": it is not one.                           *)
NoneIsNoDocument == None \notin Docs \cup Movements
ASSUME NoneAssumption == NoneIsNoDocument

DatabaseOK ==
    /\ wallets \in [Wallets -> Docs \cup {None}]
    /\ velocity \in [Keys -> Records \cup {None}]
    /\ idem \in [Keys -> Nat \cup {None}]
    /\ tasks \in [Keys -> Movements \cup {None}]
    /\ completed \subseteq Keys
    /\ ledger \in [Keys -> Movements \cup {None}]
HandlersOK ==
    /\ pc \in [Handlers -> Labels]
    /\ call \in [Handlers -> CallSet \cup {None}]
    /\ txn \in [Handlers -> Nat]
    /\ leg \in [Handlers -> Legs \cup {None}]
    /\ dirty \in [Handlers -> SUBSET (Wallets \cup Keys)]
    /\ final \in [Handlers -> Nat]
TypeOK ==
    /\ DatabaseOK /\ HandlersOK
    /\ calls \in 0 .. MaxCalls
    /\ told \subseteq Keys \X Nat

Init ==
    /\ wallets = [w \in Wallets |-> None]
    /\ velocity = [k \in Keys |-> None]
    /\ idem = [k \in Keys |-> None]
    /\ tasks = [k \in Keys |-> None]
    /\ completed = {}
    /\ ledger = [k \in Keys |-> None]
    /\ pc = [h \in Handlers |-> "idle"]
    /\ call = [h \in Handlers |-> None]
    /\ txn = [h \in Handlers |-> 0]
    /\ leg = [h \in Handlers |-> None]
    /\ dirty = [h \in Handlers |-> {}]
    /\ final = [h \in Handlers |-> 0]
    /\ calls = 0
    /\ told = {}

-----------------------------------------------------------------------------
Exists(w) == wallets[w] # None

(* checkWalletStatus.                                                      *)
Operational(w) == wallets[w].status = "ACTIVE"

(* HasSufficientBalance, on a document whose balances map is never empty.  *)
HasSufficientBalance(w, c, n) == n > 0 /\ wallets[w].pots[c] >= n

(* Mutant: the debit is not conditional on the balance.                    *)
DebitFilterDropped(w, c, n) == TRUE

(* The filter of the debiting updates: the pot, or the base balance when   *)
(* the currency is the wallet's primary one.                               *)
DebitFilter(w, c, n) ==
    \/ wallets[w].pots[c] >= n
    \/ c = Primary[w] /\ wallets[w].balance >= n

(* Mutant: every movement also changes the base balance.                   *)
IncBoth(ws, a, c, n) ==
    IF a = External THEN ws
    ELSE [ws EXCEPT ![a].pots[c] = @ + n, ![a].balance = @ + n]

(* $inc of a pot, and of the base balance when the currency is primary.    *)
Incremented(d, primary, c, n) ==
    [d EXCEPT !.pots[c] = @ + n, !.balance = IF c = primary THEN @ + n ELSE @]

Inc(ws, a, c, n) ==
    IF a = External THEN ws ELSE [ws EXCEPT ![a] = Incremented(@, Primary[a], c, n)]

Moved(ws, m) == Inc(Inc(ws, m.src, m.cur, -m.amt), m.dst, m.dcur, m.damt)

(* GetWalletVelocityUsage.                                                 *)
UsageOf(w) == {k \in Keys : velocity[k] # None /\ velocity[k].wallet = w}
DailySpent(w) == MapThenSumSet(LAMBDA k : velocity[k].usd, UsageOf(w))
HourlyCount(w) == Cardinality({k \in UsageOf(w) : velocity[k].window = "hour"})

NormalizeToUSDUnits(n, c) == ConvertUnitsScaleBankers(n, USDRate[c])

(* The two halves of CheckVelocityLimits: the cap on one transaction, and  *)
(* the rolling limits.                                                     *)
WithinSingleLimit(w, n, c) ==
    NormalizeToUSDUnits(n, c) <= Limits[wallets[w].tier].single

WithinRollingLimits(w, n, c) ==
    LET limit == Limits[wallets[w].tier] IN
    /\ HourlyCount(w) < limit.hourly
    /\ DailySpent(w) + NormalizeToUSDUnits(n, c) <= limit.daily

-----------------------------------------------------------------------------
(* Documents written by a step: every open transaction whose snapshot is   *)
(* older will conflict if it writes one of them too.                       *)
Touched(h, docs) ==
    [g \in Handlers |-> IF g # h /\ pc[g] = "commit" THEN dirty[g] \cup docs ELSE dirty[g]]

Finish(h) ==
    /\ pc' = [pc EXCEPT ![h] = "idle"]
    /\ call' = [call EXCEPT ![h] = None]
    /\ txn' = [txn EXCEPT ![h] = 0]
    /\ leg' = [leg EXCEPT ![h] = None]
    /\ final' = [final EXCEPT ![h] = 0]

Fail(h) == Finish(h) /\ dirty' = [dirty EXCEPT ![h] = {}] /\ UNCHANGED told

(* Mutant: any amount passes.                                              *)
ValidCallAnyAmount(c) ==
    /\ c.op = "TRANSFER" => c.src # c.dst
    /\ c.op = "EXCHANGE" => c.cur # c.to

(* The argument checks every handler starts with.                          *)
ValidCall(c) ==
    /\ c.amt > 0
    /\ c.op = "TRANSFER" => c.src # c.dst
    /\ c.op = "EXCHANGE" => c.cur # c.to

(* A request arrives and gets a fresh transaction id.  An invalid one is   *)
(* refused at once.                                                        *)
Receive(h, c) ==
    /\ pc[h] = "idle"
    /\ calls < MaxCalls
    /\ calls' = calls + 1
    /\ IF ValidCall(c)
       THEN /\ pc' = [pc EXCEPT ![h] = "precheck"]
            /\ call' = [call EXCEPT ![h] = c]
            /\ txn' = [txn EXCEPT ![h] = calls + 1]
            /\ final' = [final EXCEPT ![h] = calls + 1]
       ELSE UNCHANGED <<pc, call, txn, final>>
    /\ UNCHANGED <<dbVars, leg, dirty, told>>

(* Refused without touching the database: a standby replica, a caller who  *)
(* does not own the wallet, a fraud block, a quote that fx-service rejects, *)
(* a failing read.                                                         *)
Refuse(h) ==
    /\ pc[h] = "precheck"
    /\ Fail(h)
    /\ UNCHANGED <<dbVars, calls>>

(* prepareFXConversion: the amount and currency the destination will be    *)
(* credited with, from a read of its primary currency outside the          *)
(* transaction.  When that read fails, nothing is converted.               *)
TransferLegs(c) ==
    LET unconverted == [cur |-> c.cur, amt |-> c.amt] IN
    IF wallets[c.dst] # None /\ FXConfigured /\ c.cur # Primary[c.dst]
    THEN {[cur |-> Primary[c.dst], amt |-> ConvertUnitsScaleBankers(c.amt, r)] :
            r \in Rates[c.cur, Primary[c.dst]]} \cup {l \in {unconverted} : Faults}
    ELSE {unconverted}

(* The checks before the transaction are over: l is what the destination   *)
(* will be credited with.                                                  *)
Prepared(h, l) ==
    /\ leg' = [leg EXCEPT ![h] = l]
    /\ pc' = [pc EXCEPT ![h] = "tx"]
    /\ UNCHANGED <<dbVars, call, txn, dirty, final, calls, told>>

PrepareTransfer(h) ==
    /\ pc[h] = "precheck" /\ call[h].op = "TRANSFER"
    /\ \E l \in TransferLegs(call[h]) : Prepared(h, l)

(* The checks ExchangeCurrency and WithdrawFunds make on a read outside    *)
(* their transaction.  A failing usage query lets the request pass.        *)
DebitLooksFine(w, n, c) ==
    /\ Exists(w) /\ Operational(w)
    /\ HasSufficientBalance(w, c, n)
    /\ WithinSingleLimit(w, n, c)
    /\ WithinRollingLimits(w, n, c) \/ Faults

PrecheckExchange(h) ==
    LET c == call[h] IN
    /\ pc[h] = "precheck" /\ c.op = "EXCHANGE"
    /\ DebitLooksFine(c.src, c.amt, c.cur)
    /\ \E r \in Rates[c.cur, c.to] :
         Prepared(h, [cur |-> c.to, amt |-> ConvertUnitsScaleBankers(c.amt, r)])

PrecheckWithdraw(h) ==
    LET c == call[h] IN
    /\ pc[h] = "precheck" /\ c.op = "WITHDRAW"
    /\ DebitLooksFine(c.src, c.amt, c.cur)
    /\ Prepared(h, [cur |-> c.cur, amt |-> c.amt])

PrecheckDeposit(h) ==
    LET c == call[h] IN
    /\ pc[h] = "precheck" /\ c.op = "DEPOSIT"
    /\ Exists(c.dst) /\ Operational(c.dst)
    /\ Prepared(h, [cur |-> c.cur, amt |-> c.amt])

-----------------------------------------------------------------------------
(* Mutant: only the source wallet's status is checked.                     *)
WalletsOperationalSourceOnly(c) ==
    /\ Exists(c.src) /\ Operational(c.src)
    /\ WithinSingleLimit(c.src, c.amt, c.cur)
    /\ WithinRollingLimits(c.src, c.amt, c.cur)
    /\ Exists(c.dst)

(* Mutant: the rolling limits are left to the caller.                      *)
WalletsOperationalNoVelocity(c) ==
    /\ Exists(c.src) /\ Operational(c.src)
    /\ WithinSingleLimit(c.src, c.amt, c.cur)
    /\ Exists(c.dst) /\ Operational(c.dst)

(* validateWalletsOperational, inside the transaction of a transfer.       *)
WalletsOperational(c) ==
    /\ Exists(c.src) /\ Operational(c.src)
    /\ WithinSingleLimit(c.src, c.amt, c.cur)
    /\ WithinRollingLimits(c.src, c.amt, c.cur)
    /\ Exists(c.dst) /\ Operational(c.dst)

(* Mutant: ledger_tasks has no unique index on the idempotency key.        *)
AcceptedWithoutTaskIndex(h) ==
    LET c == call[h] IN
    /\ c.op = "TRANSFER" =>
         /\ WalletsOperational(c)
         /\ leg[h].cur # Primary[c.dst] => wallets[c.dst].pots[leg[h].cur] > 0
    /\ c.op # "DEPOSIT" => DebitFilter(c.src, c.cur, c.amt)

(* What the transaction callback decides from its snapshot, once it has    *)
(* found no idempotency record: the updates match and ledger_tasks has no  *)
(* task under this key yet (its unique index outlives the 30 days of the   *)
(* idempotency record).                                                    *)
Accepted(h) ==
    LET c == call[h] IN
    /\ c.op = "TRANSFER" =>
         /\ WalletsOperational(c)
         /\ leg[h].cur # Primary[c.dst] => wallets[c.dst].pots[leg[h].cur] > 0
    /\ c.op # "DEPOSIT" => DebitFilter(c.src, c.cur, c.amt)
    /\ tasks[c.key] = None

(* Mutant: a replay is answered with the id of the new attempt.            *)
TxReplayForgetsId(h) ==
    /\ pc[h] = "tx"
    /\ idem[call[h].key] # None
    /\ pc' = [pc EXCEPT ![h] = "dispatch"]
    /\ UNCHANGED <<dbVars, call, txn, leg, dirty, final, calls, told>>

(* The key has an idempotency record: nothing is written.  A transfer      *)
(* answers REJECTED_DUPLICATE with the stored id; the other operations     *)
(* answer SUCCESS with it after dispatching the task they just built.      *)
TxReplay(h) ==
    LET k == call[h].key IN
    /\ pc[h] = "tx"
    /\ idem[k] # None
    /\ IF call[h].op = "TRANSFER"
       THEN /\ told' = told \cup {<<k, idem[k]>>}
            /\ Finish(h)
       ELSE /\ final' = [final EXCEPT ![h] = idem[k]]
            /\ pc' = [pc EXCEPT ![h] = "dispatch"]
            /\ UNCHANGED <<told, call, txn, leg>>
    /\ UNCHANGED <<dbVars, dirty, calls>>

TxReject(h) ==
    /\ pc[h] = "tx"
    /\ idem[call[h].key] = None
    /\ ~Accepted(h)
    /\ Fail(h)
    /\ UNCHANGED <<dbVars, calls>>

(* The LedgerTask of h's request.                                          *)
Task(h) ==
    LET c == call[h] IN
    [op |-> c.op, txn |-> txn[h], src |-> c.src, dst |-> c.dst,
     amt |-> c.amt, cur |-> c.cur, damt |-> leg[h].amt, dcur |-> leg[h].cur]

(* RecordTransaction at the ledger service: the first record of a key wins. *)
Record(k, m) == ledger' = [ledger EXCEPT ![k] = IF @ = None THEN m ELSE @]

(* Mutant: the ledger is told before the commit.                           *)
TxBeginTellsLedger(h) ==
    /\ pc[h] = "tx"
    /\ idem[call[h].key] = None
    /\ Accepted(h)
    /\ Record(call[h].key, Task(h))
    /\ pc' = [pc EXCEPT ![h] = "commit"]
    /\ dirty' = [dirty EXCEPT ![h] = {}]
    /\ UNCHANGED <<wallets, velocity, idem, tasks, completed, call, txn, leg, final, calls, told>>

(* The callback ran to its end against the snapshot taken now.             *)
TxBegin(h) ==
    /\ pc[h] = "tx"
    /\ idem[call[h].key] = None
    /\ Accepted(h)
    /\ pc' = [pc EXCEPT ![h] = "commit"]
    /\ dirty' = [dirty EXCEPT ![h] = {}]
    /\ UNCHANGED <<dbVars, call, txn, leg, final, calls, told>>

WriteSet(h) == ({call[h].src, call[h].dst} \cap Wallets) \cup {call[h].key}

(* Debit, credit, velocity record, ledger task and idempotency record      *)
(* become visible together.                                                *)
Commit(h) ==
    LET c == call[h] IN
    /\ wallets' = Moved(wallets, Task(h))
    /\ tasks' = [tasks EXCEPT ![c.key] = Task(h)]
    /\ idem' = [idem EXCEPT ![c.key] = txn[h]]
    /\ velocity' = IF c.op = "DEPOSIT" THEN velocity
                   ELSE [velocity EXCEPT ![c.key] =
                           [wallet |-> c.src, usd |-> NormalizeToUSDUnits(c.amt, c.cur),
                            window |-> "hour"]]

TxCommit(h) ==
    /\ pc[h] = "commit"
    /\ dirty[h] \cap WriteSet(h) = {}
    /\ Commit(h)
    /\ pc' = [pc EXCEPT ![h] = "dispatch"]
    /\ dirty' = [Touched(h, WriteSet(h)) EXCEPT ![h] = {}]
    /\ UNCHANGED <<completed, ledger, call, txn, leg, final, calls, told>>

(* The commit takes effect but the handler, or its client, never learns.   *)
TxCommitUnknown(h) ==
    /\ Faults
    /\ pc[h] = "commit"
    /\ dirty[h] \cap WriteSet(h) = {}
    /\ Commit(h)
    /\ Finish(h)
    /\ dirty' = [Touched(h, WriteSet(h)) EXCEPT ![h] = {}]
    /\ UNCHANGED <<completed, ledger, calls, told>>

(* A write conflict is a transient error: WithTransaction runs the         *)
(* callback again on a new snapshot.                                       *)
TxConflict(h) ==
    /\ pc[h] = "commit"
    /\ dirty[h] \cap WriteSet(h) # {}
    /\ pc' = [pc EXCEPT ![h] = "tx"]
    /\ dirty' = [dirty EXCEPT ![h] = {}]
    /\ UNCHANGED <<dbVars, call, txn, leg, final, calls, told>>

(* Any other error, or a conflict after the driver stopped retrying.       *)
TxAbort(h) ==
    /\ pc[h] = "commit"
    /\ Faults \/ dirty[h] \cap WriteSet(h) # {}
    /\ Fail(h)
    /\ UNCHANGED <<dbVars, calls>>

-----------------------------------------------------------------------------
Answer(h) ==
    /\ told' = told \cup {<<call[h].key, final[h]>>}
    /\ Finish(h)
    /\ UNCHANGED <<wallets, velocity, idem, tasks, dirty, calls>>

(* The ledger answers, and the task is marked completed by its id: a       *)
(* replay's task was never stored, so its mark matches nothing.            *)
DispatchImmediate(h) ==
    LET k == call[h].key IN
    /\ pc[h] = "dispatch"
    /\ Record(k, Task(h))
    /\ completed' = IF tasks[k] # None /\ tasks[k].txn = txn[h]
                    THEN completed \cup {k} ELSE completed
    /\ Answer(h)

(* The ledger records but its answer, or the mark, is lost.                *)
DispatchUnacknowledged(h) ==
    /\ Faults
    /\ pc[h] = "dispatch"
    /\ Record(call[h].key, Task(h))
    /\ UNCHANGED completed
    /\ Answer(h)

DispatchFails(h) ==
    /\ Faults
    /\ pc[h] = "dispatch"
    /\ UNCHANGED <<ledger, completed>>
    /\ Answer(h)

(* The background relay delivers a stored task (module LedgerRelay).       *)
RelayDelivers(k) ==
    /\ tasks[k] # None /\ k \notin completed
    /\ Record(k, tasks[k])
    /\ completed' = completed \cup {k}
    /\ UNCHANGED <<wallets, velocity, idem, tasks, handlerVars, calls, told>>

(* The pod of a handler dies; an open transaction is rolled back.          *)
Crash(h) ==
    /\ Faults
    /\ pc[h] # "idle"
    /\ Fail(h)
    /\ UNCHANGED <<dbVars, calls>>

-----------------------------------------------------------------------------
CreateWallet(w) ==
    /\ ~Exists(w)
    /\ wallets' = [wallets EXCEPT ![w] =
                     [balance |-> Opening[w],
                      pots |-> [c \in Currencies |-> IF c = Primary[w] THEN Opening[w] ELSE 0],
                      status |-> "ACTIVE", tier |-> BasicTier]]
    /\ dirty' = Touched(None, {w})
    /\ UNCHANGED <<velocity, idem, tasks, completed, ledger, pc, call, txn, leg, final,
                   calls, told>>

UpdateWalletStatus(w, st) ==
    /\ Exists(w)
    /\ wallets' = [wallets EXCEPT ![w].status = st]
    /\ dirty' = Touched(None, {w})
    /\ UNCHANGED <<velocity, idem, tasks, completed, ledger, pc, call, txn, leg, final,
                   calls, told>>

UpdateWalletKYC(w, t) ==
    /\ Exists(w)
    /\ wallets' = [wallets EXCEPT ![w].tier = t]
    /\ dirty' = Touched(None, {w})
    /\ UNCHANGED <<velocity, idem, tasks, completed, ledger, pc, call, txn, leg, final,
                   calls, told>>

(* Time passes for a velocity record: it leaves the last hour, then the    *)
(* last 24.                                                                *)
AgeVelocity(k) ==
    /\ velocity[k] # None
    /\ velocity' = [velocity EXCEPT ![k] =
                      IF @.window = "hour" THEN [@ EXCEPT !.window = "day"] ELSE None]
    /\ UNCHANGED <<wallets, idem, tasks, completed, ledger, handlerVars, calls, told>>

(* The TTL index deletes an idempotency record after 30 days; no request   *)
(* lives that long.                                                        *)
ExpireIdempotency(k) ==
    /\ idem[k] # None
    /\ \A h \in Handlers : pc[h] = "idle"
    /\ idem' = [idem EXCEPT ![k] = None]
    /\ UNCHANGED <<wallets, velocity, tasks, completed, ledger, handlerVars, calls, told>>

-----------------------------------------------------------------------------
Handle(h) ==
    \/ Refuse(h) \/ PrepareTransfer(h)
    \/ PrecheckExchange(h) \/ PrecheckWithdraw(h) \/ PrecheckDeposit(h)
    \/ TxReplay(h) \/ TxReject(h) \/ TxBegin(h) \/ TxCommit(h) \/ TxCommitUnknown(h)
    \/ TxConflict(h) \/ TxAbort(h)
    \/ DispatchImmediate(h) \/ DispatchUnacknowledged(h) \/ DispatchFails(h)
    \/ Crash(h)

Next ==
    \/ \E h \in Handlers : Handle(h) \/ \E c \in CallSet : Receive(h, c)
    \/ \E w \in Wallets :
         \/ CreateWallet(w)
         \/ \E st \in Statuses : UpdateWalletStatus(w, st)
         \/ \E t \in Tiers : UpdateWalletKYC(w, t)
    \/ \E k \in Keys : RelayDelivers(k) \/ AgeVelocity(k) \/ ExpireIdempotency(k)

Spec == Init /\ [][Next]_vars
-----------------------------------------------------------------------------
(* No pot is ever overdrawn and the base balance stays the mirror of the   *)
(* primary pot, although debits match either of the two.                   *)
NoOverdraft ==
    \A w \in Wallets : Exists(w) =>
      /\ \A c \in Currencies : wallets[w].pots[c] >= 0
      /\ wallets[w].balance = wallets[w].pots[Primary[w]]

(* What the movement m changed in pot c of wallet w.                       *)
Share(m, w, c) ==
    (IF m.dst = w /\ m.dcur = c THEN m.damt ELSE 0)
      - (IF m.src = w /\ m.cur = c THEN m.amt ELSE 0)

(* Every pot is its opening balance plus what the outbox tasks moved: each *)
(* committed movement took effect exactly once, with the amounts its       *)
(* ledger task carries, whatever was retried, replayed, lost or expired.   *)
OutboxExplainsBalances ==
    \A w \in Wallets, c \in Currencies : Exists(w) =>
      wallets[w].pots[c] =
        (IF c = Primary[w] THEN Opening[w] ELSE 0)
          + MapThenSumSet(LAMBDA k : Share(tasks[k], w, c), {k \in Keys : tasks[k] # None})

(* Nothing outside the wallets speaks of a movement that was rolled back:  *)
(* every id a client was told for a key is the id of the one movement      *)
(* committed under it, and the ledger has a record under a key only if a   *)
(* movement was committed under it.                                        *)
AnswersAgree ==
    /\ \A a \in told : tasks[a[1]] # None /\ tasks[a[1]].txn = a[2]
    /\ \A k \in Keys : ledger[k] # None => tasks[k] # None

Committed(k) == tasks[k] = None /\ tasks'[k] # None

(* Funds move between operational wallets only, judged at the moment of    *)
(* the commit.                                                             *)
FencedWhenCommitted(ops) ==
    \A k \in Keys : Committed(k) /\ tasks'[k].op \in ops =>
      \A w \in {tasks'[k].src, tasks'[k].dst} \cap Wallets : Operational(w)

(* The source stays within its tier's limits at the moment of the commit.  *)
WithinLimitsWhenCommitted(ops) ==
    \A k \in Keys : Committed(k) /\ tasks'[k].op \in ops =>
      LET m == tasks'[k] IN
      WithinSingleLimit(m.src, m.amt, m.cur) /\ WithinRollingLimits(m.src, m.amt, m.cur)

(* A transfer never touches a wallet that is frozen or closed, however a   *)
(* status update interleaves with it: the checks are in the transaction    *)
(* and the updates conflict with a concurrent status change.               *)
TransfersAreFenced == [][FencedWhenCommitted({"TRANSFER"})]_vars

(* Concurrent transfers, exchanges and withdrawals cannot push a transfer  *)
(* over the velocity limits.                                               *)
TransfersKeepLimits == [][WithinLimitsWhenCommitted({"TRANSFER"})]_vars

-----------------------------------------------------------------------------
(* Claims of the documentation that the code does not keep; no run expects *)
(* them to hold (README, section 4).                                       *)

(* No movement of any kind touches a frozen or closed wallet: the "atomic  *)
(* transaction fencing" of the guide.  DepositFunds, WithdrawFunds and     *)
(* ExchangeCurrency check the status before their transaction only.        *)
AllMovementsFenced == [][FencedWhenCommitted(Ops)]_vars

(* The ledger's record of a key is the movement the wallets committed.     *)
LedgerMatchesOutbox ==
    \A k \in Keys : ledger[k] # None => ledger[k] = tasks[k]
=============================================================================
