------------------------ MODULE WalletService_proofs ------------------------
(***************************************************************************)
(* Proofs about WalletService, for any wallets, currencies, rates, limits, *)
(* requests and handlers.                                                  *)
(*                                                                         *)
(* A handler decides on the snapshot its transaction began with and writes *)
(* at the commit. The invariant says what survives in between (Fresh): as  *)
(* long as nobody has written a document of the handler's write set, which *)
(* is when MongoDB lets it commit, the documents it judged are as it       *)
(* judged them. So the debit it checked is still covered, the wallets it   *)
(* found still exist and, for a transfer, are still operational, and its   *)
(* key is still unused. Shape says what a handler holds at each of its     *)
(* steps.                                                                  *)
(***************************************************************************)
EXTENDS WalletService, TLAPS

(* Rounding half to even yields a natural number of minor units.           *)
LEMMA RoundToEvenType ==
    ASSUME NEW num \in Nat, NEW den \in Nat \ {0}
    PROVE  RoundToEven(num, den) \in Nat
<1>1. num \div den \in Int /\ num \div den >= 0
  OBVIOUS
<1> QED BY <1>1 DEF RoundToEven

(* Converting an amount of minor units yields an amount of minor units.    *)
LEMMA ConvertType ==
    ASSUME NEW units \in Nat, NEW rate \in Nat \X (Nat \ {0})
    PROVE  ConvertUnitsScaleBankers(units, rate) \in Nat
<1>1. units * rate[1] \in Nat /\ rate[2] \in Nat \ {0}
  OBVIOUS
<1>2. RoundToEven(units * rate[1], rate[2]) \in Nat
  BY <1>1, RoundToEvenType
<1> QED BY <1>2 DEF ConvertUnitsScaleBankers

(* What $inc does to one document: one pot moves, the base balance with it *)
(* when the pot is the primary one.                                        *)
LEMMA IncrementedEffect ==
    ASSUME NEW d \in Docs, NEW c \in Currencies, NEW n \in Int, NEW p \in Currencies
    PROVE  LET e == Incremented(d, p, c, n) IN
           /\ e \in Docs
           /\ e.pots[c] = d.pots[c] + n
           /\ \A x \in Currencies : x # c => e.pots[x] = d.pots[x]
           /\ e.balance = IF c = p THEN d.balance + n ELSE d.balance
           /\ e.status = d.status /\ e.tier = d.tier
<1>1. /\ d.pots \in [Currencies -> Int] /\ d.balance \in Int
      /\ d.status \in Statuses /\ d.tier \in Tiers
  BY DEF Docs
<1> DEFINE ps == [d.pots EXCEPT ![c] = @ + n]
           b == IF c = p THEN d.balance + n ELSE d.balance
<1>2. /\ ps \in [Currencies -> Int] /\ ps[c] = d.pots[c] + n
      /\ \A x \in Currencies : x # c => ps[x] = d.pots[x]
      /\ b \in Int
  BY <1>1
<1>3. Incremented(d, p, c, n) = [d EXCEPT !.pots = ps, !.balance = b]
  BY DEF Incremented, Docs
<1> HIDE DEF ps
<1>4. [d EXCEPT !.pots = ps, !.balance = b] \in Docs
  BY <1>2 DEF Docs
<1>5. LET e == [d EXCEPT !.pots = ps, !.balance = b] IN
      e.pots = ps /\ e.balance = b /\ e.status = d.status /\ e.tier = d.tier
  BY DEF Docs
<1> QED BY <1>2, <1>3, <1>4, <1>5

(* A document that is not overdrawn and whose base balance mirrors the     *)
(* primary pot.                                                            *)
Sound(w, d) == (\A c \in Currencies : d.pots[c] >= 0) /\ d.balance = d.pots[Primary[w]]

(* An increment that the pot can bear keeps the document sound.            *)
LEMMA IncrementedSound ==
    ASSUME WalletConstants, NEW w \in Wallets, NEW d \in Docs, NEW c \in Currencies, NEW n \in Int,
           Sound(w, d), d.pots[c] + n >= 0
    PROVE  Sound(w, Incremented(d, Primary[w], c, n))
<1>1. Primary[w] \in Currencies
  BY DEF WalletConstants
<1> DEFINE e == Incremented(d, Primary[w], c, n)
<1>2. /\ e \in Docs /\ e.pots[c] = d.pots[c] + n
      /\ \A x \in Currencies : x # c => e.pots[x] = d.pots[x]
      /\ e.balance = IF c = Primary[w] THEN d.balance + n ELSE d.balance
  BY <1>1, IncrementedEffect
<1> HIDE DEF e
<1>3. Sound(w, e)
  BY <1>1, <1>2 DEF Sound
<1> QED BY <1>3 DEF e

(* $inc of one account leaves the other wallets.                           *)
LEMMA IncEffect ==
    ASSUME WalletConstants, NEW ws \in [Wallets -> Docs \cup {None}], NEW a \in Accounts,
           a \in Wallets => ws[a] \in Docs, NEW c \in Currencies, NEW n \in Int
    PROVE  /\ Inc(ws, a, c, n) \in [Wallets -> Docs \cup {None}]
           /\ \A w \in Wallets : w # a => Inc(ws, a, c, n)[w] = ws[w]
           /\ a \in Wallets => /\ Inc(ws, a, c, n)[a] = Incremented(ws[a], Primary[a], c, n)
                               /\ Inc(ws, a, c, n)[a] \in Docs
                               /\ Inc(ws, a, c, n)[a].status = ws[a].status
<1>1. CASE a = External
  BY <1>1 DEF Inc, WalletConstants
<1>2. CASE a # External
  <2>1. a \in Wallets /\ ws[a] \in Docs /\ Primary[a] \in Currencies
    BY <1>2 DEF Accounts, WalletConstants
  <2> DEFINE e == Incremented(ws[a], Primary[a], c, n)
  <2>2. Inc(ws, a, c, n) = [ws EXCEPT ![a] = e]
    BY <1>2 DEF Inc
  <2>3. e \in Docs /\ e.status = ws[a].status
    BY <2>1, IncrementedEffect
  <2> HIDE DEF e
  <2>4. /\ [ws EXCEPT ![a] = e] \in [Wallets -> Docs \cup {None}]
        /\ [ws EXCEPT ![a] = e][a] = e
        /\ \A w \in Wallets : w # a => [ws EXCEPT ![a] = e][w] = ws[w]
    BY <2>1, <2>3
  <2> QED BY <2>2, <2>3, <2>4 DEF e
<1> QED BY <1>1, <1>2

(* A movement whose debit the filter of the update lets pass keeps every   *)
(* wallet sound, changes no status and touches its two parties only.       *)
LEMMA MovedEffect ==
    ASSUME WalletConstants, DatabaseOK, NoOverdraft, NEW m \in Movements,
           \A w \in {m.src, m.dst} \cap Wallets : Exists(w),
           m.src \in Wallets => DebitFilter(m.src, m.cur, m.amt)
    PROVE  LET ws == Moved(wallets, m) IN
           /\ ws \in [Wallets -> Docs \cup {None}]
           /\ \A w \in Wallets : w \notin {m.src, m.dst} => ws[w] = wallets[w]
           /\ \A w \in {m.src, m.dst} \cap Wallets : ws[w] \in Docs /\ Sound(w, ws[w])
<1>1. /\ m.src \in Accounts /\ m.dst \in Accounts /\ m.cur \in Currencies /\ m.dcur \in Currencies
      /\ m.amt \in Nat /\ m.damt \in Nat
  BY DEF Movements
<1>2. wallets \in [Wallets -> Docs \cup {None}]
  BY DEF DatabaseOK
<1>3. \A w \in {m.src, m.dst} \cap Wallets : wallets[w] \in Docs /\ Sound(w, wallets[w])
  BY <1>2 DEF Exists, NoOverdraft, Sound
<1> DEFINE v == Inc(wallets, m.src, m.cur, -m.amt)
           ws == Inc(v, m.dst, m.dcur, m.damt)
<1>4. /\ v \in [Wallets -> Docs \cup {None}]
      /\ \A w \in Wallets : w # m.src => v[w] = wallets[w]
      /\ m.src \in Wallets => /\ v[m.src] = Incremented(wallets[m.src], Primary[m.src], m.cur, -m.amt)
                              /\ v[m.src] \in Docs
  BY <1>1, <1>2, <1>3, IncEffect
<1>5. m.src \in Wallets => Sound(m.src, v[m.src])
  <2> SUFFICES ASSUME m.src \in Wallets PROVE Sound(m.src, v[m.src])
    OBVIOUS
  <2>1. wallets[m.src] \in Docs /\ Sound(m.src, wallets[m.src])
    BY <1>3
  <2>2. wallets[m.src].pots[m.cur] >= m.amt
    BY <2>1 DEF DebitFilter, Sound
  <2>3. wallets[m.src].pots[m.cur] + (-m.amt) >= 0 /\ -m.amt \in Int
    BY <1>1, <2>1, <2>2 DEF Docs
  <2> HIDE DEF v
  <2> QED BY <1>1, <1>4, <2>1, <2>3, IncrementedSound
<1> HIDE DEF v
<1>6. \A w \in {m.src, m.dst} \cap Wallets : v[w] \in Docs /\ Sound(w, v[w])
  BY <1>3, <1>4, <1>5
<1>7. /\ ws \in [Wallets -> Docs \cup {None}]
      /\ \A w \in Wallets : w # m.dst => ws[w] = v[w]
      /\ m.dst \in Wallets => /\ ws[m.dst] = Incremented(v[m.dst], Primary[m.dst], m.dcur, m.damt)
                              /\ ws[m.dst] \in Docs
  BY <1>1, <1>4, <1>6, IncEffect
<1>8. m.dst \in Wallets => Sound(m.dst, ws[m.dst])
  <2> SUFFICES ASSUME m.dst \in Wallets PROVE Sound(m.dst, ws[m.dst])
    OBVIOUS
  <2>1. v[m.dst] \in Docs /\ Sound(m.dst, v[m.dst])
    BY <1>6
  <2>2. v[m.dst].pots[m.dcur] + m.damt >= 0 /\ m.damt \in Int
    BY <1>1, <2>1 DEF Docs, Sound
  <2> HIDE DEF ws
  <2> QED BY <1>1, <1>7, <2>1, <2>2, IncrementedSound
<1>9. ws = Moved(wallets, m)
  BY DEF Moved, v
<1> HIDE DEF ws
<1>10. /\ \A w \in Wallets : w \notin {m.src, m.dst} => ws[w] = wallets[w]
       /\ \A w \in {m.src, m.dst} \cap Wallets : ws[w] \in Docs /\ Sound(w, ws[w])
  BY <1>4, <1>6, <1>7, <1>8
<1> QED BY <1>7, <1>9, <1>10

-----------------------------------------------------------------------------
(* The inductive invariant.                                                *)
Parties(h) == {call[h].src, call[h].dst} \cap Wallets

(* What the step a handler has reached says about its locals: the request  *)
(* is valid, the credited leg is known once the prechecks are over, and    *)
(* the id it will answer with is that of the movement under its key.       *)
Shape(h) ==
    /\ pc[h] # "idle" => call[h] \in CallSet /\ ValidCall(call[h])
    /\ pc[h] \in {"tx", "commit", "dispatch"} => leg[h] \in Legs
    /\ pc[h] \in {"precheck", "tx", "commit"} => final[h] = txn[h]
    /\ pc[h] \in {"tx", "commit"} /\ call[h].op # "TRANSFER" => \A w \in Parties(h) : Exists(w)
    /\ pc[h] = "dispatch" => /\ tasks[call[h].key] # None
                             /\ tasks[call[h].key].txn = final[h]

(* A transaction that can still commit judged the documents it will write  *)
(* as they are now: its snapshot is not stale where it matters.            *)
Fresh(h) ==
    pc[h] = "commit" /\ dirty[h] \cap WriteSet(h) = {} =>
      /\ tasks[call[h].key] = None
      /\ call[h].op # "DEPOSIT" => DebitFilter(call[h].src, call[h].cur, call[h].amt)
      /\ \A w \in Parties(h) : Exists(w)
      /\ call[h].op = "TRANSFER" => \A w \in Parties(h) : Operational(w)

(* The idempotency record of a key names the movement under it.            *)
IdemNamesTask == \A k \in Keys : idem[k] # None => tasks[k] # None /\ tasks[k].txn = idem[k]

WalletInv ==
    /\ TypeOK /\ NoOverdraft /\ IdemNamesTask /\ AnswersAgree
    /\ \A h \in Handlers : Shape(h) /\ Fresh(h)

-----------------------------------------------------------------------------
(* A step of one handler, given by the locals it then has.                 *)
Becomes(h, p, c, x, l, d, f) ==
    /\ HandlersOK'
    /\ \A g \in Handlers : g # h =>
         /\ pc'[g] = pc[g] /\ call'[g] = call[g] /\ txn'[g] = txn[g] /\ leg'[g] = leg[g]
         /\ dirty'[g] = dirty[g] /\ final'[g] = final[g]
    /\ pc'[h] = p /\ call'[h] = c /\ txn'[h] = x /\ leg'[h] = l /\ dirty'[h] = d /\ final'[h] = f

(* The request of a handler that is serving one.                           *)
LEMMA Serving ==
    ASSUME WalletConstants, WalletInv, NEW h \in Handlers, pc[h] # "idle"
    PROVE  /\ call[h] \in CallSet /\ ValidCall(call[h]) /\ call[h] \in CallType
           /\ call[h].key \in Keys /\ call[h].amt \in Nat /\ call[h].cur \in Currencies
           /\ call[h].to \in Currencies /\ call[h].src \in Accounts /\ call[h].dst \in Accounts
           /\ call[h].op # "DEPOSIT" => call[h].src \in Wallets
           /\ call[h].op # "WITHDRAW" => call[h].dst \in Wallets
           /\ call[h].op = "DEPOSIT" => call[h].src = External
<1>1. call[h] \in CallSet /\ ValidCall(call[h])
  BY DEF WalletInv, Shape
<1>2. /\ call[h] \in CallType
      /\ call[h].op # "DEPOSIT" => call[h].src \in Wallets
      /\ call[h].op # "WITHDRAW" => call[h].dst \in Wallets
      /\ call[h].op = "DEPOSIT" => call[h].src = External
  BY <1>1 DEF WalletConstants
<1>3. /\ call[h].key \in Keys /\ call[h].amt \in Int /\ call[h].cur \in Currencies
      /\ call[h].to \in Currencies /\ call[h].src \in Accounts /\ call[h].dst \in Accounts
  BY <1>2 DEF CallType
<1> QED BY <1>1, <1>2, <1>3 DEF ValidCall

(* A handler that is done is idle.                                         *)
LEMMA FinishBecomes ==
    ASSUME HandlersOK, NEW h \in Handlers, Finish(h), dirty' = dirty \/ dirty' = [dirty EXCEPT ![h] = {}]
    PROVE  Becomes(h, "idle", None, 0, None, dirty'[h], 0)
<1>1. "idle" \in Labels
  BY DEF Labels
<1>2. /\ pc' = [pc EXCEPT ![h] = "idle"] /\ call' = [call EXCEPT ![h] = None]
      /\ txn' = [txn EXCEPT ![h] = 0] /\ leg' = [leg EXCEPT ![h] = None]
      /\ final' = [final EXCEPT ![h] = 0]
  BY DEF Finish
<1>3. dirty' \in [Handlers -> SUBSET (Wallets \cup Keys)]
  BY DEF HandlersOK
<1>4. HandlersOK'
  BY <1>1, <1>2, <1>3 DEF HandlersOK
<1> QED BY <1>2, <1>4 DEF HandlersOK, Becomes

(* A step of one handler that leaves the wallets, the tasks and the        *)
(* idempotency records, and keeps what is known of that handler, keeps the *)
(* invariant.                                                              *)
LEMMA LocalStep ==
    ASSUME WalletInv, NEW h \in Handlers, NEW p, NEW c, NEW x, NEW l, NEW d, NEW f,
           Becomes(h, p, c, x, l, d, f), UNCHANGED <<wallets, velocity, idem, tasks>>,
           Shape(h)', Fresh(h)', completed' \subseteq Keys,
           ledger' \in [Keys -> Movements \cup {None}], calls' \in 0 .. MaxCalls,
           told' \subseteq Keys \X Nat, AnswersAgree'
    PROVE  WalletInv'
<1>0. TypeOK /\ DatabaseOK /\ NoOverdraft /\ IdemNamesTask
  BY DEF WalletInv, TypeOK
<1>1. TypeOK'
  BY <1>0 DEF TypeOK, DatabaseOK, Becomes
<1>2. NoOverdraft' /\ IdemNamesTask'
  BY <1>0 DEF NoOverdraft, IdemNamesTask, Exists
<1>3. ASSUME NEW g \in Handlers, g # h PROVE Shape(g)' /\ Fresh(g)'
  <2>1. /\ pc'[g] = pc[g] /\ call'[g] = call[g] /\ txn'[g] = txn[g] /\ leg'[g] = leg[g]
        /\ dirty'[g] = dirty[g] /\ final'[g] = final[g]
    BY <1>3 DEF Becomes
  <2>2. Shape(g) /\ Fresh(g)
    BY DEF WalletInv
  <2>3. Shape(g)'
    BY <2>1, <2>2 DEF Shape, Parties, Exists
  <2>4. Fresh(g)'
    BY <2>1, <2>2 DEF Fresh, WriteSet, Parties, Exists, Operational, DebitFilter
  <2> QED BY <2>3, <2>4
<1> QED BY <1>1, <1>2, <1>3 DEF WalletInv

(* A handler that gives up: whatever it held is gone.                      *)
LEMMA FailKeepsInv ==
    ASSUME WalletConstants, WalletInv, NEW h \in Handlers, Fail(h), UNCHANGED <<dbVars, calls>>
    PROVE  WalletInv'
<1>0. TypeOK /\ HandlersOK /\ DatabaseOK /\ AnswersAgree
  BY DEF WalletInv, TypeOK
<1>1. Becomes(h, "idle", None, 0, None, dirty'[h], 0)
  BY <1>0, FinishBecomes DEF Fail
<1>2. /\ UNCHANGED <<wallets, velocity, idem, tasks>>
      /\ completed' = completed /\ ledger' = ledger /\ told' = told /\ calls' = calls
  BY DEF Fail, dbVars
<1>3. Shape(h)' /\ Fresh(h)'
  BY <1>1 DEF Becomes, Shape, Fresh
<1>4. AnswersAgree'
  BY <1>0, <1>2 DEF AnswersAgree
<1> QED BY <1>0, <1>1, <1>2, <1>3, <1>4, LocalStep DEF TypeOK, DatabaseOK

(* The refusals, the aborts and the crash of a handler's pod.              *)
LEMMA RefusalsKeepInv ==
    ASSUME WalletConstants, WalletInv, NEW h \in Handlers,
           Refuse(h) \/ TxReject(h) \/ TxAbort(h) \/ Crash(h)
    PROVE  WalletInv'
<1>1. Fail(h) /\ UNCHANGED <<dbVars, calls>>
  BY DEF Refuse, TxReject, TxAbort, Crash
<1> QED BY <1>1, FailKeepsInv

(* A request arrives.                                                      *)
LEMMA ReceiveKeepsInv ==
    ASSUME WalletConstants, WalletInv, NEW h \in Handlers, NEW c \in CallSet, Receive(h, c)
    PROVE  WalletInv'
<1>0. TypeOK /\ HandlersOK /\ DatabaseOK /\ AnswersAgree
  BY DEF WalletInv, TypeOK
<1>1. /\ UNCHANGED <<wallets, velocity, idem, tasks>>
      /\ completed' = completed /\ ledger' = ledger /\ told' = told /\ calls' = calls + 1
      /\ calls' \in 0 .. MaxCalls /\ pc[h] = "idle" /\ leg' = leg /\ dirty' = dirty
  BY <1>0 DEF Receive, dbVars, TypeOK, WalletConstants
<1>2. AnswersAgree'
  BY <1>0, <1>1 DEF AnswersAgree
<1>3. completed' \subseteq Keys /\ ledger' \in [Keys -> Movements \cup {None}] /\ told' \subseteq Keys \X Nat
  BY <1>0, <1>1 DEF TypeOK, DatabaseOK
<1>4. CASE ValidCall(c)
  <2>1. /\ pc' = [pc EXCEPT ![h] = "precheck"] /\ call' = [call EXCEPT ![h] = c]
        /\ txn' = [txn EXCEPT ![h] = calls + 1] /\ final' = [final EXCEPT ![h] = calls + 1]
    BY <1>4 DEF Receive
  <2>2. calls + 1 \in Nat /\ "precheck" \in Labels
    BY <1>0 DEF TypeOK, Labels
  <2>3. HandlersOK'
    BY <1>0, <1>1, <2>1, <2>2 DEF HandlersOK
  <2>4. Becomes(h, "precheck", c, calls + 1, leg[h], dirty[h], calls + 1)
    BY <1>0, <1>1, <2>1, <2>3 DEF HandlersOK, Becomes
  <2>5. Shape(h)' /\ Fresh(h)'
    BY <1>4, <2>4 DEF Becomes, Shape, Fresh
  <2> QED BY <1>1, <1>2, <1>3, <2>4, <2>5, LocalStep
<1>5. CASE ~ValidCall(c)
  <2>1. pc' = pc /\ call' = call /\ txn' = txn /\ final' = final
    BY <1>5 DEF Receive
  <2>2. Becomes(h, pc[h], call[h], txn[h], leg[h], dirty[h], final[h])
    BY <1>0, <1>1, <2>1 DEF HandlersOK, Becomes
  <2>3. Shape(h)' /\ Fresh(h)'
    BY <1>1, <2>2 DEF Becomes, Shape, Fresh
  <2> QED BY <1>1, <1>2, <1>3, <2>2, <2>3, LocalStep
<1> QED BY <1>4, <1>5

(* The prechecks are over.                                                 *)
LEMMA PreparedKeepsInv ==
    ASSUME WalletConstants, WalletInv, NEW h \in Handlers, pc[h] = "precheck", NEW l \in Legs,
           Prepared(h, l), call[h].op # "TRANSFER" => \A w \in Parties(h) : Exists(w)
    PROVE  WalletInv'
<1>0. TypeOK /\ HandlersOK /\ DatabaseOK /\ AnswersAgree /\ Shape(h)
  BY DEF WalletInv, TypeOK
<1>1. /\ UNCHANGED <<wallets, velocity, idem, tasks>>
      /\ completed' = completed /\ ledger' = ledger /\ told' = told /\ calls' = calls
      /\ leg' = [leg EXCEPT ![h] = l] /\ pc' = [pc EXCEPT ![h] = "tx"]
      /\ call' = call /\ txn' = txn /\ dirty' = dirty /\ final' = final
  BY DEF Prepared, dbVars
<1>2. "tx" \in Labels
  BY DEF Labels
<1>3. HandlersOK'
  BY <1>0, <1>1, <1>2 DEF HandlersOK
<1>4. Becomes(h, "tx", call[h], txn[h], l, dirty[h], final[h])
  BY <1>0, <1>1, <1>3 DEF HandlersOK, Becomes
<1>5. Shape(h)'
  BY <1>0, <1>1, <1>4 DEF Becomes, Shape, Parties, Exists
<1>6. Fresh(h)' /\ AnswersAgree'
  BY <1>0, <1>1, <1>4 DEF Becomes, Fresh, AnswersAgree
<1> QED BY <1>0, <1>1, <1>4, <1>5, <1>6, LocalStep DEF TypeOK, DatabaseOK

(* The prechecks of the four operations.                                   *)
LEMMA PrechecksKeepInv ==
    ASSUME WalletConstants, WalletInv, NEW h \in Handlers,
           PrepareTransfer(h) \/ PrecheckExchange(h) \/ PrecheckWithdraw(h) \/ PrecheckDeposit(h)
    PROVE  WalletInv'
<1>1. pc[h] = "precheck"
  BY DEF PrepareTransfer, PrecheckExchange, PrecheckWithdraw, PrecheckDeposit
<1>2. /\ call[h] \in CallSet
      /\ call[h].key \in Keys /\ call[h].amt \in Nat /\ call[h].cur \in Currencies
      /\ call[h].to \in Currencies /\ call[h].src \in Accounts /\ call[h].dst \in Accounts
      /\ call[h].op # "DEPOSIT" => call[h].src \in Wallets
      /\ call[h].op # "WITHDRAW" => call[h].dst \in Wallets
      /\ call[h].op = "DEPOSIT" => call[h].src = External
  BY <1>1, Serving
<1>3. \A x, y \in Currencies : \A r \in Rates[x, y] : r \in Nat \X (Nat \ {0})
  BY DEF WalletConstants
<1>4. External \notin Wallets
      /\ (call[h].op = "WITHDRAW" => call[h].dst = External)
      /\ (call[h].op = "EXCHANGE" => call[h].dst = call[h].src)
  BY <1>2 DEF WalletConstants
<1>5. CASE PrepareTransfer(h)
  <2>1. PICK l \in TransferLegs(call[h]) : Prepared(h, l)
    BY <1>5 DEF PrepareTransfer
  <2>2. call[h].op = "TRANSFER"
    BY <1>5 DEF PrepareTransfer
  <2>3. Primary[call[h].dst] \in Currencies
    BY <1>2, <2>2 DEF WalletConstants
  <2>4. l \in Legs
    <3>1. CASE l = [cur |-> call[h].cur, amt |-> call[h].amt]
      BY <1>2, <3>1 DEF Legs
    <3>2. ASSUME NEW r \in Rates[call[h].cur, Primary[call[h].dst]],
                 l = [cur |-> Primary[call[h].dst], amt |-> ConvertUnitsScaleBankers(call[h].amt, r)]
          PROVE  l \in Legs
      <4>1. ConvertUnitsScaleBankers(call[h].amt, r) \in Nat
        BY <1>2, <1>3, <2>3, ConvertType
      <4> QED BY <2>3, <3>2, <4>1 DEF Legs
    <3> QED BY <2>1, <3>1, <3>2 DEF TransferLegs
  <2> QED BY <1>1, <2>1, <2>2, <2>4, PreparedKeepsInv
<1>6. CASE PrecheckExchange(h)
  <2>1. PICK r \in Rates[call[h].cur, call[h].to] :
          Prepared(h, [cur |-> call[h].to, amt |-> ConvertUnitsScaleBankers(call[h].amt, r)])
    BY <1>6 DEF PrecheckExchange
  <2>2. call[h].op = "EXCHANGE" /\ Exists(call[h].src)
    BY <1>6 DEF PrecheckExchange, DebitLooksFine
  <2>3. ConvertUnitsScaleBankers(call[h].amt, r) \in Nat
    BY <1>2, <1>3, ConvertType
  <2>4. [cur |-> call[h].to, amt |-> ConvertUnitsScaleBankers(call[h].amt, r)] \in Legs
    BY <1>2, <2>3 DEF Legs
  <2>5. \A w \in Parties(h) : Exists(w)
    BY <1>4, <2>2 DEF Parties
  <2> QED BY <1>1, <2>1, <2>4, <2>5, PreparedKeepsInv
<1>7. CASE PrecheckWithdraw(h) \/ PrecheckDeposit(h)
  <2>1. Prepared(h, [cur |-> call[h].cur, amt |-> call[h].amt])
    BY <1>7 DEF PrecheckWithdraw, PrecheckDeposit
  <2>2. \/ call[h].op = "WITHDRAW" /\ Exists(call[h].src)
        \/ call[h].op = "DEPOSIT" /\ Exists(call[h].dst)
    BY <1>7 DEF PrecheckWithdraw, PrecheckDeposit, DebitLooksFine
  <2>3. \A w \in Parties(h) : Exists(w)
    BY <1>2, <1>4, <2>2 DEF Parties
  <2>4. [cur |-> call[h].cur, amt |-> call[h].amt] \in Legs
    BY <1>2 DEF Legs
  <2> QED BY <1>1, <2>1, <2>3, <2>4, PreparedKeepsInv
<1> QED BY <1>5, <1>6, <1>7

(* The transaction callback: a replay, an accepted request, a conflict.    *)
LEMMA TxStepsKeepInv ==
    ASSUME WalletConstants, WalletInv, NEW h \in Handlers,
           TxReplay(h) \/ TxBegin(h) \/ TxConflict(h)
    PROVE  WalletInv'
<1>0. TypeOK /\ HandlersOK /\ DatabaseOK /\ AnswersAgree /\ IdemNamesTask /\ Shape(h)
  BY DEF WalletInv, TypeOK
<1>1. /\ UNCHANGED <<wallets, velocity, idem, tasks>>
      /\ completed' = completed /\ ledger' = ledger /\ calls' = calls
      /\ pc[h] \in {"tx", "commit"}
  BY DEF TxReplay, TxBegin, TxConflict, dbVars
<1>2. call[h].key \in Keys /\ leg[h] \in Legs
  BY <1>0, <1>1, Serving DEF Shape
<1>3. completed' \subseteq Keys /\ ledger' \in [Keys -> Movements \cup {None}] /\ calls' \in 0 .. MaxCalls
  BY <1>0, <1>1 DEF TypeOK, DatabaseOK
<1>4. {"tx", "commit", "dispatch"} \subseteq Labels
  BY DEF Labels
<1> DEFINE k == call[h].key
<1>5. CASE TxReplay(h)
  <2>1. /\ pc[h] = "tx" /\ idem[k] # None /\ tasks[k] # None /\ tasks[k].txn = idem[k]
        /\ idem[k] \in Nat
    BY <1>0, <1>2, <1>5 DEF TxReplay, IdemNamesTask, DatabaseOK
  <2>2. CASE call[h].op = "TRANSFER"
    <3>1. told' = told \cup {<<k, idem[k]>>} /\ Finish(h) /\ dirty' = dirty
      BY <1>5, <2>2 DEF TxReplay
    <3>2. Becomes(h, "idle", None, 0, None, dirty'[h], 0)
      BY <1>0, <3>1, FinishBecomes
    <3>3. Shape(h)' /\ Fresh(h)'
      BY <3>2 DEF Becomes, Shape, Fresh
    <3>4. told' \subseteq Keys \X Nat
      BY <1>0, <1>2, <2>1, <3>1 DEF TypeOK
    <3>5. AnswersAgree'
      BY <1>0, <1>1, <2>1, <3>1 DEF AnswersAgree
    <3> QED BY <1>1, <1>3, <3>2, <3>3, <3>4, <3>5, LocalStep
  <2>3. CASE call[h].op # "TRANSFER"
    <3>1. /\ final' = [final EXCEPT ![h] = idem[k]] /\ pc' = [pc EXCEPT ![h] = "dispatch"]
          /\ told' = told /\ call' = call /\ txn' = txn /\ leg' = leg /\ dirty' = dirty
      BY <1>5, <2>3 DEF TxReplay
    <3>2. HandlersOK'
      BY <1>0, <1>4, <2>1, <3>1 DEF HandlersOK
    <3>3. Becomes(h, "dispatch", call[h], txn[h], leg[h], dirty[h], idem[k])
      BY <1>0, <3>1, <3>2 DEF HandlersOK, Becomes
    <3>4. Shape(h)' /\ Fresh(h)'
      BY <1>0, <1>1, <2>1, <3>3 DEF Becomes, Shape, Fresh
    <3>5. told' \subseteq Keys \X Nat /\ AnswersAgree'
      BY <1>0, <1>1, <3>1 DEF TypeOK, AnswersAgree
    <3> QED BY <1>1, <1>3, <3>3, <3>4, <3>5, LocalStep
  <2> QED BY <2>2, <2>3
<1>6. CASE TxBegin(h)
  <2>1. /\ pc[h] = "tx" /\ Accepted(h) /\ pc' = [pc EXCEPT ![h] = "commit"]
        /\ dirty' = [dirty EXCEPT ![h] = {}]
        /\ call' = call /\ txn' = txn /\ leg' = leg /\ final' = final /\ told' = told
    BY <1>6 DEF TxBegin
  <2>2. HandlersOK'
    BY <1>0, <1>4, <2>1 DEF HandlersOK
  <2>3. Becomes(h, "commit", call[h], txn[h], leg[h], {}, final[h])
    BY <1>0, <2>1, <2>2 DEF HandlersOK, Becomes
  <2>4. Shape(h)'
    BY <1>0, <1>1, <2>1, <2>3 DEF Becomes, Shape, Parties, Exists
  <2>5. Fresh(h)'
    <3>1. tasks[k] = None
      BY <2>1 DEF Accepted
    <3>2. call[h].op # "DEPOSIT" => DebitFilter(call[h].src, call[h].cur, call[h].amt)
      BY <2>1 DEF Accepted
    <3>3. call[h].op = "TRANSFER" => \A w \in Parties(h) : Exists(w) /\ Operational(w)
      BY <2>1 DEF Accepted, WalletsOperational, Parties
    <3>4. \A w \in Parties(h) : Exists(w)
      BY <1>0, <2>1, <3>3 DEF Shape
    <3> QED BY <1>1, <2>3, <3>1, <3>2, <3>3, <3>4
         DEF Becomes, Fresh, Parties, Exists, Operational, DebitFilter
  <2>6. told' \subseteq Keys \X Nat /\ AnswersAgree'
    BY <1>0, <1>1, <2>1 DEF TypeOK, AnswersAgree
  <2> QED BY <1>1, <1>3, <2>3, <2>4, <2>5, <2>6, LocalStep
<1>7. CASE TxConflict(h)
  <2>1. /\ pc[h] = "commit" /\ pc' = [pc EXCEPT ![h] = "tx"] /\ dirty' = [dirty EXCEPT ![h] = {}]
        /\ call' = call /\ txn' = txn /\ leg' = leg /\ final' = final /\ told' = told
    BY <1>7 DEF TxConflict
  <2>2. HandlersOK'
    BY <1>0, <1>4, <2>1 DEF HandlersOK
  <2>3. Becomes(h, "tx", call[h], txn[h], leg[h], {}, final[h])
    BY <1>0, <2>1, <2>2 DEF HandlersOK, Becomes
  <2>4. Shape(h)' /\ Fresh(h)'
    BY <1>0, <1>1, <2>1, <2>3 DEF Becomes, Shape, Fresh, Parties, Exists
  <2>5. told' \subseteq Keys \X Nat /\ AnswersAgree'
    BY <1>0, <1>1, <2>1 DEF TypeOK, AnswersAgree
  <2> QED BY <1>1, <1>3, <2>3, <2>4, <2>5, LocalStep
<1> QED BY <1>5, <1>6, <1>7

(* The task of a handler is a movement.                                    *)
LEMMA TaskType ==
    ASSUME WalletConstants, WalletInv, NEW h \in Handlers, pc[h] \in {"commit", "dispatch"}
    PROVE  /\ Task(h) \in Movements
           /\ Task(h).op = call[h].op /\ Task(h).txn = txn[h]
           /\ Task(h).src = call[h].src /\ Task(h).dst = call[h].dst
           /\ Task(h).amt = call[h].amt /\ Task(h).cur = call[h].cur
<1>1. /\ call[h] \in CallType /\ call[h].amt \in Nat /\ leg[h] \in Legs /\ txn[h] \in Nat
  BY Serving DEF WalletInv, Shape, TypeOK, HandlersOK
<1> QED BY <1>1 DEF Task, Movements, CallType, Legs

(* The dispatch of a task to the ledger, with or without an answer.        *)
LEMMA DispatchKeepsInv ==
    ASSUME WalletConstants, WalletInv, NEW h \in Handlers,
           DispatchImmediate(h) \/ DispatchUnacknowledged(h) \/ DispatchFails(h)
    PROVE  WalletInv'
<1> DEFINE k == call[h].key
<1>0. TypeOK /\ HandlersOK /\ DatabaseOK /\ AnswersAgree /\ Shape(h)
  BY DEF WalletInv, TypeOK
<1>1. pc[h] = "dispatch" /\ Answer(h) /\ completed' \in {completed, completed \cup {k}}
      /\ (ledger' = ledger \/ Record(k, Task(h)))
  BY DEF DispatchImmediate, DispatchUnacknowledged, DispatchFails
<1>2. k \in Keys /\ Task(h) \in Movements /\ tasks[k] # None /\ tasks[k].txn = final[h]
  BY <1>0, <1>1, Serving, TaskType DEF Shape
<1>3. /\ UNCHANGED <<wallets, velocity, idem, tasks>> /\ calls' = calls /\ dirty' = dirty
      /\ told' = told \cup {<<k, final[h]>>} /\ Finish(h)
  BY <1>1 DEF Answer
<1>4. /\ ledger' \in [Keys -> Movements \cup {None}]
      /\ \A j \in Keys : ledger'[j] # None => j = k \/ ledger[j] # None
  <2>1. CASE ledger' = ledger
    BY <1>0, <2>1 DEF DatabaseOK
  <2>2. CASE Record(k, Task(h))
    BY <1>0, <1>2, <2>2 DEF DatabaseOK, Record
  <2> QED BY <1>1, <2>1, <2>2
<1>5. completed' \subseteq Keys /\ calls' \in 0 .. MaxCalls
  BY <1>0, <1>1, <1>2, <1>3 DEF TypeOK, DatabaseOK
<1>6. told' \subseteq Keys \X Nat
  BY <1>0, <1>2, <1>3 DEF TypeOK, HandlersOK
<1>7. AnswersAgree'
  BY <1>0, <1>2, <1>3, <1>4 DEF AnswersAgree
<1>8. Becomes(h, "idle", None, 0, None, dirty'[h], 0)
  BY <1>0, <1>3, FinishBecomes
<1>9. Shape(h)' /\ Fresh(h)'
  BY <1>8 DEF Becomes, Shape, Fresh
<1> QED BY <1>3, <1>4, <1>5, <1>6, <1>7, <1>8, <1>9, LocalStep

(* A step that writes some documents keeps what is known of a handler that *)
(* does not take it: a transaction that judged one of them is now stale.   *)
LEMMA OthersKeepShape ==
    ASSUME WalletConstants, WalletInv, NEW docs, NEW g \in Handlers,
           pc'[g] = pc[g], call'[g] = call[g], txn'[g] = txn[g], leg'[g] = leg[g], final'[g] = final[g],
           pc[g] = "commit" => dirty'[g] = dirty[g] \cup docs,
           \A w \in Wallets : w \notin docs => wallets'[w] = wallets[w],
           \A w \in Wallets : wallets[w] # None => wallets'[w] # None,
           \A k \in Keys : k \notin docs => tasks'[k] = tasks[k],
           \A k \in Keys : tasks[k] # None => tasks'[k] = tasks[k]
    PROVE  Shape(g)' /\ Fresh(g)'
<1>0. Shape(g) /\ Fresh(g)
  BY DEF WalletInv
<1>1. pc[g] # "idle" => call[g].key \in Keys /\ (call[g].op # "DEPOSIT" => call[g].src \in Wallets)
  BY Serving
<1>2. Shape(g)'
  BY <1>0, <1>1 DEF Shape, Parties, Exists
<1>3. Fresh(g)'
  <2> SUFFICES ASSUME pc[g] = "commit", dirty'[g] \cap WriteSet(g)' = {}
               PROVE  /\ tasks'[call[g].key] = None
                      /\ call[g].op # "DEPOSIT" => DebitFilter(call[g].src, call[g].cur, call[g].amt)'
                      /\ \A w \in Parties(g) : wallets'[w] # None
                      /\ call[g].op = "TRANSFER" => \A w \in Parties(g) : wallets'[w].status = "ACTIVE"
    BY DEF Fresh, Parties, Exists, Operational, DebitFilter
  <2>1. WriteSet(g)' = WriteSet(g) /\ dirty'[g] = dirty[g] \cup docs
    BY DEF WriteSet
  <2>2. dirty[g] \cap WriteSet(g) = {} /\ docs \cap WriteSet(g) = {}
    BY <2>1
  <2>3. /\ tasks[call[g].key] = None
        /\ call[g].op # "DEPOSIT" => DebitFilter(call[g].src, call[g].cur, call[g].amt)
        /\ \A w \in Parties(g) : wallets[w] # None
        /\ call[g].op = "TRANSFER" => \A w \in Parties(g) : wallets[w].status = "ACTIVE"
    BY <1>0, <2>2 DEF Fresh, Exists, Operational
  <2>4. call[g].key \notin docs /\ \A w \in Parties(g) : w \in Wallets /\ w \notin docs
    BY <2>2 DEF WriteSet, Parties
  <2>5. tasks'[call[g].key] = None /\ \A w \in Parties(g) : wallets'[w] = wallets[w]
    BY <1>1, <2>3, <2>4
  <2>6. call[g].op # "DEPOSIT" => DebitFilter(call[g].src, call[g].cur, call[g].amt)'
    <3> SUFFICES ASSUME call[g].op # "DEPOSIT"
                 PROVE  DebitFilter(call[g].src, call[g].cur, call[g].amt)'
      OBVIOUS
    <3>1. wallets'[call[g].src] = wallets[call[g].src]
      BY <1>1, <2>5 DEF Parties
    <3> QED BY <2>3, <3>1 DEF DebitFilter
  <2> QED BY <2>3, <2>5, <2>6
<1> QED BY <1>2, <1>3

(* The administrative writes of one wallet: every document stays sound.    *)
LEMMA AdminWriteKeepsInv ==
    ASSUME WalletConstants, NoneIsNoDocument, WalletInv, NEW w \in Wallets, NEW d \in Docs,
           Sound(w, d), wallets' = [wallets EXCEPT ![w] = d], dirty' = Touched(None, {w}),
           UNCHANGED <<velocity, idem, tasks, completed, ledger, pc, call, txn, leg, final, calls, told>>
    PROVE  WalletInv'
<1>0. TypeOK /\ HandlersOK /\ DatabaseOK /\ NoOverdraft /\ AnswersAgree /\ IdemNamesTask
  BY DEF WalletInv, TypeOK
<1>1. /\ wallets' \in [Wallets -> Docs \cup {None}] /\ wallets'[w] = d
      /\ \A v \in Wallets : v # w => wallets'[v] = wallets[v]
  BY <1>0 DEF DatabaseOK
<1>2. d # None
  BY DEF NoneIsNoDocument
<1>3. dirty' \in [Handlers -> SUBSET (Wallets \cup Keys)]
  BY <1>0 DEF Touched, HandlersOK
<1>4. DatabaseOK'
  BY <1>0, <1>1 DEF DatabaseOK
<1>5. HandlersOK'
  BY <1>0, <1>3 DEF HandlersOK
<1>6. TypeOK'
  BY <1>0, <1>4, <1>5 DEF TypeOK
<1>7. NoOverdraft'
  BY <1>0, <1>1 DEF NoOverdraft, Exists, Sound
<1>8. IdemNamesTask' /\ AnswersAgree'
  BY <1>0 DEF IdemNamesTask, AnswersAgree
<1>9. ASSUME NEW g \in Handlers PROVE Shape(g)' /\ Fresh(g)'
  <2>1. pc[g] = "commit" => dirty'[g] = dirty[g] \cup {w}
    BY <1>0 DEF Touched, HandlersOK, WalletConstants
  <2> QED BY <1>1, <1>2, <2>1, OthersKeepShape
<1> QED BY <1>6, <1>7, <1>8, <1>9 DEF WalletInv

(* A new wallet, a change of status, a change of tier.                     *)
LEMMA AdminKeepsInv ==
    ASSUME WalletConstants, NoneIsNoDocument, WalletInv, NEW w \in Wallets,
           \/ CreateWallet(w)
           \/ \E st \in Statuses : UpdateWalletStatus(w, st)
           \/ \E t \in Tiers : UpdateWalletKYC(w, t)
    PROVE  WalletInv'
<1>0. wallets \in [Wallets -> Docs \cup {None}] /\ NoOverdraft
  BY DEF WalletInv, TypeOK, DatabaseOK
<1>1. CASE CreateWallet(w)
  <2> DEFINE ps == [c \in Currencies |-> IF c = Primary[w] THEN Opening[w] ELSE 0]
             d == [balance |-> Opening[w], pots |-> ps, status |-> "ACTIVE", tier |-> BasicTier]
  <2>1. Opening[w] \in Nat /\ Primary[w] \in Currencies /\ "ACTIVE" \in Statuses /\ BasicTier \in Tiers
    BY DEF WalletConstants
  <2>2. ps \in [Currencies -> Int] /\ (\A c \in Currencies : ps[c] >= 0) /\ ps[Primary[w]] = Opening[w]
    BY <2>1
  <2>3. wallets' = [wallets EXCEPT ![w] = d]
    BY <1>1 DEF CreateWallet
  <2> HIDE DEF ps
  <2>4. d \in Docs /\ d.balance = Opening[w] /\ d.pots = ps
    BY <2>1, <2>2 DEF Docs
  <2>5. Sound(w, d)
    BY <2>2, <2>4 DEF Sound
  <2> HIDE DEF d
  <2> QED BY <1>1, <2>3, <2>4, <2>5, AdminWriteKeepsInv DEF CreateWallet
<1>2. CASE \E st \in Statuses : UpdateWalletStatus(w, st)
  <2>1. PICK st \in Statuses : UpdateWalletStatus(w, st)
    BY <1>2
  <2>2. wallets[w] \in Docs /\ Sound(w, wallets[w])
    BY <1>0, <2>1 DEF UpdateWalletStatus, Exists, NoOverdraft, Sound
  <2> DEFINE d == [wallets[w] EXCEPT !.status = st]
  <2>3. d \in Docs /\ d.balance = wallets[w].balance /\ d.pots = wallets[w].pots
    BY <2>2 DEF Docs
  <2>4. wallets' = [wallets EXCEPT ![w] = d]
    BY <1>0, <2>1 DEF UpdateWalletStatus
  <2> HIDE DEF d
  <2>5. Sound(w, d)
    BY <2>2, <2>3 DEF Sound
  <2> QED BY <2>1, <2>3, <2>4, <2>5, AdminWriteKeepsInv DEF UpdateWalletStatus
<1>3. CASE \E t \in Tiers : UpdateWalletKYC(w, t)
  <2>1. PICK t \in Tiers : UpdateWalletKYC(w, t)
    BY <1>3
  <2>2. wallets[w] \in Docs /\ Sound(w, wallets[w])
    BY <1>0, <2>1 DEF UpdateWalletKYC, Exists, NoOverdraft, Sound
  <2> DEFINE d == [wallets[w] EXCEPT !.tier = t]
  <2>3. d \in Docs /\ d.balance = wallets[w].balance /\ d.pots = wallets[w].pots
    BY <2>2 DEF Docs
  <2>4. wallets' = [wallets EXCEPT ![w] = d]
    BY <1>0, <2>1 DEF UpdateWalletKYC
  <2> HIDE DEF d
  <2>5. Sound(w, d)
    BY <2>2, <2>3 DEF Sound
  <2> QED BY <2>1, <2>3, <2>4, <2>5, AdminWriteKeepsInv DEF UpdateWalletKYC
<1> QED BY <1>1, <1>2, <1>3

(* What a commit writes: the two wallets, sound, and one task under a key  *)
(* that had none.                                                          *)
LEMMA CommitEffect ==
    ASSUME WalletConstants, NoneIsNoDocument, WalletInv, NEW h \in Handlers, pc[h] = "commit",
           dirty[h] \cap WriteSet(h) = {}, Commit(h)
    PROVE  /\ call[h].key \in Keys /\ tasks[call[h].key] = None
           /\ Task(h) \in Movements /\ Task(h).txn = txn[h] /\ Task(h) # None
           /\ wallets' \in [Wallets -> Docs \cup {None}]
           /\ \A w \in Wallets : w \notin WriteSet(h) => wallets'[w] = wallets[w]
           /\ \A w \in Parties(h) : wallets'[w] \in Docs /\ Sound(w, wallets'[w])
           /\ velocity' \in [Keys -> Records \cup {None}]
           /\ tasks' = [tasks EXCEPT ![call[h].key] = Task(h)]
           /\ idem' = [idem EXCEPT ![call[h].key] = txn[h]]
<1>0. TypeOK /\ DatabaseOK /\ NoOverdraft /\ Fresh(h)
  BY DEF WalletInv, TypeOK
<1>1. /\ call[h].key \in Keys /\ call[h].amt \in Nat /\ call[h].cur \in Currencies
      /\ call[h].op # "DEPOSIT" => call[h].src \in Wallets
      /\ call[h].op = "DEPOSIT" => call[h].src = External
  BY Serving
<1>2. /\ Task(h) \in Movements /\ Task(h).op = call[h].op /\ Task(h).txn = txn[h]
      /\ Task(h).src = call[h].src /\ Task(h).dst = call[h].dst
      /\ Task(h).amt = call[h].amt /\ Task(h).cur = call[h].cur
  BY TaskType
<1>3. /\ tasks[call[h].key] = None
      /\ call[h].op # "DEPOSIT" => DebitFilter(call[h].src, call[h].cur, call[h].amt)
      /\ \A w \in Parties(h) : Exists(w)
  BY <1>0 DEF Fresh
<1>4. External \notin Wallets
  BY DEF WalletConstants
<1>5. Task(h) # None
  BY <1>2 DEF NoneIsNoDocument
<1>6. \A w \in {Task(h).src, Task(h).dst} \cap Wallets : Exists(w)
  BY <1>2, <1>3 DEF Parties
<1>7. Task(h).src \in Wallets => DebitFilter(Task(h).src, Task(h).cur, Task(h).amt)
  BY <1>1, <1>2, <1>3, <1>4
<1> DEFINE ws == Moved(wallets, Task(h))
<1>8. /\ ws \in [Wallets -> Docs \cup {None}]
      /\ \A w \in Wallets : w \notin {Task(h).src, Task(h).dst} => ws[w] = wallets[w]
      /\ \A w \in {Task(h).src, Task(h).dst} \cap Wallets : ws[w] \in Docs /\ Sound(w, ws[w])
  BY <1>0, <1>2, <1>6, <1>7, MovedEffect
<1>9. wallets' = ws
  BY DEF Commit
<1> HIDE DEF ws
<1>10. /\ \A w \in Wallets : w \notin WriteSet(h) => wallets'[w] = wallets[w]
       /\ \A w \in Parties(h) : wallets'[w] \in Docs /\ Sound(w, wallets'[w])
  BY <1>2, <1>8, <1>9 DEF WriteSet, Parties
<1>11. velocity' \in [Keys -> Records \cup {None}]
  <2>1. velocity \in [Keys -> Records \cup {None}]
    BY <1>0 DEF DatabaseOK
  <2>2. CASE call[h].op = "DEPOSIT"
    BY <2>1, <2>2 DEF Commit
  <2>3. CASE call[h].op # "DEPOSIT"
    <3> DEFINE r == [wallet |-> call[h].src, usd |-> NormalizeToUSDUnits(call[h].amt, call[h].cur),
                     window |-> "hour"]
    <3>1. velocity' = [velocity EXCEPT ![call[h].key] = r]
      BY <2>3 DEF Commit
    <3>2. USDRate[call[h].cur] \in Nat \X (Nat \ {0})
      BY <1>1 DEF WalletConstants
    <3>3. NormalizeToUSDUnits(call[h].amt, call[h].cur) \in Nat
      BY <1>1, <3>2, ConvertType DEF NormalizeToUSDUnits
    <3>4. r \in Records
      BY <1>1, <2>3, <3>3 DEF Records, Windows
    <3> HIDE DEF r
    <3> QED BY <2>1, <3>1, <3>4
  <2> QED BY <2>2, <2>3
<1>12. /\ tasks' = [tasks EXCEPT ![call[h].key] = Task(h)]
       /\ idem' = [idem EXCEPT ![call[h].key] = txn[h]]
  BY DEF Commit
<1> QED BY <1>1, <1>2, <1>3, <1>5, <1>8, <1>9, <1>10, <1>11, <1>12

(* The commit of a transaction, known to its handler or not.               *)
LEMMA CommitKeepsInv ==
    ASSUME WalletConstants, NoneIsNoDocument, WalletInv, NEW h \in Handlers,
           TxCommit(h) \/ TxCommitUnknown(h)
    PROVE  WalletInv'
<1> DEFINE k == call[h].key
<1>0. TypeOK /\ HandlersOK /\ DatabaseOK /\ NoOverdraft /\ AnswersAgree /\ IdemNamesTask /\ Shape(h)
  BY DEF WalletInv, TypeOK
<1>1. /\ pc[h] = "commit" /\ dirty[h] \cap WriteSet(h) = {} /\ Commit(h)
      /\ dirty' = [Touched(h, WriteSet(h)) EXCEPT ![h] = {}]
      /\ completed' = completed /\ ledger' = ledger /\ calls' = calls /\ told' = told
  BY DEF TxCommit, TxCommitUnknown
<1>2. /\ k \in Keys /\ tasks[k] = None
      /\ Task(h) \in Movements /\ Task(h).txn = txn[h] /\ Task(h) # None
      /\ wallets' \in [Wallets -> Docs \cup {None}]
      /\ \A w \in Wallets : w \notin WriteSet(h) => wallets'[w] = wallets[w]
      /\ \A w \in Parties(h) : wallets'[w] \in Docs /\ Sound(w, wallets'[w])
      /\ velocity' \in [Keys -> Records \cup {None}]
      /\ tasks' = [tasks EXCEPT ![k] = Task(h)]
      /\ idem' = [idem EXCEPT ![k] = txn[h]]
  BY <1>1, CommitEffect
<1>3. txn[h] \in Nat /\ WriteSet(h) \subseteq Wallets \cup Keys
  BY <1>0, <1>2 DEF HandlersOK, WriteSet
<1>4. /\ tasks' \in [Keys -> Movements \cup {None}] /\ idem' \in [Keys -> Nat \cup {None}]
      /\ tasks'[k] = Task(h) /\ idem'[k] = txn[h]
      /\ \A j \in Keys : j # k => tasks'[j] = tasks[j] /\ idem'[j] = idem[j]
  BY <1>0, <1>2, <1>3 DEF DatabaseOK
<1>5. /\ dirty' \in [Handlers -> SUBSET (Wallets \cup Keys)] /\ dirty'[h] = {}
      /\ \A g \in Handlers : g # h /\ pc[g] = "commit" => dirty'[g] = dirty[g] \cup WriteSet(h)
  BY <1>0, <1>1, <1>3 DEF Touched, HandlersOK
<1>6. /\ pc' \in [Handlers -> Labels] /\ call' \in [Handlers -> CallSet \cup {None}]
      /\ txn' \in [Handlers -> Nat] /\ leg' \in [Handlers -> Legs \cup {None}]
      /\ final' \in [Handlers -> Nat]
      /\ \A g \in Handlers : g # h =>
           /\ pc'[g] = pc[g] /\ call'[g] = call[g] /\ txn'[g] = txn[g] /\ leg'[g] = leg[g]
           /\ final'[g] = final[g]
      /\ \/ pc'[h] = "idle"
         \/ pc'[h] = "dispatch" /\ call'[h] = call[h] /\ leg'[h] = leg[h] /\ final'[h] = final[h]
  <2>0. "idle" \in Labels /\ "dispatch" \in Labels
    BY DEF Labels
  <2>1. CASE TxCommit(h)
    BY <1>0, <2>0, <2>1 DEF TxCommit, HandlersOK
  <2>2. CASE TxCommitUnknown(h)
    <3>1. /\ pc' = [pc EXCEPT ![h] = "idle"] /\ call' = [call EXCEPT ![h] = None]
          /\ txn' = [txn EXCEPT ![h] = 0] /\ leg' = [leg EXCEPT ![h] = None]
          /\ final' = [final EXCEPT ![h] = 0]
      BY <2>2 DEF TxCommitUnknown, Finish
    <3> QED BY <1>0, <2>0, <3>1 DEF HandlersOK
  <2> QED BY <2>1, <2>2
<1>7. DatabaseOK'
  BY <1>0, <1>1, <1>2, <1>4 DEF DatabaseOK
<1>8. HandlersOK'
  BY <1>5, <1>6 DEF HandlersOK
<1>9. TypeOK'
  BY <1>0, <1>1, <1>7, <1>8 DEF TypeOK
<1>10. NoOverdraft'
  <2> SUFFICES ASSUME NEW w \in Wallets, wallets'[w] # None PROVE Sound(w, wallets'[w])
    BY DEF NoOverdraft, Exists, Sound
  <2>1. CASE w \in Parties(h)
    BY <1>2, <2>1
  <2>2. CASE w \notin Parties(h)
    <3>1. w \notin WriteSet(h)
      BY <1>2, <2>2 DEF WriteSet, Parties, WalletConstants
    <3>2. wallets'[w] = wallets[w]
      BY <1>2, <3>1
    <3> QED BY <1>0, <3>2 DEF NoOverdraft, Exists, Sound
  <2> QED BY <2>1, <2>2
<1>11. IdemNamesTask'
  BY <1>0, <1>2, <1>4 DEF IdemNamesTask
<1>12. AnswersAgree'
  <2>1. \A a \in told : a[1] \in Keys
    BY <1>0 DEF TypeOK
  <2>2. \A a \in told : tasks'[a[1]] # None /\ tasks'[a[1]].txn = a[2]
    BY <1>0, <1>2, <1>4, <2>1 DEF AnswersAgree
  <2>3. \A j \in Keys : ledger[j] # None => tasks'[j] # None
    BY <1>0, <1>2, <1>4 DEF AnswersAgree
  <2> QED BY <1>1, <2>2, <2>3 DEF AnswersAgree
<1>13. Shape(h)' /\ Fresh(h)'
  <2>1. Fresh(h)'
    BY <1>6 DEF Fresh
  <2>2. CASE pc'[h] = "idle"
    BY <2>1, <2>2 DEF Shape
  <2>3. CASE pc'[h] = "dispatch" /\ call'[h] = call[h] /\ leg'[h] = leg[h] /\ final'[h] = final[h]
    <3>1. call[h] \in CallSet /\ ValidCall(call[h]) /\ leg[h] \in Legs /\ final[h] = txn[h]
      BY <1>0, <1>1 DEF Shape
    <3>2. tasks'[k] # None /\ tasks'[k].txn = final[h]
      BY <1>2, <1>4, <3>1
    <3>3. Shape(h)'
      BY <2>3, <3>1, <3>2 DEF Shape
    <3> QED BY <2>1, <3>3
  <2> QED BY <1>6, <2>2, <2>3
<1>14. \A w \in Wallets : wallets[w] # None => wallets'[w] # None
  <2> SUFFICES ASSUME NEW w \in Wallets, wallets[w] # None PROVE wallets'[w] # None
    OBVIOUS
  <2>1. CASE w \in Parties(h)
    BY <1>2, <2>1 DEF NoneIsNoDocument
  <2>2. CASE w \notin Parties(h)
    BY <1>2, <2>2 DEF WriteSet, Parties, WalletConstants
  <2> QED BY <2>1, <2>2
<1>15. ASSUME NEW g \in Handlers, g # h PROVE Shape(g)' /\ Fresh(g)'
  <2>1. \A j \in Keys : j \notin WriteSet(h) => tasks'[j] = tasks[j]
    BY <1>4 DEF WriteSet
  <2>2. \A j \in Keys : tasks[j] # None => tasks'[j] = tasks[j]
    BY <1>2, <1>4
  <2>3. pc[g] = "commit" => dirty'[g] = dirty[g] \cup WriteSet(h)
    BY <1>5, <1>15
  <2>4. pc'[g] = pc[g] /\ call'[g] = call[g] /\ txn'[g] = txn[g] /\ leg'[g] = leg[g] /\ final'[g] = final[g]
    BY <1>6, <1>15
  <2>5. \A w \in Wallets : w \notin WriteSet(h) => wallets'[w] = wallets[w]
    BY <1>2
  <2> QED BY <1>14, <2>1, <2>2, <2>3, <2>4, <2>5, OthersKeepShape
<1> QED BY <1>9, <1>10, <1>11, <1>12, <1>13, <1>15 DEF WalletInv

(* The background steps: the relay delivers a stored task, a velocity      *)
(* record ages, an idempotency record expires.                             *)
LEMMA BackgroundKeepsInv ==
    ASSUME WalletConstants, WalletInv, NEW k \in Keys,
           RelayDelivers(k) \/ AgeVelocity(k) \/ ExpireIdempotency(k)
    PROVE  WalletInv'
<1>0. TypeOK /\ HandlersOK /\ DatabaseOK /\ NoOverdraft /\ AnswersAgree /\ IdemNamesTask
  BY DEF WalletInv, TypeOK
<1>1. /\ wallets' = wallets /\ tasks' = tasks /\ calls' = calls /\ told' = told
      /\ pc' = pc /\ call' = call /\ txn' = txn /\ leg' = leg /\ dirty' = dirty /\ final' = final
  BY DEF RelayDelivers, AgeVelocity, ExpireIdempotency, handlerVars
<1>2. completed' \subseteq Keys
  BY <1>0 DEF RelayDelivers, AgeVelocity, ExpireIdempotency, DatabaseOK
<1>3. /\ ledger' \in [Keys -> Movements \cup {None}]
      /\ \A j \in Keys : ledger'[j] # None => ledger[j] # None \/ tasks[j] # None
  <2>1. CASE RelayDelivers(k)
    BY <1>0, <2>1 DEF RelayDelivers, Record, DatabaseOK
  <2>2. CASE AgeVelocity(k) \/ ExpireIdempotency(k)
    BY <1>0, <2>2 DEF AgeVelocity, ExpireIdempotency, DatabaseOK
  <2> QED BY <2>1, <2>2
<1>4. velocity' \in [Keys -> Records \cup {None}]
  <2>1. velocity \in [Keys -> Records \cup {None}]
    BY <1>0 DEF DatabaseOK
  <2>2. CASE RelayDelivers(k) \/ ExpireIdempotency(k)
    BY <2>1, <2>2 DEF RelayDelivers, ExpireIdempotency
  <2>3. CASE AgeVelocity(k)
    <3>1. velocity[k] \in Records
      BY <2>1, <2>3 DEF AgeVelocity
    <3>2. [velocity[k] EXCEPT !.window = "day"] \in Records
      BY <3>1 DEF Records, Windows
    <3> DEFINE r == IF velocity[k].window = "hour" THEN [velocity[k] EXCEPT !.window = "day"] ELSE None
    <3>3. velocity' = [velocity EXCEPT ![k] = r] /\ r \in Records \cup {None}
      BY <2>1, <2>3, <3>2 DEF AgeVelocity
    <3> HIDE DEF r
    <3> QED BY <2>1, <3>3
  <2> QED BY <2>2, <2>3
<1>5. /\ idem' \in [Keys -> Nat \cup {None}]
      /\ \A j \in Keys : idem'[j] # None => idem'[j] = idem[j]
  BY <1>0 DEF RelayDelivers, AgeVelocity, ExpireIdempotency, DatabaseOK
<1>6. DatabaseOK'
  BY <1>0, <1>1, <1>2, <1>3, <1>4, <1>5 DEF DatabaseOK
<1>7. TypeOK'
  BY <1>0, <1>1, <1>6 DEF TypeOK, HandlersOK
<1>8. NoOverdraft'
  BY <1>0, <1>1 DEF NoOverdraft, Exists
<1>9. IdemNamesTask'
  BY <1>0, <1>1, <1>5 DEF IdemNamesTask
<1>10. AnswersAgree'
  BY <1>0, <1>1, <1>3 DEF AnswersAgree
<1>11. ASSUME NEW g \in Handlers PROVE Shape(g)' /\ Fresh(g)'
  <2>1. Shape(g) /\ Fresh(g)
    BY DEF WalletInv
  <2>2. Shape(g)'
    BY <1>1, <2>1 DEF Shape, Parties, Exists
  <2>3. Fresh(g)'
    BY <1>1, <2>1 DEF Fresh, WriteSet, Parties, Exists, Operational, DebitFilter
  <2> QED BY <2>2, <2>3
<1> QED BY <1>7, <1>8, <1>9, <1>10, <1>11 DEF WalletInv

(* A step that changes nothing keeps the invariant.                        *)
LEMMA StutterKeepsInv ==
    ASSUME WalletInv, UNCHANGED vars
    PROVE  WalletInv'
<1>1. /\ wallets' = wallets /\ velocity' = velocity /\ idem' = idem /\ tasks' = tasks
      /\ completed' = completed /\ ledger' = ledger /\ calls' = calls /\ told' = told
      /\ pc' = pc /\ call' = call /\ txn' = txn /\ leg' = leg /\ dirty' = dirty /\ final' = final
  BY DEF vars, dbVars, handlerVars
<1>2. TypeOK'
  BY <1>1 DEF WalletInv, TypeOK, DatabaseOK, HandlersOK
<1>3. NoOverdraft' /\ IdemNamesTask' /\ AnswersAgree'
  BY <1>1 DEF WalletInv, NoOverdraft, IdemNamesTask, AnswersAgree, Exists
<1>4. ASSUME NEW g \in Handlers PROVE Shape(g)' /\ Fresh(g)'
  <2>1. Shape(g) /\ Fresh(g)
    BY DEF WalletInv
  <2>2. Shape(g)'
    BY <1>1, <2>1 DEF Shape, Parties, Exists
  <2>3. Fresh(g)'
    BY <1>1, <2>1 DEF Fresh, WriteSet, Parties, Exists, Operational, DebitFilter
  <2> QED BY <2>2, <2>3
<1> QED BY <1>2, <1>3, <1>4 DEF WalletInv

(* An empty database and idle handlers satisfy the invariant.              *)
LEMMA InitInv ==
    ASSUME WalletConstants, Init
    PROVE  WalletInv
<1>1. "idle" \in Labels /\ 0 \in 0 .. MaxCalls
  BY DEF Labels, WalletConstants
<1>2. DatabaseOK
  BY DEF Init, DatabaseOK
<1>3. HandlersOK
  BY <1>1 DEF Init, HandlersOK
<1>4. TypeOK
  BY <1>1, <1>2, <1>3 DEF Init, TypeOK
<1>5. NoOverdraft /\ IdemNamesTask /\ AnswersAgree
  BY DEF Init, NoOverdraft, IdemNamesTask, AnswersAgree, Exists
<1>6. \A h \in Handlers : pc[h] = "idle"
  BY DEF Init
<1>7. \A h \in Handlers : Shape(h) /\ Fresh(h)
  BY <1>6 DEF Shape, Fresh
<1> QED BY <1>4, <1>5, <1>7 DEF WalletInv

(* Every step keeps the invariant.                                         *)
LEMMA NextKeepsInv ==
    ASSUME WalletConstants, NoneIsNoDocument, WalletInv, Next
    PROVE  WalletInv'
<1>1. ASSUME NEW h \in Handlers, Handle(h) PROVE WalletInv'
  BY <1>1, RefusalsKeepInv, PrechecksKeepInv, TxStepsKeepInv, CommitKeepsInv, DispatchKeepsInv
     DEF Handle
<1>2. ASSUME NEW h \in Handlers, NEW c \in CallSet, Receive(h, c) PROVE WalletInv'
  BY <1>2, ReceiveKeepsInv
<1>3. ASSUME NEW w \in Wallets,
             \/ CreateWallet(w)
             \/ \E st \in Statuses : UpdateWalletStatus(w, st)
             \/ \E t \in Tiers : UpdateWalletKYC(w, t)
      PROVE WalletInv'
  BY <1>3, AdminKeepsInv
<1>4. ASSUME NEW k \in Keys, RelayDelivers(k) \/ AgeVelocity(k) \/ ExpireIdempotency(k)
      PROVE WalletInv'
  BY <1>4, BackgroundKeepsInv
<1> QED BY <1>1, <1>2, <1>3, <1>4 DEF Next

-----------------------------------------------------------------------------
(* The inductive invariant holds in every reachable state, for any number  *)
(* of handlers, wallets, keys and currencies, any rates and any limits.    *)
THEOREM WalletInvariant == Spec => []WalletInv
<1>1. Init => WalletInv
  BY WalletAssumption, InitInv
<1>2. WalletInv /\ [Next]_vars => WalletInv'
  BY WalletAssumption, NoneAssumption, NextKeepsInv, StutterKeepsInv
<1> QED BY <1>1, <1>2, PTL DEF Spec

(* Documents, tasks and the handlers' locals keep their types; amounts     *)
(* never become negative and ids never leave the request counter's range.  *)
THEOREM TypeCorrect == Spec => []TypeOK
<1>1. WalletInv => TypeOK
  BY DEF WalletInv
<1> QED BY <1>1, WalletInvariant, PTL

(* No interleaving of movements, retries, crashes, status changes and      *)
(* replays overdraws a pot or lets the base balance drift from the primary *)
(* pot it mirrors.                                                         *)
THEOREM NeverOverdrawn == Spec => []NoOverdraft
<1>1. WalletInv => NoOverdraft
  BY DEF WalletInv
<1> QED BY <1>1, WalletInvariant, PTL

(* Clients and the ledger only ever hear of committed movements, and every *)
(* answer under a key carries the id of the one movement under it.         *)
THEOREM AnswersAlwaysAgree == Spec => []AnswersAgree
<1>1. WalletInv => AnswersAgree
  BY DEF WalletInv
<1> QED BY <1>1, WalletInvariant, PTL

-----------------------------------------------------------------------------
(* Only a commit whose documents nobody else has written since its         *)
(* snapshot stores a task.                                                 *)
Commits(h) == pc[h] = "commit" /\ dirty[h] \cap WriteSet(h) = {} /\ Commit(h)

(* Every other step leaves the outbox, and the balances of the wallets     *)
(* there are.                                                              *)
LEMMA StepsByEffect ==
    ASSUME [Next]_vars
    PROVE  \/ \E h \in Handlers : Commits(h)
           \/ tasks' = tasks /\ wallets' = wallets
           \/ /\ tasks' = tasks
              /\ \E w \in Wallets : \/ CreateWallet(w)
                                    \/ \E st \in Statuses : UpdateWalletStatus(w, st)
                                    \/ \E t \in Tiers : UpdateWalletKYC(w, t)
<1>1. ASSUME NEW h \in Handlers, Handle(h)
      PROVE  Commits(h) \/ (tasks' = tasks /\ wallets' = wallets)
  <2>1. CASE TxCommit(h) \/ TxCommitUnknown(h)
    BY <2>1 DEF TxCommit, TxCommitUnknown, Commits
  <2>2. CASE PrepareTransfer(h) \/ PrecheckExchange(h) \/ PrecheckWithdraw(h) \/ PrecheckDeposit(h)
    BY <2>2 DEF PrepareTransfer, PrecheckExchange, PrecheckWithdraw, PrecheckDeposit, Prepared, dbVars
  <2>3. CASE Refuse(h) \/ TxReplay(h) \/ TxReject(h) \/ TxBegin(h) \/ TxConflict(h) \/ TxAbort(h) \/ Crash(h)
    BY <2>3 DEF Refuse, TxReplay, TxReject, TxBegin, TxConflict, TxAbort, Crash, dbVars
  <2>4. CASE DispatchImmediate(h) \/ DispatchUnacknowledged(h) \/ DispatchFails(h)
    BY <2>4 DEF DispatchImmediate, DispatchUnacknowledged, DispatchFails, Answer
  <2> QED BY <1>1, <2>1, <2>2, <2>3, <2>4 DEF Handle
<1>2. ASSUME NEW h \in Handlers, NEW c \in CallSet, Receive(h, c) PROVE tasks' = tasks /\ wallets' = wallets
  BY <1>2 DEF Receive, dbVars
<1>3. ASSUME NEW w \in Wallets,
             \/ CreateWallet(w)
             \/ \E st \in Statuses : UpdateWalletStatus(w, st)
             \/ \E t \in Tiers : UpdateWalletKYC(w, t)
      PROVE  tasks' = tasks
  BY <1>3 DEF CreateWallet, UpdateWalletStatus, UpdateWalletKYC
<1>4. ASSUME NEW k \in Keys, RelayDelivers(k) \/ AgeVelocity(k) \/ ExpireIdempotency(k)
      PROVE  tasks' = tasks /\ wallets' = wallets
  BY <1>4 DEF RelayDelivers, AgeVelocity, ExpireIdempotency
<1>5. CASE UNCHANGED vars
  BY <1>5 DEF vars, dbVars
<1> QED BY <1>1, <1>2, <1>3, <1>4, <1>5 DEF Next

(* A commit stores exactly its own task.                                   *)
LEMMA CommitsOneTask ==
    ASSUME WalletConstants, NoneIsNoDocument, WalletInv, NEW h \in Handlers, Commits(h)
    PROVE  /\ call[h].key \in Keys /\ Committed(call[h].key)
           /\ tasks'[call[h].key] = Task(h) /\ Task(h) \in Movements
           /\ \A j \in Keys : j # call[h].key => tasks'[j] = tasks[j]
<1>1. /\ call[h].key \in Keys /\ tasks[call[h].key] = None
      /\ Task(h) \in Movements /\ Task(h) # None
      /\ tasks' = [tasks EXCEPT ![call[h].key] = Task(h)]
  BY CommitEffect DEF Commits
<1>2. tasks \in [Keys -> Movements \cup {None}]
  BY DEF WalletInv, TypeOK, DatabaseOK
<1> QED BY <1>1, <1>2 DEF Committed

(* A transfer commits between wallets that are operational at that moment, *)
(* however the status updates interleave with its transaction.             *)
THEOREM TransfersAlwaysFenced == Spec => TransfersAreFenced
<1>1. ASSUME WalletConstants, NoneIsNoDocument, WalletInv, [Next]_vars
      PROVE  FencedWhenCommitted({"TRANSFER"})
  <2> SUFFICES ASSUME NEW k \in Keys, Committed(k), tasks'[k].op \in {"TRANSFER"},
                      NEW w \in {tasks'[k].src, tasks'[k].dst} \cap Wallets
               PROVE  Operational(w)
    BY DEF FencedWhenCommitted
  <2>1. PICK h \in Handlers : Commits(h)
    BY <1>1, StepsByEffect DEF Committed
  <2>2. /\ Committed(call[h].key) /\ tasks'[call[h].key] = Task(h)
        /\ \A j \in Keys : j # call[h].key => tasks'[j] = tasks[j]
    BY <1>1, <2>1, CommitsOneTask
  <2>3. k = call[h].key
    BY <2>2 DEF Committed
  <2>4. Task(h).op = call[h].op /\ Task(h).src = call[h].src /\ Task(h).dst = call[h].dst
    BY <1>1, <2>1, TaskType DEF Commits
  <2>5. call[h].op = "TRANSFER" /\ w \in Parties(h)
    BY <2>2, <2>3, <2>4 DEF Parties
  <2>6. Fresh(h)
    BY <1>1 DEF WalletInv
  <2> QED BY <2>1, <2>5, <2>6 DEF Commits, Fresh
<1>2. WalletInv /\ [Next]_vars => [FencedWhenCommitted({"TRANSFER"})]_vars
  BY <1>1, WalletAssumption, NoneAssumption
<1> QED BY <1>2, WalletInvariant, PTL DEF Spec, TransfersAreFenced

-----------------------------------------------------------------------------
(* $inc adds to one pot of one wallet and to no other.                     *)
LEMMA IncPots ==
    ASSUME WalletConstants, NEW ws \in [Wallets -> Docs \cup {None}], NEW a \in Accounts,
           a \in Wallets => ws[a] \in Docs, NEW c \in Currencies, NEW n \in Int,
           NEW w \in Wallets, ws[w] \in Docs, NEW x \in Currencies
    PROVE  /\ Inc(ws, a, c, n)[w] \in Docs
           /\ Inc(ws, a, c, n)[w].pots[x] = ws[w].pots[x] + (IF a = w /\ c = x THEN n ELSE 0)
<1>0. ws[w].pots[x] \in Int
  BY DEF Docs
<1>1. CASE a = w
  <2>1. Inc(ws, a, c, n)[w] = Incremented(ws[w], Primary[w], c, n)
    BY <1>1, IncEffect
  <2>2. Primary[w] \in Currencies
    BY DEF WalletConstants
  <2> DEFINE e == Incremented(ws[w], Primary[w], c, n)
  <2>3. /\ e \in Docs /\ e.pots[c] = ws[w].pots[c] + n
        /\ \A y \in Currencies : y # c => e.pots[y] = ws[w].pots[y]
    BY <2>2, IncrementedEffect
  <2> HIDE DEF e
  <2>4. e.pots[x] = ws[w].pots[x] + (IF c = x THEN n ELSE 0)
    BY <1>0, <2>3
  <2> QED BY <1>1, <2>1, <2>3, <2>4 DEF e
<1>2. CASE a # w
  BY <1>0, <1>2, IncEffect
<1> QED BY <1>1, <1>2

(* A movement adds its share to every pot.                                 *)
LEMMA MovedPots ==
    ASSUME WalletConstants, wallets \in [Wallets -> Docs \cup {None}], NEW m \in Movements,
           \A w \in {m.src, m.dst} \cap Wallets : wallets[w] \in Docs,
           NEW w \in Wallets, wallets[w] \in Docs, NEW c \in Currencies
    PROVE  Moved(wallets, m)[w].pots[c] = wallets[w].pots[c] + Share(m, w, c)
<1>1. /\ m.src \in Accounts /\ m.dst \in Accounts /\ m.cur \in Currencies /\ m.dcur \in Currencies
      /\ m.amt \in Nat /\ m.damt \in Nat
  BY DEF Movements
<1>2. -m.amt \in Int /\ m.damt \in Int
  BY <1>1
<1> DEFINE v == Inc(wallets, m.src, m.cur, -m.amt)
           ws == Inc(v, m.dst, m.dcur, m.damt)
<1>3. v \in [Wallets -> Docs \cup {None}]
  BY <1>1, <1>2, IncEffect
<1>4. v[w] \in Docs /\ v[w].pots[c] = wallets[w].pots[c] + (IF m.src = w /\ m.cur = c THEN -m.amt ELSE 0)
  BY <1>1, <1>2, IncPots
<1>5. m.dst \in Wallets => v[m.dst] \in Docs
  BY <1>1, <1>2, IncPots
<1>6. ws = Moved(wallets, m)
  BY DEF Moved
<1> HIDE DEF v
<1>7. ws[w].pots[c] = v[w].pots[c] + (IF m.dst = w /\ m.dcur = c THEN m.damt ELSE 0)
  BY <1>1, <1>2, <1>3, <1>4, <1>5, IncPots
<1> HIDE DEF ws
<1>8. wallets[w].pots[c] \in Int
  BY DEF Docs
<1> QED BY <1>1, <1>4, <1>6, <1>7, <1>8 DEF Share

(* A task names existing wallets only.                                     *)
OutboxNamesWallets ==
    \A k \in Keys : tasks[k] # None =>
      \A w \in {tasks[k].src, tasks[k].dst} \cap Wallets : Exists(w)

(* The step of the outbox argument: a task is stored once and for ever;    *)
(* the pots of every wallet move by exactly what the task stored in the    *)
(* same step says and by nothing when none is stored; a new wallet opens   *)
(* with its opening balance, in a step that stores no task.                *)
OutboxStep ==
    /\ \A k \in Keys : tasks[k] # None => tasks'[k] = tasks[k]
    /\ \/ tasks' = tasks /\ \A w \in Wallets, c \in Currencies :
            Exists(w) => wallets'[w] # None /\ wallets'[w].pots[c] = wallets[w].pots[c]
       \/ \E k \in Keys :
            /\ Committed(k) /\ \A j \in Keys : j # k => tasks'[j] = tasks[j]
            /\ \A w \in Wallets, c \in Currencies :
                 Exists(w) => /\ wallets'[w] # None
                              /\ wallets'[w].pots[c] = wallets[w].pots[c] + Share(tasks'[k], w, c)
    /\ \A w \in Wallets, c \in Currencies : ~Exists(w) /\ wallets'[w] # None =>
         /\ tasks' = tasks
         /\ wallets'[w].pots[c] = IF c = Primary[w] THEN Opening[w] ELSE 0

(* A commit is such a step.                                                *)
LEMMA CommitIsOutboxStep ==
    ASSUME WalletConstants, NoneIsNoDocument, WalletInv, OutboxNamesWallets,
           NEW h \in Handlers, Commits(h)
    PROVE  OutboxStep /\ OutboxNamesWallets'
<1> DEFINE k == call[h].key
<1>0. wallets \in [Wallets -> Docs \cup {None}] /\ Fresh(h)
  BY DEF WalletInv, TypeOK, DatabaseOK
<1>1. /\ k \in Keys /\ Committed(k) /\ tasks'[k] = Task(h) /\ Task(h) \in Movements
      /\ \A j \in Keys : j # k => tasks'[j] = tasks[j]
  BY CommitsOneTask
<1>2. /\ \A w \in Wallets : w \notin WriteSet(h) => wallets'[w] = wallets[w]
      /\ \A w \in Parties(h) : wallets'[w] \in Docs
  BY CommitEffect DEF Commits
<1>3. \A w \in Parties(h) : Exists(w)
  BY <1>0 DEF Commits, Fresh
<1>4. Task(h).src = call[h].src /\ Task(h).dst = call[h].dst
  BY TaskType DEF Commits
<1>5. \A w \in Wallets : w \notin Parties(h) => wallets'[w] = wallets[w]
  BY <1>1, <1>2 DEF WriteSet, Parties, WalletConstants
<1>6. \A w \in Wallets : (Exists(w) => wallets'[w] # None) /\ (wallets'[w] # None => Exists(w))
  BY <1>2, <1>3, <1>5 DEF Exists, NoneIsNoDocument
<1>7. ASSUME NEW w \in Wallets, NEW c \in Currencies, Exists(w)
      PROVE  wallets'[w].pots[c] = wallets[w].pots[c] + Share(tasks'[k], w, c)
  <2>1. wallets[w] \in Docs /\ \A v \in {Task(h).src, Task(h).dst} \cap Wallets : wallets[v] \in Docs
    BY <1>0, <1>3, <1>4, <1>7 DEF Exists, Parties
  <2>2. Moved(wallets, Task(h))[w].pots[c] = wallets[w].pots[c] + Share(Task(h), w, c)
    BY <1>0, <1>1, <2>1, MovedPots
  <2>3. wallets' = Moved(wallets, Task(h))
    BY DEF Commits, Commit
  <2> QED BY <1>1, <2>2, <2>3
<1>8. OutboxNamesWallets'
  <2> SUFFICES ASSUME NEW j \in Keys, tasks'[j] # None,
                      NEW w \in {tasks'[j].src, tasks'[j].dst} \cap Wallets
               PROVE  wallets'[w] # None
    BY DEF OutboxNamesWallets, Exists
  <2>1. CASE j = k
    BY <1>1, <1>3, <1>4, <1>6, <2>1 DEF Parties
  <2>2. CASE j # k
    BY <1>1, <1>6, <2>2 DEF OutboxNamesWallets
  <2> QED BY <2>1, <2>2
<1>9. \A j \in Keys : tasks[j] # None => tasks'[j] = tasks[j]
  BY <1>1 DEF Committed
<1>10. \A w \in Wallets, c \in Currencies :
         Exists(w) => /\ wallets'[w] # None
                      /\ wallets'[w].pots[c] = wallets[w].pots[c] + Share(tasks'[k], w, c)
  BY <1>6, <1>7
<1> HIDE DEF k
<1>11. OutboxStep
  BY <1>1, <1>6, <1>9, <1>10 DEF OutboxStep
<1> QED BY <1>8, <1>11

(* So is an administrative write of one wallet.                            *)
LEMMA AdminIsOutboxStep ==
    ASSUME WalletConstants, NoneIsNoDocument, WalletInv, OutboxNamesWallets, tasks' = tasks,
           NEW w \in Wallets,
           \/ CreateWallet(w)
           \/ \E st \in Statuses : UpdateWalletStatus(w, st)
           \/ \E t \in Tiers : UpdateWalletKYC(w, t)
    PROVE  OutboxStep /\ OutboxNamesWallets'
<1>0. wallets \in [Wallets -> Docs \cup {None}]
  BY DEF WalletInv, TypeOK, DatabaseOK
<1>1. /\ \A v \in Wallets : v # w => wallets'[v] = wallets[v]
      /\ wallets'[w] \in Docs
      /\ Exists(w) => wallets'[w].pots = wallets[w].pots
      /\ ~Exists(w) => wallets'[w].pots = [c \in Currencies |-> IF c = Primary[w] THEN Opening[w] ELSE 0]
  <2>1. CASE CreateWallet(w)
    <3> DEFINE ps == [c \in Currencies |-> IF c = Primary[w] THEN Opening[w] ELSE 0]
               d == [balance |-> Opening[w], pots |-> ps, status |-> "ACTIVE", tier |-> BasicTier]
    <3>1. Opening[w] \in Nat /\ "ACTIVE" \in Statuses /\ BasicTier \in Tiers
      BY DEF WalletConstants
    <3>2. ps \in [Currencies -> Int] /\ wallets' = [wallets EXCEPT ![w] = d] /\ ~Exists(w)
      BY <2>1, <3>1 DEF CreateWallet
    <3> HIDE DEF ps
    <3>3. d \in Docs /\ d.pots = ps
      BY <3>1, <3>2 DEF Docs
    <3> HIDE DEF d
    <3> QED BY <1>0, <3>2, <3>3 DEF ps
  <2>2. ASSUME NEW st \in Statuses, UpdateWalletStatus(w, st)
        PROVE  /\ \A v \in Wallets : v # w => wallets'[v] = wallets[v]
               /\ wallets'[w] \in Docs /\ Exists(w) /\ wallets'[w].pots = wallets[w].pots
    <3>1. wallets[w] \in Docs /\ Exists(w)
      BY <1>0, <2>2 DEF UpdateWalletStatus, Exists
    <3> DEFINE d == [wallets[w] EXCEPT !.status = st]
    <3>2. d \in Docs /\ d.pots = wallets[w].pots
      BY <3>1 DEF Docs
    <3>3. wallets' = [wallets EXCEPT ![w] = d]
      BY <1>0, <2>2 DEF UpdateWalletStatus
    <3> HIDE DEF d
    <3> QED BY <1>0, <3>1, <3>2, <3>3
  <2>3. ASSUME NEW t \in Tiers, UpdateWalletKYC(w, t)
        PROVE  /\ \A v \in Wallets : v # w => wallets'[v] = wallets[v]
               /\ wallets'[w] \in Docs /\ Exists(w) /\ wallets'[w].pots = wallets[w].pots
    <3>1. wallets[w] \in Docs /\ Exists(w)
      BY <1>0, <2>3 DEF UpdateWalletKYC, Exists
    <3> DEFINE d == [wallets[w] EXCEPT !.tier = t]
    <3>2. d \in Docs /\ d.pots = wallets[w].pots
      BY <3>1 DEF Docs
    <3>3. wallets' = [wallets EXCEPT ![w] = d]
      BY <1>0, <2>3 DEF UpdateWalletKYC
    <3> HIDE DEF d
    <3> QED BY <1>0, <3>1, <3>2, <3>3
  <2> QED BY <2>1, <2>2, <2>3
<1>2. \A v \in Wallets : Exists(v) => wallets'[v] # None /\ wallets'[v].pots = wallets[v].pots
  BY <1>1 DEF Exists, NoneIsNoDocument
<1>3. \A v \in Wallets : ~Exists(v) /\ wallets'[v] # None => v = w
  BY <1>1 DEF Exists
<1>4. OutboxStep
  BY <1>1, <1>2, <1>3 DEF OutboxStep
<1>5. OutboxNamesWallets'
  BY <1>2 DEF OutboxNamesWallets, Exists
<1> QED BY <1>4, <1>5

(* Every step is one.                                                      *)
LEMMA NextIsOutboxStep ==
    ASSUME WalletConstants, NoneIsNoDocument, WalletInv, OutboxNamesWallets, [Next]_vars
    PROVE  OutboxStep /\ OutboxNamesWallets'
<1>1. CASE \E h \in Handlers : Commits(h)
  BY <1>1, CommitIsOutboxStep
<1>2. CASE tasks' = tasks /\ wallets' = wallets
  BY <1>2 DEF OutboxStep, OutboxNamesWallets, Exists
<1>3. CASE tasks' = tasks /\ \E w \in Wallets :
             \/ CreateWallet(w)
             \/ \E st \in Statuses : UpdateWalletStatus(w, st)
             \/ \E t \in Tiers : UpdateWalletKYC(w, t)
  BY <1>3, AdminIsOutboxStep
<1> QED BY <1>1, <1>2, <1>3, StepsByEffect

(* Every task of the outbox names existing wallets: what it moved is       *)
(* nothing to a wallet created later.                                      *)
THEOREM OutboxNamesExisting == Spec => []OutboxNamesWallets
<1>1. Init => OutboxNamesWallets
  BY DEF Init, OutboxNamesWallets
<1>2. WalletInv /\ OutboxNamesWallets /\ [Next]_vars => OutboxNamesWallets'
  BY WalletAssumption, NoneAssumption, NextIsOutboxStep
<1> QED BY <1>1, <1>2, WalletInvariant, PTL DEF Spec

(* Balances move with the outbox, in the same step and by the amounts the  *)
(* stored task carries, whatever is retried, replayed, lost or expired.    *)
(* With OutboxNamesExisting this is the induction step of                  *)
(* OutboxExplainsBalances, which adds the sum over all tasks.              *)
THEOREM BalancesFollowOutbox == Spec => [][OutboxStep]_vars
<1>1. WalletInv /\ OutboxNamesWallets /\ [Next]_vars => [OutboxStep]_vars
  BY WalletAssumption, NoneAssumption, NextIsOutboxStep
<1> QED BY <1>1, WalletInvariant, OutboxNamesExisting, PTL DEF Spec
=============================================================================
