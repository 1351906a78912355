------------------------------ MODULE FXEngine ------------------------------
(***************************************************************************)
(* The FX engine (cmd/fx-service/engine.go, provider.go): rate books,      *)
(* fixed-rate quotes and idempotent conversions, served by several pods.   *)
(* Every pod keeps its own rate book and its own copies of quotes and      *)
(* conversions, and copies are served without asking fx_db, so they go     *)
(* stale; fx_db is shared.  A call is a goroutine: between two of its      *)
(* steps other calls, other pods, the clock and faults take theirs.        *)
(***************************************************************************)
EXTENDS Money, FiniteSets

CONSTANTS
    Pods,       \* replicas of the FX service
    Calls,      \* RPCs; each is made at most once
    Requests,   \* call -> what it may ask for, see HandleFXQuotes and HandleFXConvert
    Quotes,     \* quote ids (ObjectIDs are never reused)
    Keys,       \* idempotency keys
    Baseline,   \* InstitutionalBaselineRates, as a rate <<num, den>>
    LiveRates,  \* what the live providers may return
    FeeBps,     \* fee in basis points
    SpreadBps,  \* spread in basis points
    QuoteTTL,   \* life of a quote, in ticks
    MaxTime,    \* bound on the clock
    MaxFaults,  \* bound on restarts and failed database operations
    MaxSyncs,   \* bound on changes of a rate book
    None

(* A mid rate as a fraction <<num, den>>.                                  *)
Rates == (Nat \ {0}) \X (Nat \ {0})

(* The id of a new quote comes from CreateQuote, never from the request.   *)
FXConstants ==
    /\ QuoteTTL \in Nat /\ MaxTime \in Nat
    /\ MaxFaults \in Nat /\ MaxSyncs \in Nat
    /\ FeeBps \in 0..10000 /\ SpreadBps \in 0..4999
    /\ None \notin Quotes \cup Keys \cup Rates
    /\ Baseline \in Rates /\ LiveRates \subseteq Rates
    /\ \A c \in Calls : \A r \in Requests[c] :
         /\ r # None
         /\ r.pod \in Pods /\ r.q \in Quotes \cup {None} /\ r.amount \in Nat
         /\ r.op = "CREATE" => r.q = None
         /\ r.op = "CONVERT" => r.key \in Keys
ASSUME FXAssumption == FXConstants

VARIABLES
    now,
    book,            \* pod -> mid rate of the pair in usdRates
    pairOverrides,   \* pod -> mid rate set by an administrator, or None
    lastGood,        \* pod -> last live snapshot of the provider, or None
    fxQuotes,        \* fx_db.fx_quotes: id -> document or None
    quotesMem,       \* pod -> id -> document or None
    fxConversions,   \* fx_db.fx_conversions, unique by idempotency key
    conversionsMem,  \* pod -> key -> conversion or None
    call,            \* state of every call
    syncs, faults

vars == <<now, book, pairOverrides, lastGood, fxQuotes, quotesMem, fxConversions, conversionsMem,
          call, syncs, faults>>
quoteVars == <<fxQuotes, quotesMem>>
convVars == <<fxConversions, conversionsMem>>
rateVars == <<book, pairOverrides, lastGood, syncs>>

Idle == [pc |-> "idle", req |-> None, q |-> None, doc |-> None, conv |-> None, answer |-> None]

Init ==
    /\ now = 0
    /\ book = [p \in Pods |-> Baseline]
    /\ pairOverrides = [p \in Pods |-> None]
    /\ lastGood = [p \in Pods |-> None]
    /\ fxQuotes = [q \in Quotes |-> None]
    /\ quotesMem = [p \in Pods |-> [q \in Quotes |-> None]]
    /\ fxConversions = [k \in Keys |-> None]
    /\ conversionsMem = [p \in Pods |-> [k \in Keys |-> None]]
    /\ call = [c \in Calls |-> Idle]
    /\ syncs = 0 /\ faults = 0

-----------------------------------------------------------------------------
Creating(c) == call[c].req # None /\ call[c].req.op = "CREATE"
Converting(c) == call[c].req # None /\ call[c].req.op = "CONVERT"
Answered(c) == call[c].pc = "done" /\ call[c].answer # None

(* Calls that told a client the terms of a quote, and the quote ids that   *)
(* clients know: those, and the ids that come with answered conversions,   *)
(* spot conversions included.                                              *)
Quoted == {c \in Calls : Creating(c) /\ Answered(c)}
Told == {c \in Calls : Converting(c) /\ Answered(c)}
Known == {call[c].q : c \in Quoted} \cup {call[c].answer.q : c \in Told}

P(c) == call[c].req.pod
Goto(c, l) == call' = [call EXCEPT ![c].pc = l]
Answer(c, a) == call' = [call EXCEPT ![c].pc = "done", ![c].answer = a, ![c].doc = None]
Refuse(c) == Answer(c, None)
Fail == faults < MaxFaults /\ faults' = faults + 1
Ok == UNCHANGED faults

(* An RPC arrives at a pod of the FX service.                              *)
Begin(c, r, pc) ==
    /\ call[c].pc = "idle"
    /\ call' = [call EXCEPT ![c].req = r, ![c].q = r.q, ![c].pc = pc]
    /\ UNCHANGED <<now, quoteVars, convVars, rateVars, faults>>

(* The gateway forwards a POST as CreateQuote and a GET as GetQuote, of a  *)
(* quote that a client has been given.                                     *)
HandleFXQuotes(c, r) ==
    \/ r.op = "CREATE" /\ Begin(c, r, "create")
    \/ r.op = "GET" /\ r.q \in Known /\ Begin(c, r, "load")

(* A conversion names such a quote, or none for a spot conversion.         *)
HandleFXConvert(c, r) ==
    /\ r.op = "CONVERT" /\ r.q \in Known \cup {None}
    /\ Begin(c, r, "find")

(* What CompositeRateProvider.FetchRates may return at pod p: a live       *)
(* snapshot; when every live provider fails, the last good one; without    *)
(* one, the baseline.  It never returns an error.                          *)
FetchRates(p) ==
    {[rate |-> r, live |-> TRUE] : r \in LiveRates} \cup
    {[rate |-> IF lastGood[p] = None THEN Baseline ELSE lastGood[p], live |-> FALSE]}

SyncUpstreamRates(p) ==
    /\ \E s \in FetchRates(p) :
         /\ book' = [book EXCEPT ![p] = s.rate]
         /\ lastGood' = [lastGood EXCEPT ![p] = IF s.live THEN s.rate ELSE @]
    /\ UNCHANGED pairOverrides

(* The override stays above the rate book, in this pod only; for a pair    *)
(* with USD the book is changed too.                                       *)
SetPairRate(p) ==
    /\ \E r \in LiveRates :
         /\ pairOverrides' = [pairOverrides EXCEPT ![p] = r]
         /\ book' \in {book, [book EXCEPT ![p] = r]}
    /\ UNCHANGED lastGood

StartBackgroundSync(p) ==
    /\ syncs < MaxSyncs /\ syncs' = syncs + 1
    /\ SyncUpstreamRates(p)
    /\ UNCHANGED <<now, quoteVars, convVars, call, faults>>

(* The pod that an administrator's request happens to reach is changed.    *)
HandleFXRatesRefresh(p) ==
    /\ syncs < MaxSyncs /\ syncs' = syncs + 1
    /\ SyncUpstreamRates(p) \/ SetPairRate(p)
    /\ UNCHANGED <<now, quoteVars, convVars, call, faults>>

(* The rate after the spread.                                              *)
ComputeRateDoc(mid) == <<mid[1] * (10000 - SpreadBps), mid[2] * 10000>>

GetRate(p) == ComputeRateDoc(IF pairOverrides[p] # None THEN pairOverrides[p] ELSE book[p])

(* The terms of a quote: the fee is rounded half to even, and dropped when *)
(* nothing would be left to convert.                                       *)
QuoteDoc(amount, rate) ==
    LET fee == RoundToEven(amount * FeeBps, 10000)
        net == IF amount - fee <= 0 THEN amount ELSE amount - fee
    IN [src |-> amount, dst |-> ConvertUnitsScaleBankers(net, rate), fee |-> amount - net,
        exp |-> now + QuoteTTL, status |-> "ACTIVE"]

(* primitive.NewObjectID: an id no call has used.                          *)
Fresh == {q \in Quotes : \A c \in Calls : call[c].q # q}

(* CreateQuote fills the pod's memory first, then inserts the document;    *)
(* a failed insert is ignored.  Spot conversions run the same code.        *)
SaveQuote(c, q, doc) ==
    /\ quotesMem' = [quotesMem EXCEPT ![P(c)][q] = doc]
    /\ call' = [call EXCEPT ![c] = [@ EXCEPT !.pc = "insertQuote", !.q = q, !.doc = doc]]

CreateQuote(c) ==
    /\ call[c].pc = "create"
    /\ Fresh # {}
    /\ SaveQuote(c, CHOOSE q \in Fresh : TRUE, QuoteDoc(call[c].req.amount, GetRate(P(c))))
    /\ UNCHANGED <<now, fxQuotes, convVars, rateVars, faults>>

InsertQuote(c) ==
    /\ call[c].pc = "insertQuote"
    /\ \/ Ok /\ fxQuotes' = [fxQuotes EXCEPT ![call[c].q] = call[c].doc]
       \/ Fail /\ UNCHANGED fxQuotes
    /\ IF call[c].req.op = "CREATE" THEN Answer(c, call[c].doc) ELSE Goto(c, "spotMem")
    /\ UNCHANGED <<now, quotesMem, convVars, rateVars>>

Lapsed(doc) == now > doc.exp

(* A conversion that asks for something other than its quote.  The amount  *)
(* stands for the two currencies as well; 0 is an amount left out.         *)
Mismatch(c, doc) == call[c].req.amount > 0 /\ call[c].req.amount # doc.src

(* What GetQuote and ConvertCurrency do with a quote they have loaded.     *)
UseQuote(c, doc) ==
    IF call[c].req.op = "GET"
    THEN IF doc.status = "ACTIVE" /\ Lapsed(doc)
         THEN call' = [call EXCEPT ![c].pc = "expireMem", ![c].doc = doc]
         ELSE Answer(c, doc)
    ELSE IF doc.status # "ACTIVE" \/ Lapsed(doc) \/ Mismatch(c, doc)
         THEN Refuse(c)
         ELSE call' = [call EXCEPT ![c].pc = "casDB", ![c].doc = doc]

(* loadQuoteDoc: the pod's copy wins; otherwise the stored document is     *)
(* read and then put in memory over whatever is there by now.  A read      *)
(* error counts as not found.                                              *)
LoadQuote(c) ==
    LET p == P(c)  q == call[c].q IN
    /\ call[c].pc = "load"
    /\ \/ quotesMem[p][q] # None /\ Ok /\ UseQuote(c, quotesMem[p][q])
       \/ /\ quotesMem[p][q] = None /\ fxQuotes[q] # None /\ Ok
          /\ call' = [call EXCEPT ![c].pc = "cacheQuote", ![c].doc = fxQuotes[q]]
       \/ /\ quotesMem[p][q] = None /\ (IF fxQuotes[q] = None THEN Ok ELSE Fail)
          /\ Refuse(c)
    /\ UNCHANGED <<now, quoteVars, convVars, rateVars>>

CacheQuote(c) ==
    /\ call[c].pc = "cacheQuote"
    /\ quotesMem' = [quotesMem EXCEPT ![P(c)][call[c].q] = call[c].doc]
    /\ UseQuote(c, call[c].doc)
    /\ UNCHANGED <<now, fxQuotes, convVars, rateVars, faults>>

(* GetQuote writes EXPIRED to memory, then to fx_db, from the status it    *)
(* read before; neither write compares the status it replaces.             *)
ExpireInMemory(c) ==
    LET doc == [call[c].doc EXCEPT !.status = "EXPIRED"] IN
    /\ call[c].pc = "expireMem"
    /\ quotesMem' = [quotesMem EXCEPT ![P(c)][call[c].q] = doc]
    /\ call' = [call EXCEPT ![c].pc = "expireDB", ![c].doc = doc]
    /\ UNCHANGED <<now, fxQuotes, convVars, rateVars, faults>>

SetStatus(q, s) ==
    fxQuotes' = [fxQuotes EXCEPT ![q] = IF @ = None THEN @ ELSE [@ EXCEPT !.status = s]]

ExpireInDB(c) ==
    /\ call[c].pc = "expireDB"
    /\ \/ Ok /\ SetStatus(call[c].q, "EXPIRED")
       \/ Fail /\ UNCHANGED fxQuotes
    /\ Answer(c, call[c].doc)
    /\ UNCHANGED <<now, quotesMem, convVars, rateVars>>

-----------------------------------------------------------------------------
(* findExistingConversion: memory, then fx_db, whose answer is put in      *)
(* memory; a failed read finds nothing.                                    *)
FindExistingConversion(c) ==
    LET p == P(c)  k == call[c].req.key IN
    /\ call[c].pc = "find"
    /\ \/ conversionsMem[p][k] # None /\ Ok /\ Answer(c, conversionsMem[p][k])
       \/ /\ conversionsMem[p][k] = None /\ fxConversions[k] # None /\ Ok
          /\ call' = [call EXCEPT ![c].pc = "cacheConv", ![c].answer = fxConversions[k]]
       \/ /\ conversionsMem[p][k] = None /\ (IF fxConversions[k] = None THEN Ok ELSE Fail)
          /\ Goto(c, IF call[c].q = None THEN "create" ELSE "load")
    /\ UNCHANGED <<now, quoteVars, convVars, rateVars>>

CacheConversion(c) ==
    /\ call[c].pc = "cacheConv"
    /\ conversionsMem' = [conversionsMem EXCEPT ![P(c)][call[c].req.key] = call[c].answer]
    /\ Goto(c, "done")
    /\ UNCHANGED <<now, quoteVars, fxConversions, rateVars, faults>>

(* Plausible error: the filter names the quote and its expiry only.        *)
ExecutableAnyStatus(q) == fxQuotes[q] # None /\ fxQuotes[q].exp > now

(* The compare-and-set in fx_db that decides who executes the quote.  With *)
(* an error the update may have taken effect all the same.                 *)
ExecutableInDB(q) ==
    fxQuotes[q] # None /\ fxQuotes[q].status = "ACTIVE" /\ fxQuotes[q].exp > now

ExecuteInDB(c) ==
    LET q == call[c].q IN
    /\ call[c].pc = "casDB"
    /\ \/ Ok /\ ExecutableInDB(q) /\ SetStatus(q, "EXECUTED") /\ Goto(c, "casMem")
       \/ Ok /\ ~ExecutableInDB(q) /\ Refuse(c) /\ UNCHANGED fxQuotes
       \/ /\ Fail /\ Refuse(c)
          /\ \/ UNCHANGED fxQuotes
             \/ ExecutableInDB(q) /\ SetStatus(q, "EXECUTED")
    /\ UNCHANGED <<now, quotesMem, convVars, rateVars>>

(* Plausible error: the copy counts as expired one tick early.             *)
ExecuteInMemoryEarly(c) ==
    LET p == P(c)  q == call[c].q
        doc == IF quotesMem[p][q] # None THEN quotesMem[p][q] ELSE call[c].doc
    IN
    /\ call[c].pc = "casMem"
    /\ IF doc.status # "ACTIVE" \/ (quotesMem[p][q] # None /\ now >= doc.exp)
       THEN Refuse(c) /\ UNCHANGED quotesMem
       ELSE /\ quotesMem' = [quotesMem EXCEPT ![p][q] = [doc EXCEPT !.status = "EXECUTED"]]
            /\ Goto(c, "record")
    /\ UNCHANGED <<now, fxQuotes, convVars, rateVars, faults>>

(* The second compare-and-set, on the pod's copy.  It may refuse although  *)
(* fx_db has just been changed.                                            *)
ExecuteInMemory(c) ==
    LET p == P(c)  q == call[c].q
        doc == IF quotesMem[p][q] # None THEN quotesMem[p][q] ELSE call[c].doc
    IN
    /\ call[c].pc = "casMem"
    /\ IF doc.status # "ACTIVE" \/ (quotesMem[p][q] # None /\ Lapsed(doc))
       THEN Refuse(c) /\ UNCHANGED quotesMem
       ELSE /\ quotesMem' = [quotesMem EXCEPT ![p][q] = [doc EXCEPT !.status = "EXECUTED"]]
            /\ Goto(c, "record")
    /\ UNCHANGED <<now, fxQuotes, convVars, rateVars, faults>>

(* A spot conversion marks its own fresh quote, in memory and in fx_db.    *)
ExecuteSpotInMemory(c) ==
    LET copy == quotesMem[P(c)][call[c].q] IN
    /\ call[c].pc = "spotMem"
    /\ IF copy = None THEN UNCHANGED quotesMem
       ELSE quotesMem' = [quotesMem EXCEPT ![P(c)][call[c].q] = [copy EXCEPT !.status = "EXECUTED"]]
    /\ Goto(c, "spotDB")
    /\ UNCHANGED <<now, fxQuotes, convVars, rateVars, faults>>

ExecuteSpotInDB(c) ==
    /\ call[c].pc = "spotDB"
    /\ \/ Ok /\ SetStatus(call[c].q, "EXECUTED")
       \/ Fail /\ UNCHANGED fxQuotes
    /\ Goto(c, "record")
    /\ UNCHANGED <<now, quotesMem, convVars, rateVars>>

(* Plausible error: the conversion is priced again at the current rate.    *)
RecordRepriced(c) ==
    LET conv == [by |-> c, q |-> call[c].q, src |-> call[c].doc.src,
                 dst |-> QuoteDoc(call[c].doc.src, GetRate(P(c))).dst]
    IN
    /\ call[c].pc = "record"
    /\ conversionsMem' = [conversionsMem EXCEPT ![P(c)][call[c].req.key] = conv]
    /\ call' = [call EXCEPT ![c].pc = "insertConv", ![c].conv = conv]
    /\ UNCHANGED <<now, quoteVars, fxConversions, rateVars, faults>>

(* The conversion document goes into memory, then into fx_db.              *)
RecordConversion(c) ==
    LET conv == [by |-> c, q |-> call[c].q, src |-> call[c].doc.src, dst |-> call[c].doc.dst]
    IN
    /\ call[c].pc = "record"
    /\ conversionsMem' = [conversionsMem EXCEPT ![P(c)][call[c].req.key] = conv]
    /\ call' = [call EXCEPT ![c].pc = "insertConv", ![c].conv = conv]
    /\ UNCHANGED <<now, quoteVars, fxConversions, rateVars, faults>>

(* On a duplicate key the answer is looked up again, in memory first; any  *)
(* other error is ignored and the conversion is reported as completed.     *)
InsertConversion(c) ==
    LET p == P(c)  k == call[c].req.key IN
    /\ call[c].pc = "insertConv"
    /\ \/ /\ fxConversions[k] = None /\ Ok
          /\ fxConversions' = [fxConversions EXCEPT ![k] = call[c].conv]
          /\ Answer(c, call[c].conv)
       \/ /\ fxConversions[k] # None /\ Ok
          /\ Answer(c, conversionsMem[p][k])
          /\ UNCHANGED fxConversions
       \/ /\ Fail /\ Answer(c, call[c].conv)
          /\ UNCHANGED fxConversions
    /\ UNCHANGED <<now, quoteVars, conversionsMem, rateVars>>

(* A pod restarts: its memory is gone, and so are the calls it was serving. *)
Restart(p) ==
    /\ Fail
    /\ book' = [book EXCEPT ![p] = Baseline]
    /\ pairOverrides' = [pairOverrides EXCEPT ![p] = None]
    /\ lastGood' = [lastGood EXCEPT ![p] = None]
    /\ quotesMem' = [quotesMem EXCEPT ![p] = [q \in Quotes |-> None]]
    /\ conversionsMem' = [conversionsMem EXCEPT ![p] = [k \in Keys |-> None]]
    /\ call' = [c \in Calls |->
                  IF call[c].pc \notin {"idle", "done"} /\ P(c) = p
                  THEN [call[c] EXCEPT !.pc = "done", !.answer = None, !.doc = None] ELSE call[c]]
    /\ UNCHANGED <<now, fxQuotes, fxConversions, syncs>>

Tick == now < MaxTime /\ now' = now + 1
        /\ UNCHANGED <<quoteVars, convVars, rateVars, call, faults>>

CallStep(c) ==
    \/ CreateQuote(c) \/ InsertQuote(c) \/ LoadQuote(c) \/ CacheQuote(c) \/ ExpireInMemory(c) \/ ExpireInDB(c)
    \/ FindExistingConversion(c) \/ CacheConversion(c) \/ ExecuteInDB(c) \/ ExecuteInMemory(c)
    \/ ExecuteSpotInMemory(c) \/ ExecuteSpotInDB(c) \/ RecordConversion(c) \/ InsertConversion(c)

Next ==
    \/ Tick
    \/ \E c \in Calls : CallStep(c) \/ \E r \in Requests[c] : HandleFXQuotes(c, r) \/ HandleFXConvert(c, r)
    \/ \E p \in Pods : StartBackgroundSync(p) \/ HandleFXRatesRefresh(p) \/ Restart(p)

Spec == Init /\ [][Next]_vars

-----------------------------------------------------------------------------
QuoteDocs == [src : Nat, dst : Nat, fee : Nat, exp : Nat,
              status : {"ACTIVE", "EXECUTED", "EXPIRED"}]
Conversions == [by : Calls, q : Quotes, src : Nat, dst : Nat]
Steps == {"idle", "create", "insertQuote", "load", "cacheQuote", "expireMem", "expireDB", "find",
          "cacheConv", "casDB", "casMem", "spotMem", "spotDB", "record", "insertConv", "done"}
Optional(S) == S \cup {None}
CallRecords(c) ==
    [pc : Steps, req : Optional(Requests[c]), q : Optional(Quotes), doc : Optional(QuoteDocs),
     conv : Optional(Conversions), answer : Optional(QuoteDocs \cup Conversions)]

(* None stands for "no document": it is not one.                           *)
NoneIsNoDocument == None \notin QuoteDocs \cup Conversions
ASSUME NoneAssumption == NoneIsNoDocument

(* Quote and conversion documents, their copies and the calls have the     *)
(* shape the code gives them.                                              *)
TypeOK ==
    /\ now \in 0..MaxTime /\ faults \in 0..MaxFaults /\ syncs \in 0..MaxSyncs
    /\ book \in [Pods -> LiveRates \cup {Baseline}]
    /\ pairOverrides \in [Pods -> Optional(LiveRates)]
    /\ lastGood \in [Pods -> Optional(LiveRates)]
    /\ fxQuotes \in [Quotes -> Optional(QuoteDocs)]
    /\ quotesMem \in [Pods -> [Quotes -> Optional(QuoteDocs)]]
    /\ fxConversions \in [Keys -> Optional(Conversions)]
    /\ conversionsMem \in [Pods -> [Keys -> Optional(Conversions)]]
    /\ DOMAIN call = Calls
    /\ \A c \in Calls : call[c] \in CallRecords(c)

(* Conversions of one quote, by two calls or by one.                       *)
SameQuote(c, d) == call[c].conv # None /\ call[d].conv # None /\ call[c].q = call[d].q

(* A quote is converted at most once, whatever stale copies the pods hold, *)
(* whoever overwrites its status as EXPIRED: the compare-and-set of        *)
(* ConvertCurrency in fx_db decides.  Among conversions that name the      *)
(* quote this survives faults and restarts.  A spot conversion also hands  *)
(* out the id of its own quote, and marks it EXECUTED in fx_db by an       *)
(* update whose error is dropped: there it holds until the first fault.    *)
OneConversionPerQuote ==
    \A c, d \in Calls :
        /\ SameQuote(c, d)
        /\ faults = 0 \/ (call[c].req.q # None /\ call[d].req.q # None)
        => c = d

(* The locked-quote path of ConvertCurrency is idempotent and keeps the    *)
(* promise of CreateQuote: clients that send one key with one quote, at    *)
(* once or later, to any pod, are answered with one conversion, and its    *)
(* amounts are those the quote was issued with.                            *)
LockedAnswersAgree ==
    \A c \in Calls :
        LET same == {d \in Calls : Converting(d) /\ call[d].req.key = call[c].req.key} IN
        (Converting(c) /\ call[c].req.q # None /\ Answered(c)
         /\ \A d \in same : call[d].req.q = call[c].req.q)
        => /\ \A d \in same : Answered(d) => call[d].answer = call[c].answer
           /\ \A d \in Quoted : call[d].q = call[c].q =>
                 call[c].answer.src = call[d].answer.src /\ call[c].answer.dst = call[d].answer.dst

(* Without a fault, a quote that fx_db calls EXECUTED has been converted   *)
(* by some call, or ran out between the two compare-and-sets of            *)
(* ConvertCurrency: no other order of calls uses up a quote for nothing.   *)
ConsumedIsConverted ==
    \A q \in Quotes :
        (/\ faults = 0
         /\ fxQuotes[q] # None /\ fxQuotes[q].status = "EXECUTED"
         /\ \A c \in Calls : call[c].q = q => call[c].pc \in {"idle", "done"})
        => \/ \E c \in Calls : call[c].q = q /\ call[c].conv # None
           \/ Lapsed(fxQuotes[q])

-----------------------------------------------------------------------------
(* Claims of the documentation that the code does not keep; no run expects *)
(* them to hold (README, section 4).                                       *)

(* "FX conversions execute under atomic Compare-And-Swap (CAS)",           *)
(* "preventing double-execution": no quote is converted twice, the quote   *)
(* of a spot conversion included, whatever fails.                          *)
QuoteExecutedOnce == \A c, d \in Calls : SameQuote(c, d) => c = d

(* "ConvertCurrency executes an idempotent FX conversion": all answers to  *)
(* one idempotency key name the same conversion.                           *)
AnswersAgreePerKey ==
    \A c, d \in Calls :
        (/\ Converting(c) /\ Converting(d) /\ Answered(c) /\ Answered(d)
         /\ call[c].req.key = call[d].req.key)
        => call[c].answer = call[d].answer
=============================================================================
