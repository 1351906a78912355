-------------------------- MODULE FXEngine_proofs --------------------------
(***************************************************************************)
(* Proofs about FXEngine, for any pods, calls, quotes and keys, any rates, *)
(* fees and spreads, and with faults and restarts.                         *)
(*                                                                         *)
(* That a quote is converted once rests on the compare-and-set in fx_db: a *)
(* call that passed it is alone with its quote, and the quote is never     *)
(* ACTIVE again (ClaimsHold). For that the id of a quote must name one     *)
(* document: it is drawn by one call (OneCreator), stored once             *)
(* (DrawnFirst), and named by others only after its CreateQuote has        *)
(* answered or its spot conversion is made (Issued). That all answers      *)
(* about a quote agree rests on more: every copy, in fx_db, in a pod's map *)
(* or in the hands of a call, carries the terms the quote was issued with  *)
(* (Terms), whatever status it has.                                        *)
(* A spot conversion passes no compare-and-set. Until a fault happens its  *)
(* quote is no longer ACTIVE when its id gets known, so nobody can claim   *)
(* it (SpotAlone).                                                         *)
(* That a quote is not used up for nothing holds until a fault happens:    *)
(* EXECUTED is written in fx_db before any copy says so, EXPIRED only once *)
(* the quote has lapsed (DocsSound), so between its two compare-and-sets a *)
(* call finds a copy that nobody else has executed (Clear).                *)
(***************************************************************************)
EXTENDS FXEngine, TLAPS

(* What the assumption on the constants says, part by part: the bounds are *)
(* numbers.                                                                *)
LEMMA Bounds ==
    ASSUME FXConstants
    PROVE  QuoteTTL \in Nat /\ MaxTime \in Nat /\ MaxFaults \in Nat /\ MaxSyncs \in Nat
BY PTL DEF FXConstants
(* The fee and the spread are shares of the amount, the spread below half. *)
LEMMA Percentages ==
    ASSUME FXConstants
    PROVE  FeeBps \in Nat /\ SpreadBps \in Nat /\ 10000 - SpreadBps \in Nat
<1>1. FeeBps \in 0..10000 /\ SpreadBps \in 0..4999
  BY PTL DEF FXConstants
<1> QED BY <1>1
(* The mid rates are fractions.                                            *)
LEMMA MidRates ==
    ASSUME FXConstants
    PROVE  Baseline \in Rates /\ LiveRates \subseteq Rates
BY PTL DEF FXConstants
(* No quote and no key is called None.                                     *)
LEMMA NoneIsNoName ==
    ASSUME FXConstants
    PROVE  None \notin Quotes /\ None \notin Keys
<1>1. None \notin Quotes \cup Keys \cup Rates
  BY PTL DEF FXConstants
<1> QED BY <1>1
(* The fields of a request.                                                *)
LEMMA RequestFields ==
    ASSUME FXConstants
    PROVE  \A c \in Calls : \A r \in Requests[c] :
             /\ r # None
             /\ r.pod \in Pods /\ r.q \in Quotes \cup {None} /\ r.amount \in Nat
             /\ r.op = "CREATE" => r.q = None
             /\ r.op = "CONVERT" => r.key \in Keys
BY PTL DEF FXConstants

(* Rounding half to even yields an integer, and a natural number when the  *)
(* fraction is not negative.                                               *)
LEMMA RoundToEvenType ==
    ASSUME NEW num \in Nat, NEW den \in Nat \ {0}
    PROVE  RoundToEven(num, den) \in Nat
<1>1. num \div den \in Int /\ num \div den >= 0
  OBVIOUS
<1> QED BY <1>1 DEF RoundToEven

(* Converting an amount of minor units yields an amount of minor units.    *)
LEMMA ConvertType ==
    ASSUME NEW units \in Nat, NEW num \in Nat, NEW den \in Nat \ {0}
    PROVE  ConvertUnitsScaleBankers(units, <<num, den>>) \in Nat
<1>1. units * num \in Nat
  OBVIOUS
<1>2. RoundToEven(units * num, den) \in Nat
  BY <1>1, RoundToEvenType
<1> QED BY <1>2 DEF ConvertUnitsScaleBankers

(* The terms of a quote are amounts of minor units.                        *)
LEMMA QuoteDocType ==
    ASSUME FXConstants, now \in Nat, NEW amount \in Nat, NEW mid \in Rates
    PROVE  /\ QuoteDoc(amount, ComputeRateDoc(mid)) \in QuoteDocs
           /\ QuoteDoc(amount, ComputeRateDoc(mid)).status = "ACTIVE"
<1> DEFINE fee == RoundToEven(amount * FeeBps, 10000)
           net == IF amount - fee <= 0 THEN amount ELSE amount - fee
           num == mid[1] * (10000 - SpreadBps)
           den == mid[2] * 10000
<1>1. fee \in Nat
  <2>1. amount * FeeBps \in Nat
    BY Percentages
  <2> QED BY <2>1, RoundToEvenType
<1>2. net \in Nat /\ amount - net \in Nat
  <2> HIDE DEF fee
  <2> QED BY <1>1
<1>3. num \in Nat /\ den \in Nat \ {0}
  <2>1. mid[1] \in Nat /\ mid[2] \in Nat \ {0}
    BY DEF Rates
  <2> QED BY <2>1, Percentages
<1>4. ConvertUnitsScaleBankers(net, <<num, den>>) \in Nat
  <2> HIDE DEF net, num, den
  <2> QED BY <1>2, <1>3, ConvertType
<1>5. QuoteDoc(amount, ComputeRateDoc(mid)) =
        [src |-> amount, dst |-> ConvertUnitsScaleBankers(net, <<num, den>>), fee |-> amount - net,
         exp |-> now + QuoteTTL, status |-> "ACTIVE"]
  BY DEF QuoteDoc, ComputeRateDoc
<1> HIDE DEF net, num, den
<1> QED BY <1>2, <1>4, <1>5, Bounds DEF QuoteDocs

-----------------------------------------------------------------------------
(* The inductive invariant.                                                *)
Op(c, o) == call[c].req # None /\ call[c].req.op = o
Locked(c) == call[c].req # None /\ call[c].req.q # None

(* What the step a call has reached says about its fields.                 *)
Shape(c, r) ==
    /\ r.pc = "idle" <=> r.req = None
    /\ r.pc = "idle" => r.q = None /\ r.doc = None /\ r.conv = None /\ r.answer = None
    /\ r.req # None =>
         /\ r.req.q # None => r.q = r.req.q
         /\ r.req.op = "CREATE" => r.pc \in {"create", "insertQuote", "done"}
         /\ r.req.op = "CREATE" /\ r.pc = "done" /\ r.answer # None => r.q # None
         /\ r.req.op = "CREATE" /\ r.answer # None => r.answer \in QuoteDocs /\ r.pc = "done"
         /\ r.req.op = "CONVERT" => r.answer \in Optional(Conversions)
         /\ r.pc \in {"create", "insertQuote", "spotMem", "spotDB"} => r.req.q = None
         /\ r.pc \in {"find", "create"} => r.q = r.req.q
         /\ r.pc \in {"create", "insertQuote"} => r.req.op \in {"CREATE", "CONVERT"}
         /\ r.pc \in {"load", "cacheQuote", "expireMem", "expireDB", "casDB", "casMem"} =>
              r.req.q # None
         /\ r.pc \in {"load", "cacheQuote"} => r.req.op \in {"GET", "CONVERT"}
         /\ r.pc \in {"expireMem", "expireDB"} => r.req.op = "GET"
         /\ r.pc \in {"find", "cacheConv", "casDB", "casMem", "spotMem", "spotDB", "record",
                      "insertConv"} => r.req.op = "CONVERT"
         /\ r.pc \in {"insertQuote", "spotMem", "spotDB", "record", "insertConv"} => r.q # None
         /\ r.pc \in {"insertQuote", "cacheQuote", "expireMem", "expireDB", "casDB", "casMem",
                      "spotMem", "spotDB", "record"} => r.doc # None
    /\ r.pc = "insertConv" => r.conv # None
    /\ r.conv # None => /\ r.req.op = "CONVERT" /\ r.pc \in {"insertConv", "done"}
                        /\ r.q # None /\ r.conv.by = c /\ r.conv.q = r.q
CallShape == \A c \in Calls : Shape(c, call[c])

(* A quote that a call names was issued by a finished CreateQuote or by a  *)
(* spot conversion that has been made, and each id is drawn by one call.   *)
Issues(e) ==
    /\ call[e].req # None /\ call[e].req.q = None
    /\ \/ call[e].req.op = "CREATE" /\ call[e].pc = "done" /\ call[e].answer # None
       \/ call[e].conv # None
Issued == \A c \in Calls : Locked(c) => \E e \in Calls : Issues(e) /\ call[e].q = call[c].q
OneCreator == \A c, d \in Calls :
    (call[c].req # None /\ call[c].req.q = None /\ call[d].req # None /\ call[d].req.q = None
     /\ call[c].q = call[d].q /\ call[c].q # None) => c = d

(* A document exists only under an id some call has drawn, and is inserted *)
(* once.                                                                   *)
DrawnFirst ==
    /\ \A q \in Quotes : fxQuotes[q] # None => \E c \in Calls : call[c].q = q
    /\ \A q \in Quotes, p \in Pods : quotesMem[p][q] # None => \E c \in Calls : call[c].q = q
    /\ \A c \in Calls : call[c].pc = "insertQuote" => fxQuotes[call[c].q] = None

(* A call that has passed the compare-and-set in fx_db is alone with its   *)
(* quote, which never becomes ACTIVE again.                                *)
Claims == {c \in Calls : /\ call[c].req # None /\ call[c].req.q # None
                         /\ \/ call[c].pc \in {"casMem", "record", "insertConv"}
                            \/ call[c].conv # None}
ClaimsHold == \A c \in Claims :
    /\ fxQuotes[call[c].q] # None /\ fxQuotes[call[c].q].status # "ACTIVE"
    /\ \A d \in Claims : call[d].q = call[c].q => d = c

QuoteInv == TypeOK /\ CallShape /\ Issued /\ OneCreator /\ DrawnFirst /\ ClaimsHold

(* All documents about a quote carry the terms it was issued with, as      *)
(* amounts and expiry t.                                                   *)
HasTerms(doc, t) == doc # None => doc.src = t[1] /\ doc.dst = t[2] /\ doc.exp = t[3]
HasAmounts(conv, t) == conv # None => conv.src = t[1] /\ conv.dst = t[2]
Terms(q, t) ==
    /\ HasTerms(fxQuotes[q], t)
    /\ \A p \in Pods : HasTerms(quotesMem[p][q], t)
    /\ \A c \in Calls : call[c].q = q =>
         /\ HasTerms(call[c].doc, t)
         /\ Op(c, "CREATE") => HasTerms(call[c].answer, t)
         /\ HasAmounts(call[c].conv, t)
OneSetOfTerms == \A q \in Quotes : \E t \in Nat \X Nat \X Nat : Terms(q, t)

(* A stored, cached or answered conversion is the one its call has made,   *)
(* under that call's key.                                                  *)
Genuine(v, k) == v # None => call[v.by].conv = v /\ call[v.by].req.key = k
ConversionsGenuine ==
    /\ \A k \in Keys : Genuine(fxConversions[k], k)
    /\ \A k \in Keys, p \in Pods : Genuine(conversionsMem[p][k], k)
    /\ \A c \in Calls : Op(c, "CONVERT") => Genuine(call[c].answer, call[c].req.key)

FXInv == QuoteInv /\ OneSetOfTerms /\ ConversionsGenuine

-----------------------------------------------------------------------------
(* Steps that change one call only, given by the fields it then has.       *)
Becomes(c, pc, req, q, doc, conv, answer) ==
    /\ DOMAIN call' = Calls
    /\ \A d \in Calls : d # c => call'[d] = call[d]
    /\ call'[c] \in CallRecords(c)
    /\ call'[c].pc = pc /\ call'[c].req = req /\ call'[c].q = q /\ call'[c].doc = doc
    /\ call'[c].conv = conv /\ call'[c].answer = answer
Moves(c, pc, doc, conv, answer) == Becomes(c, pc, call[c].req, call[c].q, doc, conv, answer)

(* The types of the fields of a call.                                      *)
LEMMA CallFields ==
    ASSUME TypeOK, NEW c \in Calls
    PROVE  /\ call[c].pc \in Steps /\ call[c].req \in Optional(Requests[c])
           /\ call[c].q \in Optional(Quotes) /\ call[c].doc \in Optional(QuoteDocs)
           /\ call[c].conv \in Optional(Conversions)
           /\ call[c].answer \in Optional(QuoteDocs \cup Conversions)
BY DEF TypeOK, CallRecords

(* The number of faults stays within its bound.                            *)
LEMMA FaultCount ==
    ASSUME FXConstants, TypeOK, Ok \/ Fail
    PROVE  faults' \in 0..MaxFaults
<1>1. faults \in 0..MaxFaults /\ MaxFaults \in Nat
  BY Bounds DEF TypeOK
<1> QED BY <1>1 DEF Ok, Fail

(* The forms of assignment to a call that the steps use.                   *)
LEMMA GotoMoves ==
    ASSUME TypeOK, NEW c \in Calls, NEW l \in Steps, Goto(c, l)
    PROVE  Moves(c, l, call[c].doc, call[c].conv, call[c].answer)
<1>1. call[c] \in CallRecords(c) /\ DOMAIN call = Calls
  BY DEF TypeOK
<1>2. [call[c] EXCEPT !.pc = l] \in CallRecords(c)
  BY <1>1 DEF CallRecords
<1> QED BY <1>1, <1>2 DEF Goto, Moves, Becomes, CallRecords
(* A call that is answered is done and forgets its document.               *)
LEMMA AnswerMoves ==
    ASSUME TypeOK, NEW c \in Calls, NEW x \in Optional(QuoteDocs \cup Conversions), Answer(c, x)
    PROVE  Moves(c, "done", None, call[c].conv, x)
<1>1. call[c] \in CallRecords(c) /\ DOMAIN call = Calls
  BY DEF TypeOK
<1>2. [call[c] EXCEPT !.pc = "done", !.answer = x, !.doc = None] \in CallRecords(c)
  BY <1>1 DEF CallRecords, Optional, Steps
<1> QED BY <1>1, <1>2 DEF Answer, Moves, Becomes, CallRecords
TakesDoc(c, l, x) == call' = [call EXCEPT ![c].pc = l, ![c].doc = x]
TakesAnswer(c, l, x) == call' = [call EXCEPT ![c].pc = l, ![c].answer = x]
TakesConv(c, l, x) == call' = [call EXCEPT ![c].pc = l, ![c].conv = x]
(* A call that takes up a document, a found conversion or a new one.       *)
LEMMA DocMoves ==
    ASSUME TypeOK, NEW c \in Calls, NEW l \in Steps, NEW x \in QuoteDocs, TakesDoc(c, l, x)
    PROVE  Moves(c, l, x, call[c].conv, call[c].answer)
<1>1. call[c] \in CallRecords(c) /\ DOMAIN call = Calls
  BY DEF TypeOK
<1>2. [call[c] EXCEPT !.pc = l, !.doc = x] \in CallRecords(c)
  BY <1>1 DEF CallRecords, Optional
<1> QED BY <1>1, <1>2 DEF TakesDoc, Moves, Becomes, CallRecords
(* The same for a conversion that was found.                               *)
LEMMA FoundMoves ==
    ASSUME TypeOK, NEW c \in Calls, NEW l \in Steps, NEW x \in Conversions, TakesAnswer(c, l, x)
    PROVE  Moves(c, l, call[c].doc, call[c].conv, x)
<1>1. call[c] \in CallRecords(c) /\ DOMAIN call = Calls
  BY DEF TypeOK
<1>2. [call[c] EXCEPT !.pc = l, !.answer = x] \in CallRecords(c)
  BY <1>1 DEF CallRecords, Optional
<1> QED BY <1>1, <1>2 DEF TakesAnswer, Moves, Becomes, CallRecords
(* The same for a conversion that is made.                                 *)
LEMMA ConvMoves ==
    ASSUME TypeOK, NEW c \in Calls, NEW l \in Steps, NEW x \in Conversions, TakesConv(c, l, x)
    PROVE  Moves(c, l, call[c].doc, x, call[c].answer)
<1>1. call[c] \in CallRecords(c) /\ DOMAIN call = Calls
  BY DEF TypeOK
<1>2. [call[c] EXCEPT !.pc = l, !.conv = x] \in CallRecords(c)
  BY <1>1 DEF CallRecords, Optional
<1> QED BY <1>1, <1>2 DEF TakesConv, Moves, Becomes, CallRecords

(* A call about to insert a quote has drawn its id itself.                 *)
LEMMA InserterShape ==
    ASSUME TypeOK, CallShape, NEW c \in Calls, call[c].pc = "insertQuote"
    PROVE  call[c].req # None /\ call[c].req.q = None /\ call[c].q \in Quotes
<1>1. Shape(c, call[c])
  BY DEF CallShape
<1>2. call[c].req # None /\ call[c].req.q = None /\ call[c].q # None
  BY <1>1 DEF Shape
<1> QED BY <1>2, CallFields DEF Optional
(* A call that names a quote works on that one.                            *)
LEMMA LockedShape ==
    ASSUME FXConstants, TypeOK, CallShape, NEW c \in Calls, Locked(c)
    PROVE  call[c].req \in Requests[c] /\ call[c].q \in Quotes /\ call[c].q = call[c].req.q
<1>1. Shape(c, call[c])
  BY DEF CallShape
<1>2. call[c].q = call[c].req.q
  BY <1>1 DEF Shape, Locked
<1> QED BY <1>2, CallFields, RequestFields DEF Optional, Locked
(* The quote a call names was drawn by a call that has issued it, so by    *)
(* none that is still at work on it.                                       *)
LEMMA NamedIsIssued ==
    ASSUME FXConstants, TypeOK, CallShape, Issued, OneCreator, NEW c \in Calls, NEW d \in Calls,
           Locked(d), call[c].req # None, call[c].req.q = None, ~Issues(c)
    PROVE  call[c].q # call[d].q
<1>1. PICK e \in Calls : Issues(e) /\ call[e].q = call[d].q
  BY DEF Issued
<1>2. call[d].q # None
  BY LockedShape, NoneIsNoName
<1> QED BY <1>1, <1>2 DEF OneCreator, Issues

(* What every step of a call after CreateQuote does with the documents: it *)
(* keeps them well formed, touches those of its own quote only, revives no *)
(* status, and claims the quote only from ACTIVE.                          *)
StoresTyped ==
    /\ fxQuotes' \in [Quotes -> Optional(QuoteDocs)]
    /\ quotesMem' \in [Pods -> [Quotes -> Optional(QuoteDocs)]]
    /\ fxConversions' \in [Keys -> Optional(Conversions)]
    /\ conversionsMem' \in [Pods -> [Keys -> Optional(Conversions)]]
    /\ faults' \in 0..MaxFaults /\ UNCHANGED <<now, rateVars>>
OwnQuoteOnly(c) ==
    \A q \in Quotes : q # call[c].q =>
        fxQuotes'[q] = fxQuotes[q] /\ \A p \in Pods : quotesMem'[p][q] = quotesMem[p][q]
RevivesNone(c) ==
    call[c].pc # "insertQuote" =>
        \A q \in Quotes :
          /\ fxQuotes[q] = None => fxQuotes'[q] = None
          /\ fxQuotes[q] # None /\ fxQuotes[q].status # "ACTIVE" =>
               fxQuotes'[q] # None /\ fxQuotes'[q].status # "ACTIVE"
ClaimsFromActive(c) ==
    c \in Claims' => \/ c \in Claims
                  \/ /\ fxQuotes[call[c].q] # None /\ fxQuotes[call[c].q].status = "ACTIVE"
                     /\ fxQuotes'[call[c].q] # None /\ fxQuotes'[call[c].q].status # "ACTIVE"

OneCallMoves(c) ==
    /\ DOMAIN call' = Calls
    /\ \A d \in Calls : d # c => call'[d] = call[d]
    /\ call'[c] \in CallRecords(c) /\ call'[c].req = call[c].req /\ call'[c].q = call[c].q
    /\ call[c].pc \notin {"idle", "done"} /\ call'[c].pc \notin {"idle", "insertQuote"}
    /\ call[c].conv # None => call'[c].conv # None
SafeMove(c) ==
    /\ OneCallMoves(c) /\ Shape(c, call[c])'
    /\ StoresTyped /\ OwnQuoteOnly(c) /\ RevivesNone(c) /\ ClaimsFromActive(c)

(* Such a step of a call keeps QuoteInv.                                   *)
LEMMA MoveKeepsQuoteInv ==
    ASSUME FXConstants, QuoteInv, NEW c \in Calls, SafeMove(c)
    PROVE  QuoteInv'
<1>1. OneCallMoves(c) /\ StoresTyped /\ OwnQuoteOnly(c) /\ RevivesNone(c) /\ ClaimsFromActive(c)
  BY DEF SafeMove
<1>0. /\ TypeOK /\ CallShape /\ Issued /\ OneCreator /\ DrawnFirst /\ ClaimsHold
      /\ call[c].req \in Optional(Requests[c]) /\ call[c].q \in Optional(Quotes)
      /\ call[c].req # None
  <2>1. TypeOK /\ CallShape /\ Issued /\ OneCreator /\ DrawnFirst /\ ClaimsHold
    BY DEF QuoteInv
  <2>2. Shape(c, call[c])
    BY <2>1 DEF CallShape
  <2>3. call[c].req # None
    BY <1>1, <2>2 DEF Shape, OneCallMoves
  <2> QED BY <2>1, <2>3, CallFields
<1>2. TypeOK'
  <2>1. \A d \in Calls : call'[d] \in CallRecords(d)
    BY <1>0, <1>1 DEF OneCallMoves, TypeOK
  <2> QED BY <1>0, <1>1, <2>1 DEF TypeOK, OneCallMoves, StoresTyped, rateVars
<1>3. CallShape'
  BY <1>0, <1>1 DEF CallShape, OneCallMoves, SafeMove
<1>4. \A d \in Calls : /\ call'[d].req = call[d].req /\ call'[d].q = call[d].q
                       /\ call[d].pc = "done" => call'[d] = call[d]
                       /\ call[d].conv # None => call'[d].conv # None
  BY <1>1 DEF OneCallMoves
<1>5. Issued'
  BY <1>0, <1>4 DEF Issued, Issues, Locked
<1>6. OneCreator'
  BY <1>0, <1>4 DEF OneCreator
<1>7. DrawnFirst'
  <2>1. \A q \in Quotes : fxQuotes'[q] # None => \E d \in Calls : call'[d].q = q
    BY <1>0, <1>1, <1>4 DEF DrawnFirst, OwnQuoteOnly, OneCallMoves
  <2>2. \A q \in Quotes, p \in Pods : quotesMem'[p][q] # None => \E d \in Calls : call'[d].q = q
    BY <1>0, <1>1, <1>4 DEF DrawnFirst, OwnQuoteOnly, OneCallMoves
  <2>3. ASSUME NEW d \in Calls, call'[d].pc = "insertQuote" PROVE fxQuotes'[call'[d].q] = None
    <3>1. d # c /\ call[d].pc = "insertQuote" /\ call'[d].q = call[d].q
      BY <1>1, <2>3 DEF OneCallMoves
    <3>2. call[d].q # None /\ call[d].req.q = None /\ call[d].req # None /\ call[d].q \in Quotes
      BY <1>0, <3>1, InserterShape, NoneIsNoName
    <3>3. fxQuotes[call[d].q] = None
      BY <1>0, <3>1 DEF DrawnFirst
    <3>4. CASE call[c].pc = "insertQuote"
      <4>1. call[c].req.q = None
        BY <1>0, <3>4, InserterShape
      <4>2. call[c].q # call[d].q
        BY <1>0, <3>1, <3>2, <4>1 DEF OneCreator
      <4> QED BY <1>1, <3>1, <3>2, <3>3, <4>2 DEF OwnQuoteOnly
    <3> QED BY <1>1, <3>1, <3>2, <3>3, <3>4 DEF RevivesNone
  <2> QED BY <2>1, <2>2, <2>3 DEF DrawnFirst
<1>8. ClaimsHold'
  <2>0. Claims' \subseteq Calls /\ Claims \subseteq Calls
    BY DEF Claims
  <2>1. \A d \in Claims' : d # c => d \in Claims
    BY <1>1 DEF Claims, OneCallMoves
  <2>2. \A d \in Claims' : Locked(d) /\ call'[d].q = call[d].q /\ call[d].q \in Quotes
    <3> TAKE d \in Claims'
    <3>1. Locked(d) /\ call'[d].q = call[d].q
      BY <1>4, <2>0 DEF Claims, Locked
    <3> QED BY <1>0, <2>0, <3>1, LockedShape
  <2>3. \A d \in Claims' : fxQuotes'[call[d].q] # None /\ fxQuotes'[call[d].q].status # "ACTIVE"
    <3> TAKE d \in Claims'
    <3>1. Locked(d) /\ call[d].q \in Quotes /\ d \in Calls
      BY <2>0, <2>2
    <3>2. CASE d \in Claims
      <4>1. fxQuotes[call[d].q] # None /\ fxQuotes[call[d].q].status # "ACTIVE"
        BY <1>0, <3>2 DEF ClaimsHold
      <4>2. CASE call[c].pc = "insertQuote"
        <5>1. call[c].req # None /\ call[c].req.q = None
          BY <1>0, <4>2, InserterShape
        <5>2. ~Issues(c)
          BY <1>0, <4>2 DEF Issues, CallShape, Shape
        <5>3. call[c].q # call[d].q
          BY <1>0, <3>1, <5>1, <5>2, NamedIsIssued
        <5> QED BY <1>1, <3>1, <4>1, <5>3 DEF OwnQuoteOnly
      <4> QED BY <1>1, <3>1, <4>1, <4>2 DEF RevivesNone
    <3>3. CASE d \notin Claims
      BY <1>1, <2>1, <3>3 DEF ClaimsFromActive
    <3> QED BY <3>2, <3>3
  <2>4. \A d, e \in Claims' : call[d].q = call[e].q => d = e
    <3> SUFFICES ASSUME NEW d \in Claims', NEW e \in Claims', call[d].q = call[e].q, d # e
                 PROVE  FALSE
      OBVIOUS
    <3>1. \A f, g \in Claims : call[f].q = call[g].q => f = g
      BY <1>0 DEF ClaimsHold
    <3>2. \A f \in Claims : fxQuotes[call[f].q].status # "ACTIVE"
      BY <1>0 DEF ClaimsHold
    <3>3. c \in Claims' /\ c \notin Claims => fxQuotes[call[c].q].status = "ACTIVE"
      BY <1>1 DEF ClaimsFromActive
    <3>4. (d \in Claims /\ e = c /\ e \notin Claims) \/ (e \in Claims /\ d = c /\ d \notin Claims)
      BY <2>1, <3>1
    <3> QED BY <3>2, <3>3, <3>4
  <2>5. \A d \in Claims' :
          /\ fxQuotes'[call'[d].q] # None /\ fxQuotes'[call'[d].q].status # "ACTIVE"
          /\ \A e \in Claims' : call'[e].q = call'[d].q => e = d
    <3> TAKE d \in Claims'
    <3>1. call'[d].q = call[d].q /\ \A e \in Claims' : call'[e].q = call[e].q
      BY <2>2
    <3>2. fxQuotes'[call[d].q] # None /\ fxQuotes'[call[d].q].status # "ACTIVE"
      BY <2>3
    <3>3. \A e \in Claims' : call'[e].q = call'[d].q => e = d
      BY <2>4, <3>1
    <3> QED BY <3>1, <3>2, <3>3
  <2> QED BY <2>5 DEF ClaimsHold
<1> QED BY <1>2, <1>3, <1>5, <1>6, <1>7, <1>8 DEF QuoteInv

(* A status write keeps the rest of the document, and creates none.        *)
LEMMA SetStatusEffect ==
    ASSUME TypeOK, NEW q \in Quotes, NEW s \in {"EXECUTED", "EXPIRED"}, SetStatus(q, s)
    PROVE  /\ fxQuotes' \in [Quotes -> Optional(QuoteDocs)]
           /\ \A r \in Quotes : r # q => fxQuotes'[r] = fxQuotes[r]
           /\ fxQuotes[q] = None => fxQuotes'[q] = None
           /\ fxQuotes[q] # None =>
                /\ fxQuotes'[q] \in QuoteDocs /\ fxQuotes'[q].status = s
                /\ fxQuotes'[q].src = fxQuotes[q].src /\ fxQuotes'[q].dst = fxQuotes[q].dst
                /\ fxQuotes'[q].exp = fxQuotes[q].exp
<1>1. fxQuotes \in [Quotes -> Optional(QuoteDocs)]
  BY DEF TypeOK
<1>2. CASE fxQuotes[q] = None
  BY <1>1, <1>2 DEF SetStatus, Optional
<1>3. CASE fxQuotes[q] # None
  <2> DEFINE d == [fxQuotes[q] EXCEPT !.status = s]
  <2>1. fxQuotes[q] \in QuoteDocs
    BY <1>1, <1>3 DEF Optional
  <2>2. /\ d \in QuoteDocs /\ d.status = s /\ d.src = fxQuotes[q].src
        /\ d.dst = fxQuotes[q].dst /\ d.exp = fxQuotes[q].exp
    BY <2>1 DEF QuoteDocs
  <2>3. fxQuotes' = [fxQuotes EXCEPT ![q] = d]
    BY <1>3 DEF SetStatus
  <2> HIDE DEF d
  <2> QED BY <1>1, <1>3, <2>2, <2>3 DEF Optional
<1> QED BY <1>2, <1>3

(* A step that leaves the quote documents alone, and that claims nothing,  *)
(* is safe.                                                                *)
LEMMA QuietMove ==
    ASSUME FXConstants, QuoteInv, NEW c \in Calls, call[c].pc \notin {"idle", "done"},
           NEW l \in Steps \ {"idle", "insertQuote"}, NEW x, NEW v, NEW a, Moves(c, l, x, v, a),
           call[c].conv # None => v # None
    PROVE  /\ OneCallMoves(c)
           /\ UNCHANGED quoteVars => OwnQuoteOnly(c) /\ RevivesNone(c)
           /\ UNCHANGED fxQuotes => RevivesNone(c)
           /\ v = call[c].conv /\ l \notin {"casMem", "record", "insertConv"} => ClaimsFromActive(c)
           /\ call[c].pc \in {"casMem", "record", "insertConv"} => ClaimsFromActive(c)
<1>1. OneCallMoves(c)
  BY DEF Moves, Becomes, OneCallMoves
<1>2. UNCHANGED quoteVars => OwnQuoteOnly(c) /\ RevivesNone(c)
  BY DEF OwnQuoteOnly, RevivesNone, quoteVars
<1>3. UNCHANGED fxQuotes => RevivesNone(c)
  BY DEF RevivesNone
<1>4. v = call[c].conv /\ l \notin {"casMem", "record", "insertConv"} => ClaimsFromActive(c)
  BY DEF ClaimsFromActive, Claims, Moves, Becomes
<1>5. call[c].pc \in {"casMem", "record", "insertConv"} => ClaimsFromActive(c)
  BY DEF ClaimsFromActive, Claims, Moves, Becomes
<1> QED BY <1>1, <1>2, <1>3, <1>4, <1>5

(* Writing one copy of a quote leaves all others.                          *)
PutsCopy(p, q, x) == quotesMem' = [quotesMem EXCEPT ![p][q] = x]
LEMMA PutCopyEffect ==
    ASSUME TypeOK, NEW p \in Pods, NEW q \in Quotes, NEW x \in Optional(QuoteDocs),
           PutsCopy(p, q, x)
    PROVE  /\ quotesMem' \in [Pods -> [Quotes -> Optional(QuoteDocs)]]
           /\ quotesMem'[p][q] = x
           /\ \A r \in Quotes, s \in Pods : r # q \/ s # p => quotesMem'[s][r] = quotesMem[s][r]
<1>1. quotesMem \in [Pods -> [Quotes -> Optional(QuoteDocs)]]
  BY DEF TypeOK
<1>2. quotesMem' = [quotesMem EXCEPT ![p] = [quotesMem[p] EXCEPT ![q] = x]]
  BY DEF PutsCopy
<1>3. [quotesMem[p] EXCEPT ![q] = x] \in [Quotes -> Optional(QuoteDocs)]
  BY <1>1
<1>4. quotesMem' \in [Pods -> [Quotes -> Optional(QuoteDocs)]]
  BY <1>1, <1>2, <1>3
<1>5. quotesMem'[p] = [quotesMem[p] EXCEPT ![q] = x] /\ \A s \in Pods : s # p => quotesMem'[s] = quotesMem[s]
  BY <1>1, <1>2
<1>6. quotesMem[p] \in [Quotes -> Optional(QuoteDocs)]
  BY <1>1
<1> QED BY <1>4, <1>5, <1>6

-----------------------------------------------------------------------------
(* What every step of a call after CreateQuote does with the contents: the *)
(* documents it writes or takes carry the terms of those that are there,   *)
(* and the conversions it stores or answers are there already or its own.  *)
Carries(c, x) == \A t : Terms(call[c].q, t) => HasTerms(x, t)
StoreTerms(c) ==
    \A t : Terms(call[c].q, t) =>
        HasTerms(fxQuotes'[call[c].q], t) /\ \A p \in Pods : HasTerms(quotesMem'[p][call[c].q], t)
CallTerms(c) ==
    \A t : Terms(call[c].q, t) =>
        /\ HasTerms(call'[c].doc, t) /\ HasAmounts(call'[c].conv, t)
        /\ Op(c, "CREATE") => HasTerms(call'[c].answer, t)
Own(c) == {None, call[c].answer, call[c].conv, fxConversions[call[c].req.key],
           conversionsMem[P(c)][call[c].req.key]}
ConvsFlow(c) ==
    /\ call[c].conv # None => call'[c].conv = call[c].conv
    /\ Op(c, "CONVERT") => call'[c].answer \in Own(c)
    /\ \A k \in Keys : \/ fxConversions'[k] = fxConversions[k]
                       \/ /\ Op(c, "CONVERT") /\ k = call[c].req.key
                          /\ fxConversions'[k] \in Own(c)
    /\ \A k \in Keys, p \in Pods : \/ conversionsMem'[p][k] = conversionsMem[p][k]
                                   \/ /\ Op(c, "CONVERT") /\ k = call[c].req.key
                                      /\ conversionsMem'[p][k] \in Own(c) \cup {call'[c].conv}
DataMove(c) == StoreTerms(c) /\ CallTerms(c) /\ ConvsFlow(c)

(* The documents a call can see carry the terms of its quote.              *)
LEMMA SeenCarries ==
    ASSUME NEW c \in Calls
    PROVE  /\ Carries(c, None) /\ Carries(c, call[c].doc) /\ Carries(c, fxQuotes[call[c].q])
           /\ \A p \in Pods : Carries(c, quotesMem[p][call[c].q])
BY DEF Carries, Terms, HasTerms

(* A new status leaves the terms.                                          *)
LEMMA StatusCarries ==
    ASSUME NEW c \in Calls, NEW doc \in QuoteDocs, Carries(c, doc), NEW s, NoneIsNoDocument
    PROVE  Carries(c, [doc EXCEPT !.status = s])
<1> DEFINE new == [doc EXCEPT !.status = s]
<1>1. new.src = doc.src /\ new.dst = doc.dst /\ new.exp = doc.exp
  BY DEF QuoteDocs
<1>2. doc # None
  BY DEF NoneIsNoDocument
<1> HIDE DEF new
<1>3. Carries(c, new)
  BY <1>1, <1>2 DEF Carries, HasTerms
<1> QED BY <1>3 DEF new

(* The ways in which a step writes quotes.                                 *)
LEMMA QuietStores ==
    ASSUME NEW c \in Calls, UNCHANGED quoteVars
    PROVE  StoreTerms(c)
BY DEF StoreTerms, Terms, quoteVars
(* A copy in memory.                                                       *)
LEMMA CopyStores ==
    ASSUME TypeOK, NEW c \in Calls, NEW p \in Pods, call[c].q \in Quotes, UNCHANGED fxQuotes,
           NEW x \in Optional(QuoteDocs), Carries(c, x), PutsCopy(p, call[c].q, x)
    PROVE  StoreTerms(c)
<1>1. /\ quotesMem'[p][call[c].q] = x
      /\ \A s \in Pods : s # p => quotesMem'[s][call[c].q] = quotesMem[s][call[c].q]
  BY PutCopyEffect
<1> QED BY <1>1 DEF StoreTerms, Carries, Terms
(* A status in fx_db.                                                      *)
LEMMA StatusStores ==
    ASSUME TypeOK, NEW c \in Calls, call[c].q \in Quotes, UNCHANGED quotesMem,
           NEW s \in {"EXECUTED", "EXPIRED"}, SetStatus(call[c].q, s)
    PROVE  StoreTerms(c)
<1>1. /\ fxQuotes[call[c].q] = None => fxQuotes'[call[c].q] = None
      /\ fxQuotes[call[c].q] # None =>
           /\ fxQuotes'[call[c].q].src = fxQuotes[call[c].q].src
           /\ fxQuotes'[call[c].q].dst = fxQuotes[call[c].q].dst
           /\ fxQuotes'[call[c].q].exp = fxQuotes[call[c].q].exp
  BY SetStatusEffect
<1> QED BY <1>1 DEF StoreTerms, Terms, HasTerms

(* A step that makes no conversion.                                        *)
LEMMA QuietData ==
    ASSUME NEW c \in Calls, NEW l, NEW x, NEW a, Moves(c, l, x, call[c].conv, a),
           StoreTerms(c), Carries(c, x), Op(c, "CREATE") => Carries(c, a),
           Op(c, "CONVERT") => a \in Own(c), UNCHANGED convVars
    PROVE  DataMove(c)
<1>1. call'[c].doc = x /\ call'[c].conv = call[c].conv /\ call'[c].answer = a
  BY DEF Moves, Becomes
<1>2. CallTerms(c)
  BY <1>1 DEF CallTerms, Carries, Terms
<1>3. ConvsFlow(c)
  BY <1>1 DEF ConvsFlow, convVars
<1> QED BY <1>2, <1>3 DEF DataMove

(* A call that is neither done nor about to be has no answer of its own.   *)
LEMMA NoAnswerYet ==
    ASSUME NEW c \in Calls, Shape(c, call[c]), call[c].pc # "done", Op(c, "CREATE")
    PROVE  Carries(c, call[c].answer)
BY DEF Shape, Op, Carries, HasTerms

(* What is known of a call in flight.                                      *)
LEMMA InFlight ==
    ASSUME QuoteInv, NEW c \in Calls, call[c].pc # "idle"
    PROVE  /\ TypeOK /\ CallShape /\ Shape(c, call[c]) /\ call[c].req # None
           /\ call[c].req \in Requests[c]
<1>1. TypeOK /\ CallShape /\ Shape(c, call[c])
  BY DEF QuoteInv, CallShape
<1>2. call[c].req # None
  BY <1>1 DEF Shape
<1> QED BY <1>1, <1>2, CallFields DEF Optional

(* Using a quote that was loaded is a quiet step.                          *)
LEMMA UseQuoteIsSafe ==
    ASSUME FXConstants, NoneIsNoDocument, QuoteInv, NEW c \in Calls,
           call[c].pc \in {"load", "cacheQuote"}, NEW doc \in QuoteDocs, UseQuote(c, doc)
    PROVE  /\ OneCallMoves(c) /\ Shape(c, call[c])' /\ ClaimsFromActive(c)
           /\ StoreTerms(c) /\ Carries(c, doc) /\ UNCHANGED convVars => DataMove(c)
<1>0. TypeOK /\ Shape(c, call[c]) /\ call[c].req # None /\ ~Op(c, "CREATE")
  <2>1. TypeOK /\ Shape(c, call[c]) /\ call[c].req # None
    BY InFlight
  <2> QED BY <2>1 DEF Shape, Op
<1>1. CASE call[c].req.op = "GET" /\ doc.status = "ACTIVE" /\ Lapsed(doc)
  <2>1. Moves(c, "expireMem", doc, call[c].conv, call[c].answer)
    <3>1. TakesDoc(c, "expireMem", doc)
      BY <1>1 DEF UseQuote, TakesDoc
    <3>2. "expireMem" \in Steps
      BY DEF Steps
    <3> QED BY <1>0, <3>1, <3>2, DocMoves
  <2>2. Shape(c, call[c])'
    BY <1>0, <1>1, <2>1 DEF Shape, Moves, Becomes, NoneIsNoDocument
  <2>3. StoreTerms(c) /\ Carries(c, doc) /\ UNCHANGED convVars => DataMove(c)
    BY <1>0, <1>1, <2>1, QuietData, SeenCarries DEF Own, Op
  <2> QED BY <2>1, <2>2, <2>3, QuietMove DEF Steps
<1>2. CASE call[c].req.op = "GET" /\ ~(doc.status = "ACTIVE" /\ Lapsed(doc))
  <2>1. Moves(c, "done", None, call[c].conv, doc)
    BY <1>0, <1>2, AnswerMoves DEF UseQuote, Optional
  <2>2. Shape(c, call[c])'
    BY <1>0, <1>2, <2>1 DEF Shape, Moves, Becomes
  <2>3. StoreTerms(c) /\ Carries(c, doc) /\ UNCHANGED convVars => DataMove(c)
    BY <1>0, <1>2, <2>1, QuietData, SeenCarries DEF Own, Op
  <2> QED BY <2>1, <2>2, <2>3, QuietMove DEF Steps
<1>3. CASE call[c].req.op # "GET" /\ (doc.status # "ACTIVE" \/ Lapsed(doc) \/ Mismatch(c, doc))
  <2>1. Moves(c, "done", None, call[c].conv, None)
    BY <1>0, <1>3, AnswerMoves DEF UseQuote, Refuse, Optional
  <2>2. Shape(c, call[c])'
    BY <1>0, <1>3, <2>1 DEF Shape, Moves, Becomes, Optional
  <2>3. StoreTerms(c) /\ Carries(c, doc) /\ UNCHANGED convVars => DataMove(c)
    BY <1>0, <1>3, <2>1, QuietData, SeenCarries DEF Own, Op
  <2> QED BY <2>1, <2>2, <2>3, QuietMove DEF Steps
<1>4. CASE call[c].req.op # "GET" /\ ~(doc.status # "ACTIVE" \/ Lapsed(doc) \/ Mismatch(c, doc))
  <2>1. Moves(c, "casDB", doc, call[c].conv, call[c].answer)
    <3>1. TakesDoc(c, "casDB", doc)
      BY <1>4 DEF UseQuote, TakesDoc
    <3>2. "casDB" \in Steps
      BY DEF Steps
    <3> QED BY <1>0, <3>1, <3>2, DocMoves
  <2>2. Shape(c, call[c])'
    BY <1>0, <1>4, <2>1 DEF Shape, Moves, Becomes, NoneIsNoDocument
  <2>3. StoreTerms(c) /\ Carries(c, doc) /\ UNCHANGED convVars => DataMove(c)
    BY <1>0, <1>4, <2>1, QuietData, SeenCarries DEF Own, Op
  <2> QED BY <2>1, <2>2, <2>3, QuietMove DEF Steps
<1> QED BY <1>1, <1>2, <1>3, <1>4

(* The steps from a drawn quote id to its use.                             *)
LEMMA QuoteStepsAreSafe ==
    ASSUME FXConstants, NoneIsNoDocument, QuoteInv, NEW c \in Calls,
           InsertQuote(c) \/ LoadQuote(c) \/ CacheQuote(c) \/ ExpireInMemory(c) \/ ExpireInDB(c)
    PROVE  SafeMove(c) /\ DataMove(c)
<1>0. /\ TypeOK /\ CallShape /\ Shape(c, call[c]) /\ call[c].req # None
      /\ call[c].req \in Requests[c] /\ call[c].pc \notin {"idle", "done"}
  <2>1. call[c].pc \notin {"idle", "done"}
    BY DEF InsertQuote, LoadQuote, CacheQuote, ExpireInMemory, ExpireInDB
  <2> QED BY <2>1, InFlight
<1>1. CASE InsertQuote(c)
  <2>1. call[c].q \in Quotes /\ call[c].doc \in QuoteDocs /\ call[c].pc = "insertQuote"
    <3>1. call[c].pc = "insertQuote" /\ call[c].q # None /\ call[c].doc # None
      BY <1>0, <1>1 DEF InsertQuote, Shape
    <3> QED BY <1>0, <3>1, CallFields DEF Optional
  <2>2. StoresTyped /\ OwnQuoteOnly(c) /\ RevivesNone(c)
    <3>1. /\ Ok \/ Fail
          /\ fxQuotes' = [fxQuotes EXCEPT ![call[c].q] = call[c].doc] \/ UNCHANGED fxQuotes
          /\ UNCHANGED <<now, quotesMem, convVars, rateVars>>
      BY <1>1 DEF InsertQuote
    <3>2. faults' \in 0..MaxFaults
      BY <1>0, <3>1, FaultCount
    <3>3. fxQuotes' \in [Quotes -> Optional(QuoteDocs)]
      BY <1>0, <2>1, <3>1 DEF TypeOK, Optional
    <3>4. StoresTyped
      BY <1>0, <3>1, <3>2, <3>3 DEF StoresTyped, TypeOK, convVars
    <3>5. OwnQuoteOnly(c)
      BY <1>0, <2>1, <3>1 DEF OwnQuoteOnly, TypeOK
    <3> QED BY <2>1, <3>4, <3>5 DEF RevivesNone
  <2>a. StoreTerms(c) /\ UNCHANGED convVars
    <3>1. /\ fxQuotes' = [fxQuotes EXCEPT ![call[c].q] = call[c].doc] \/ UNCHANGED fxQuotes
          /\ UNCHANGED quotesMem /\ UNCHANGED convVars
      BY <1>1 DEF InsertQuote
    <3>2. fxQuotes'[call[c].q] \in {call[c].doc, fxQuotes[call[c].q]}
      BY <1>0, <2>1, <3>1 DEF TypeOK
    <3> QED BY <3>1, <3>2 DEF StoreTerms, Terms
  <2>3. CASE call[c].req.op = "CREATE"
    <3>1. Moves(c, "done", None, call[c].conv, call[c].doc)
      BY <1>0, <1>1, <2>1, <2>3, AnswerMoves DEF InsertQuote, Optional
    <3>2. Shape(c, call[c])'
      BY <1>0, <2>1, <2>3, <3>1 DEF Shape, Moves, Becomes, NoneIsNoDocument
    <3>3. DataMove(c)
      BY <2>a, <2>3, <3>1, QuietData, SeenCarries DEF Op
    <3> QED BY <1>0, <2>2, <3>1, <3>2, <3>3, QuietMove DEF SafeMove, Steps
  <2>4. CASE call[c].req.op # "CREATE"
    <3>1. Moves(c, "spotMem", call[c].doc, call[c].conv, call[c].answer)
      <4>1. Goto(c, "spotMem")
        BY <1>1, <2>4 DEF InsertQuote
      <4>2. "spotMem" \in Steps
        BY DEF Steps
      <4> QED BY <1>0, <4>1, <4>2, GotoMoves
    <3>2. Shape(c, call[c])'
      <4>1. call[c].req.op = "CONVERT"
        BY <1>0, <2>1, <2>4 DEF Shape
      <4> QED BY <1>0, <2>1, <3>1, <4>1 DEF Shape, Moves, Becomes
    <3>3. DataMove(c)
      BY <2>a, <2>4, <3>1, QuietData, SeenCarries DEF Op, Own
    <3> QED BY <1>0, <2>2, <3>1, <3>2, <3>3, QuietMove DEF SafeMove, Steps
  <2> QED BY <2>3, <2>4
<1>2. CASE LoadQuote(c)
  <2> DEFINE q == call[c].q  p == P(c)
  <2>1. call[c].pc = "load" /\ q \in Quotes /\ p \in Pods /\ call[c].req.q # None
    <3>1. call[c].pc = "load" /\ call[c].req.q # None /\ q = call[c].req.q
      BY <1>0, <1>2 DEF LoadQuote, Shape
    <3> QED BY <1>0, <3>1, RequestFields DEF P
  <2>2. StoresTyped /\ UNCHANGED quoteVars
    BY <1>0, <1>2, FaultCount DEF LoadQuote, StoresTyped, TypeOK, quoteVars, convVars, rateVars
  <2>a. StoreTerms(c) /\ UNCHANGED convVars /\ ~Op(c, "CREATE")
    <3>1. UNCHANGED convVars
      BY <1>2 DEF LoadQuote
    <3>2. ~Op(c, "CREATE")
      BY <1>0, <2>1 DEF Op, Shape
    <3> QED BY <2>2, <3>1, <3>2, QuietStores
  <2>3. quotesMem[p][q] \in Optional(QuoteDocs) /\ fxQuotes[q] \in Optional(QuoteDocs)
    BY <1>0, <2>1 DEF TypeOK
  <2>4. CASE quotesMem[p][q] # None /\ UseQuote(c, quotesMem[p][q])
    <3>1. quotesMem[p][q] \in QuoteDocs
      BY <2>3, <2>4 DEF Optional
    <3>2. OneCallMoves(c) /\ Shape(c, call[c])' /\ ClaimsFromActive(c) /\ DataMove(c)
      BY <2>a, <2>1, <2>4, <3>1, UseQuoteIsSafe, SeenCarries
    <3> QED BY <2>2, <3>2 DEF SafeMove, OwnQuoteOnly, RevivesNone, quoteVars
  <2>5. CASE fxQuotes[q] # None /\ TakesDoc(c, "cacheQuote", fxQuotes[q])
    <3>1. fxQuotes[q] \in QuoteDocs /\ "cacheQuote" \in Steps
      BY <2>3, <2>5 DEF Optional, Steps
    <3>2. Moves(c, "cacheQuote", fxQuotes[q], call[c].conv, call[c].answer)
      BY <1>0, <2>5, <3>1, DocMoves
    <3>3. Shape(c, call[c])'
      BY <1>0, <2>1, <2>5, <3>2 DEF Shape, Moves, Becomes
    <3>4. DataMove(c)
      BY <2>a, <3>2, QuietData, SeenCarries DEF Own
    <3> QED BY <1>0, <2>2, <3>1, <3>2, <3>3, <3>4, QuietMove DEF SafeMove
  <2>6. CASE Answer(c, None)
    <3>1. Moves(c, "done", None, call[c].conv, None)
      BY <1>0, <2>6, AnswerMoves DEF Optional
    <3>2. Shape(c, call[c])'
      BY <1>0, <2>1, <3>1 DEF Shape, Moves, Becomes, Optional
    <3>3. DataMove(c)
      BY <2>a, <3>1, QuietData, SeenCarries DEF Own
    <3> QED BY <1>0, <2>2, <3>1, <3>2, <3>3, QuietMove DEF SafeMove, Steps
  <2> QED BY <1>2, <2>4, <2>5, <2>6 DEF LoadQuote, TakesDoc, Refuse
<1>3. CASE CacheQuote(c)
  <2>1. /\ call[c].pc = "cacheQuote" /\ call[c].doc \in QuoteDocs /\ P(c) \in Pods
        /\ call[c].q \in Quotes
    <3>1. /\ call[c].pc = "cacheQuote" /\ call[c].doc # None /\ call[c].req.q # None
          /\ call[c].q = call[c].req.q
      BY <1>0, <1>3 DEF CacheQuote, Shape
    <3> QED BY <1>0, <3>1, CallFields, RequestFields DEF Optional, P
  <2>2. UseQuote(c, call[c].doc) /\ UNCHANGED <<fxQuotes, convVars, rateVars, now, faults>>
    BY <1>3 DEF CacheQuote
  <2>3. OneCallMoves(c) /\ Shape(c, call[c])' /\ ClaimsFromActive(c) /\ DataMove(c)
    <3>1. PutsCopy(P(c), call[c].q, call[c].doc) /\ call[c].doc \in Optional(QuoteDocs)
      BY <1>3, <2>1 DEF CacheQuote, PutsCopy, Optional
    <3>2. StoreTerms(c)
      BY <1>0, <2>1, <2>2, <3>1, CopyStores, SeenCarries
    <3> QED BY <2>1, <2>2, <3>2, UseQuoteIsSafe, SeenCarries
  <2>4. /\ quotesMem' \in [Pods -> [Quotes -> Optional(QuoteDocs)]]
        /\ \A q \in Quotes, p \in Pods : q # call[c].q => quotesMem'[p][q] = quotesMem[p][q]
    <3>1. PutsCopy(P(c), call[c].q, call[c].doc) /\ call[c].doc \in Optional(QuoteDocs)
      BY <1>3, <2>1 DEF CacheQuote, PutsCopy, Optional
    <3> QED BY <1>0, <2>1, <3>1, PutCopyEffect
  <2>5. StoresTyped /\ OwnQuoteOnly(c) /\ RevivesNone(c)
    BY <1>0, <2>2, <2>4 DEF StoresTyped, OwnQuoteOnly, RevivesNone, TypeOK, convVars, rateVars
  <2> QED BY <2>3, <2>5 DEF SafeMove
<1>4. CASE ExpireInMemory(c)
  <2> DEFINE doc == [call[c].doc EXCEPT !.status = "EXPIRED"]
  <2>1. /\ call[c].pc = "expireMem" /\ doc \in QuoteDocs /\ P(c) \in Pods /\ call[c].q \in Quotes
        /\ doc # None
    <3>1. /\ call[c].pc = "expireMem" /\ call[c].doc # None /\ call[c].req.q # None
          /\ call[c].q = call[c].req.q
      BY <1>0, <1>4 DEF ExpireInMemory, Shape
    <3>2. call[c].doc \in QuoteDocs
      BY <1>0, <3>1, CallFields DEF Optional
    <3>3. doc \in QuoteDocs
      BY <3>2 DEF QuoteDocs
    <3>4. doc # None
      BY <3>3 DEF NoneIsNoDocument
    <3> QED BY <1>0, <3>1, <3>3, <3>4, RequestFields DEF P
  <2>2. /\ TakesDoc(c, "expireDB", doc)
        /\ PutsCopy(P(c), call[c].q, doc)
        /\ UNCHANGED <<fxQuotes, convVars, rateVars, now, faults>>
    BY <1>4 DEF ExpireInMemory, TakesDoc, PutsCopy
  <2>a. Carries(c, doc)
    <3>1. call[c].doc \in QuoteDocs
      BY <1>0, <1>4, CallFields DEF ExpireInMemory, Shape, Optional
    <3> QED BY <3>1, SeenCarries, StatusCarries
  <2> HIDE DEF doc
  <2>b. StoreTerms(c)
    BY <1>0, <2>a, <2>1, <2>2, CopyStores DEF Optional
  <2>3. "expireDB" \in Steps \ {"idle", "insertQuote"}
    BY DEF Steps
  <2>4. Moves(c, "expireDB", doc, call[c].conv, call[c].answer)
    BY <1>0, <2>1, <2>2, <2>3, DocMoves
  <2>5. Shape(c, call[c])'
    BY <1>0, <2>1, <2>4 DEF Shape, Moves, Becomes
  <2>6. /\ quotesMem' \in [Pods -> [Quotes -> Optional(QuoteDocs)]]
        /\ \A q \in Quotes, p \in Pods : q # call[c].q => quotesMem'[p][q] = quotesMem[p][q]
    <3>1. doc \in Optional(QuoteDocs)
      BY <2>1 DEF Optional
    <3> QED BY <1>0, <2>1, <2>2, <3>1, PutCopyEffect
  <2>7. StoresTyped /\ OwnQuoteOnly(c) /\ RevivesNone(c)
    BY <1>0, <2>2, <2>6 DEF StoresTyped, OwnQuoteOnly, RevivesNone, TypeOK, convVars, rateVars
  <2>8. DataMove(c)
    <3>1. ~Op(c, "CREATE")
      BY <1>0, <2>1 DEF Op, Shape
    <3> QED BY <2>a, <2>b, <2>2, <2>4, <3>1, QuietData DEF Own
  <2> QED BY <1>0, <2>3, <2>4, <2>5, <2>7, <2>8, QuietMove DEF SafeMove
<1>5. CASE ExpireInDB(c)
  <2>1. /\ call[c].pc = "expireDB" /\ call[c].doc \in QuoteDocs /\ call[c].q \in Quotes
        /\ call[c].req.op = "GET"
    <3>1. /\ call[c].pc = "expireDB" /\ call[c].doc # None /\ call[c].req.q # None
          /\ call[c].q = call[c].req.q /\ call[c].req.op = "GET"
      BY <1>0, <1>5 DEF ExpireInDB, Shape
    <3> QED BY <1>0, <3>1, CallFields, RequestFields DEF Optional
  <2>2. /\ fxQuotes' = fxQuotes \/ SetStatus(call[c].q, "EXPIRED")
        /\ Answer(c, call[c].doc)
        /\ faults' \in 0..MaxFaults /\ UNCHANGED <<quotesMem, convVars, rateVars, now>>
    BY <1>0, <1>5, FaultCount DEF ExpireInDB
  <2>3. /\ fxQuotes' \in [Quotes -> Optional(QuoteDocs)]
        /\ \A q \in Quotes : q # call[c].q => fxQuotes'[q] = fxQuotes[q]
        /\ RevivesNone(c)
    <3>1. CASE fxQuotes' = fxQuotes
      BY <1>0, <3>1 DEF TypeOK, RevivesNone
    <3>2. CASE SetStatus(call[c].q, "EXPIRED")
      BY <1>0, <2>1, <3>2, SetStatusEffect DEF RevivesNone, NoneIsNoDocument
    <3> QED BY <2>2, <3>1, <3>2
  <2>4. StoresTyped /\ OwnQuoteOnly(c)
    BY <1>0, <2>2, <2>3 DEF StoresTyped, OwnQuoteOnly, TypeOK, convVars, rateVars
  <2>5. Moves(c, "done", None, call[c].conv, call[c].doc)
    BY <1>0, <2>1, <2>2, AnswerMoves DEF Optional
  <2>6. Shape(c, call[c])'
    BY <1>0, <2>1, <2>5 DEF Shape, Moves, Becomes
  <2>7. StoreTerms(c)
    BY <1>0, <2>1, <2>2, QuietStores, StatusStores DEF quoteVars
  <2>8. DataMove(c)
    BY <2>1, <2>2, <2>5, <2>7, QuietData, SeenCarries DEF Op
  <2> QED BY <1>0, <2>3, <2>4, <2>5, <2>6, <2>8, QuietMove DEF SafeMove, Steps
<1> QED BY <1>1, <1>2, <1>3, <1>4, <1>5

(* Writing one copy of a conversion leaves all others.                     *)
PutsConv(p, k, x) == conversionsMem' = [conversionsMem EXCEPT ![p][k] = x]
LEMMA PutConvEffect ==
    ASSUME TypeOK, NEW p \in Pods, NEW k \in Keys, NEW x \in Optional(Conversions),
           PutsConv(p, k, x)
    PROVE  /\ conversionsMem' \in [Pods -> [Keys -> Optional(Conversions)]]
           /\ conversionsMem'[p][k] = x
           /\ \A m \in Keys, s \in Pods :
                m # k \/ s # p => conversionsMem'[s][m] = conversionsMem[s][m]
<1>1. conversionsMem \in [Pods -> [Keys -> Optional(Conversions)]]
  BY DEF TypeOK
<1>2. conversionsMem' = [conversionsMem EXCEPT ![p] = [conversionsMem[p] EXCEPT ![k] = x]]
  BY DEF PutsConv
<1>3. [conversionsMem[p] EXCEPT ![k] = x] \in [Keys -> Optional(Conversions)]
  BY <1>1
<1>4. conversionsMem' \in [Pods -> [Keys -> Optional(Conversions)]]
  BY <1>1, <1>2, <1>3
<1>5. /\ conversionsMem'[p] = [conversionsMem[p] EXCEPT ![k] = x]
      /\ \A s \in Pods : s # p => conversionsMem'[s] = conversionsMem[s]
  BY <1>1, <1>2
<1>6. conversionsMem[p] \in [Keys -> Optional(Conversions)]
  BY <1>1
<1> QED BY <1>4, <1>5, <1>6

(* The call at hand, in a step of ConvertCurrency.                         *)
LEMMA Convert ==
    ASSUME FXConstants, QuoteInv, NEW c \in Calls,
           call[c].pc \in {"find", "cacheConv", "casDB", "casMem", "spotMem", "spotDB", "record",
                           "insertConv"}
    PROVE  /\ TypeOK /\ CallShape /\ Shape(c, call[c]) /\ call[c].req # None
           /\ call[c].req \in Requests[c] /\ call[c].req.op = "CONVERT"
           /\ P(c) \in Pods /\ call[c].req.key \in Keys
           /\ call[c].pc \in {"casDB", "casMem", "spotMem", "spotDB", "record", "insertConv"} =>
                call[c].q \in Quotes
           /\ call[c].pc \in {"casDB", "casMem", "spotMem", "spotDB", "record"} =>
                call[c].doc \in QuoteDocs
<1>1. /\ TypeOK /\ CallShape /\ Shape(c, call[c]) /\ call[c].req # None
      /\ call[c].req \in Requests[c]
  BY InFlight
<1>2. /\ call[c].req.op = "CONVERT"
      /\ call[c].pc \in {"spotMem", "spotDB", "record", "insertConv"} => call[c].q # None
      /\ call[c].pc \in {"casDB", "casMem"} => call[c].req.q # None /\ call[c].q = call[c].req.q
      /\ call[c].pc \in {"casDB", "casMem", "spotMem", "spotDB", "record"} => call[c].doc # None
  BY <1>1 DEF Shape
<1> QED BY <1>1, <1>2, CallFields, RequestFields DEF Optional, P

(* The steps of ConvertCurrency that look for an earlier conversion, and   *)
(* those that record a new one.                                            *)
LEMMA RecordStepsAreSafe ==
    ASSUME FXConstants, NoneIsNoDocument, QuoteInv, NEW c \in Calls,
           FindExistingConversion(c) \/ CacheConversion(c) \/ RecordConversion(c) \/ InsertConversion(c)
    PROVE  SafeMove(c) /\ DataMove(c)
<1>0. /\ TypeOK /\ CallShape /\ Shape(c, call[c]) /\ call[c].req # None
      /\ call[c].req \in Requests[c] /\ call[c].req.op = "CONVERT"
      /\ P(c) \in Pods /\ call[c].req.key \in Keys
      /\ call[c].pc \in {"record", "insertConv"} => call[c].q \in Quotes
      /\ call[c].pc = "record" => call[c].doc \in QuoteDocs
      /\ call[c].pc \in {"find", "cacheConv", "record", "insertConv"}
  <2>1. call[c].pc \in {"find", "cacheConv", "record", "insertConv"}
    BY DEF FindExistingConversion, CacheConversion, RecordConversion, InsertConversion
  <2> QED BY <2>1, Convert
<1>a. Op(c, "CONVERT") /\ ~Op(c, "CREATE")
  BY <1>0 DEF Op
<1> DEFINE p == P(c)  k == call[c].req.key
<1>1. CASE FindExistingConversion(c)
  <2>1. call[c].pc = "find"
    BY <1>1 DEF FindExistingConversion
  <2>2. StoresTyped /\ UNCHANGED quoteVars
    BY <1>0, <1>1, FaultCount DEF FindExistingConversion, StoresTyped, TypeOK, quoteVars, convVars,
       rateVars
  <2>3. /\ conversionsMem[p][k] \in Optional(Conversions)
        /\ fxConversions[k] \in Optional(Conversions)
    BY <1>0 DEF TypeOK
  <2>a. StoreTerms(c) /\ UNCHANGED convVars
    <3>1. UNCHANGED convVars
      BY <1>1 DEF FindExistingConversion
    <3> QED BY <2>2, <3>1, QuietStores
  <2>4. CASE Answer(c, conversionsMem[p][k])
    <3>1. Moves(c, "done", None, call[c].conv, conversionsMem[p][k])
      BY <1>0, <2>3, <2>4, AnswerMoves DEF Optional
    <3>2. Shape(c, call[c])'
      BY <1>0, <2>1, <2>3, <3>1 DEF Shape, Moves, Becomes
    <3>3. OneCallMoves(c) /\ OwnQuoteOnly(c) /\ RevivesNone(c) /\ ClaimsFromActive(c)
      BY <2>1, <2>2, <3>1, QuietMove DEF Steps
    <3>4. DataMove(c)
      BY <1>a, <2>a, <3>1, QuietData, SeenCarries DEF Own
    <3> QED BY <2>2, <3>2, <3>3, <3>4 DEF SafeMove
  <2>5. CASE fxConversions[k] # None /\ TakesAnswer(c, "cacheConv", fxConversions[k])
    <3>1. fxConversions[k] \in Conversions /\ "cacheConv" \in Steps
      BY <2>3, <2>5 DEF Optional, Steps
    <3>2. Moves(c, "cacheConv", call[c].doc, call[c].conv, fxConversions[k])
      BY <1>0, <2>5, <3>1, FoundMoves
    <3>3. Shape(c, call[c])'
      BY <1>0, <2>1, <2>3, <3>2 DEF Shape, Moves, Becomes
    <3>4. OneCallMoves(c) /\ OwnQuoteOnly(c) /\ RevivesNone(c) /\ ClaimsFromActive(c)
      BY <2>1, <2>2, <3>1, <3>2, QuietMove
    <3>5. DataMove(c)
      BY <1>a, <2>a, <3>2, QuietData, SeenCarries DEF Own
    <3> QED BY <2>2, <3>3, <3>4, <3>5 DEF SafeMove
  <2>6. CASE Goto(c, IF call[c].q = None THEN "create" ELSE "load")
    <3> DEFINE l == IF call[c].q = None THEN "create" ELSE "load"
    <3>1. l \in Steps \ {"idle", "insertQuote", "casMem", "record", "insertConv"}
      BY DEF Steps
    <3>2. Moves(c, l, call[c].doc, call[c].conv, call[c].answer)
      BY <1>0, <2>6, <3>1, GotoMoves
    <3>3. Shape(c, call[c])'
      <4>1. call[c].q = None => call[c].req.q = None
        BY <1>0 DEF Shape
      <4>2. call[c].q # None => call[c].req.q # None
        BY <1>0, <2>1 DEF Shape
      <4> QED BY <1>0, <2>1, <3>2, <4>1, <4>2 DEF Shape, Moves, Becomes
    <3>4. DataMove(c)
      <4> HIDE DEF l
      <4> QED BY <1>a, <2>a, <3>2, QuietData, SeenCarries DEF Own
    <3> QED BY <1>0, <2>1, <2>2, <3>1, <3>2, <3>3, <3>4, QuietMove DEF SafeMove
  <2> QED BY <1>1, <2>4, <2>5, <2>6 DEF FindExistingConversion, TakesAnswer
<1>2. CASE CacheConversion(c)
  <2>1. /\ call[c].pc = "cacheConv" /\ Goto(c, "done")
        /\ PutsConv(p, k, call[c].answer)
        /\ UNCHANGED <<now, quoteVars, fxConversions, rateVars, faults>>
    BY <1>2 DEF CacheConversion, PutsConv
  <2>2. call[c].answer \in Optional(Conversions)
    BY <1>0 DEF Shape
  <2>3. conversionsMem' \in [Pods -> [Keys -> Optional(Conversions)]]
    BY <1>0, <2>1, <2>2, PutConvEffect
  <2>4. StoresTyped
    BY <1>0, <2>1, <2>3 DEF StoresTyped, TypeOK, quoteVars, rateVars
  <2>5. "done" \in Steps \ {"idle", "insertQuote"}
    BY DEF Steps
  <2>6. Moves(c, "done", call[c].doc, call[c].conv, call[c].answer)
    BY <1>0, <2>1, <2>5, GotoMoves
  <2>7. Shape(c, call[c])'
    BY <1>0, <2>1, <2>6 DEF Shape, Moves, Becomes
  <2>8. DataMove(c)
    <3>1. call'[c].doc = call[c].doc /\ call'[c].conv = call[c].conv /\ call'[c].answer = call[c].answer
      BY <2>6 DEF Moves, Becomes
    <3>2. CallTerms(c)
      BY <3>1 DEF CallTerms, Terms
    <3>3. \A m \in Keys, r \in Pods : \/ conversionsMem'[r][m] = conversionsMem[r][m]
                                      \/ m = k /\ conversionsMem'[r][m] = call[c].answer
      BY <1>0, <2>1, <2>2, PutConvEffect
    <3>4. ConvsFlow(c)
      BY <1>a, <2>1, <3>1, <3>3 DEF ConvsFlow, Own
    <3>5. StoreTerms(c)
      BY <2>1, QuietStores
    <3> QED BY <3>2, <3>4, <3>5 DEF DataMove
  <2> QED BY <1>0, <2>1, <2>4, <2>5, <2>6, <2>7, <2>8, QuietMove DEF SafeMove
<1>3. CASE RecordConversion(c)
  <2> DEFINE conv == [by |-> c, q |-> call[c].q, src |-> call[c].doc.src, dst |-> call[c].doc.dst]
  <2>1. call[c].pc = "record" /\ call[c].q \in Quotes
    BY <1>0, <1>3 DEF RecordConversion
  <2>2. conv \in Conversions
    BY <1>0, <2>1 DEF Conversions, QuoteDocs
  <2>3. /\ conv # None /\ conv \in Optional(Conversions) /\ conv.by = c /\ conv.q = call[c].q
        /\ conv.src = call[c].doc.src /\ conv.dst = call[c].doc.dst
    BY <2>2 DEF NoneIsNoDocument, Optional
  <2>4. /\ TakesConv(c, "insertConv", conv) /\ PutsConv(p, k, conv)
        /\ UNCHANGED <<now, quoteVars, fxConversions, rateVars, faults>>
    BY <1>3 DEF RecordConversion, TakesConv, PutsConv
  <2> HIDE DEF conv
  <2>5. conversionsMem' \in [Pods -> [Keys -> Optional(Conversions)]]
    BY <1>0, <2>3, <2>4, PutConvEffect
  <2>6. StoresTyped
    BY <1>0, <2>4, <2>5 DEF StoresTyped, TypeOK, quoteVars, rateVars
  <2>7. "insertConv" \in Steps \ {"idle", "insertQuote"}
    BY DEF Steps
  <2>8. Moves(c, "insertConv", call[c].doc, conv, call[c].answer)
    BY <1>0, <2>2, <2>4, <2>7, ConvMoves
  <2>9. Shape(c, call[c])'
    BY <1>0, <2>1, <2>3, <2>8, NoneIsNoName DEF Shape, Moves, Becomes
  <2>10. DataMove(c)
    <3>1. call'[c].doc = call[c].doc /\ call'[c].conv = conv /\ call'[c].answer = call[c].answer
      BY <2>8 DEF Moves, Becomes
    <3>2. CallTerms(c)
      <4>1. call[c].doc # None
        BY <1>0, <2>1 DEF Shape
      <4> QED BY <1>a, <2>3, <3>1, <4>1 DEF CallTerms, Terms, HasTerms, HasAmounts
    <3>3. \A m \in Keys, r \in Pods : \/ conversionsMem'[r][m] = conversionsMem[r][m]
                                      \/ m = k /\ conversionsMem'[r][m] = conv
      BY <1>0, <2>3, <2>4, PutConvEffect
    <3>4. call[c].conv = None
      BY <1>0, <2>1 DEF Shape
    <3>5. ConvsFlow(c)
      BY <1>a, <2>4, <3>1, <3>3, <3>4 DEF ConvsFlow, Own
    <3>6. StoreTerms(c)
      BY <2>4, QuietStores
    <3> QED BY <3>2, <3>5, <3>6 DEF DataMove
  <2> QED BY <1>0, <2>1, <2>3, <2>4, <2>6, <2>7, <2>8, <2>9, <2>10, QuietMove DEF SafeMove
<1>4. CASE InsertConversion(c)
  <2>1. call[c].pc = "insertConv" /\ call[c].conv \in Conversions
    <3>1. call[c].pc = "insertConv" /\ call[c].conv # None
      BY <1>0, <1>4 DEF InsertConversion, Shape
    <3> QED BY <1>0, <3>1, CallFields DEF Optional
  <2>2. UNCHANGED quoteVars
    BY <1>4 DEF InsertConversion
  <2>3. StoresTyped
    <3>1. /\ Ok \/ Fail
          /\ fxConversions' = [fxConversions EXCEPT ![k] = call[c].conv] \/ UNCHANGED fxConversions
          /\ UNCHANGED <<now, quoteVars, conversionsMem, rateVars>>
      BY <1>4 DEF InsertConversion
    <3>2. faults' \in 0..MaxFaults
      BY <1>0, <3>1, FaultCount
    <3>3. fxConversions' \in [Keys -> Optional(Conversions)]
      BY <1>0, <2>1, <3>1 DEF TypeOK, Optional
    <3> QED BY <1>0, <3>1, <3>2, <3>3 DEF StoresTyped, TypeOK, quoteVars
  <2>4. PICK a \in {call[c].conv, conversionsMem[p][k]} : Answer(c, a)
    BY <1>4 DEF InsertConversion
  <2>5. a \in Optional(Conversions)
    BY <1>0, <2>1 DEF TypeOK, Optional
  <2>6. Moves(c, "done", None, call[c].conv, a)
    BY <1>0, <2>4, <2>5, AnswerMoves DEF Optional
  <2>7. Shape(c, call[c])'
    BY <1>0, <2>1, <2>5, <2>6 DEF Shape, Moves, Becomes
  <2>8. DataMove(c)
    <3>1. call'[c].doc = None /\ call'[c].conv = call[c].conv /\ call'[c].answer = a
      BY <2>6 DEF Moves, Becomes
    <3>2. CallTerms(c)
      BY <1>a, <3>1 DEF CallTerms, Terms, HasTerms
    <3>3. \A m \in Keys : fxConversions'[m] = fxConversions[m] \/ (m = k /\ fxConversions'[m] = call[c].conv)
      BY <1>0, <1>4 DEF InsertConversion, TypeOK
    <3>4. conversionsMem' = conversionsMem
      BY <1>4 DEF InsertConversion
    <3>5. ConvsFlow(c)
      BY <1>a, <2>4, <3>1, <3>3, <3>4 DEF ConvsFlow, Own
    <3>6. StoreTerms(c)
      BY <2>2, QuietStores
    <3> QED BY <3>2, <3>5, <3>6 DEF DataMove
  <2> QED BY <1>0, <2>1, <2>2, <2>3, <2>6, <2>7, <2>8, QuietMove DEF SafeMove, Steps
<1> QED BY <1>1, <1>2, <1>3, <1>4

(* The compare-and-sets of ConvertCurrency: the one in fx_db is where a    *)
(* quote is claimed.                                                       *)
LEMMA ExecuteStepsAreSafe ==
    ASSUME FXConstants, NoneIsNoDocument, QuoteInv, NEW c \in Calls,
           \/ ExecuteInDB(c) \/ ExecuteInMemory(c)
           \/ ExecuteSpotInMemory(c) \/ ExecuteSpotInDB(c)
    PROVE  SafeMove(c) /\ DataMove(c)
<1>0. /\ TypeOK /\ CallShape /\ Shape(c, call[c]) /\ call[c].req # None
      /\ call[c].req \in Requests[c] /\ call[c].req.op = "CONVERT" /\ P(c) \in Pods
      /\ call[c].q \in Quotes /\ call[c].doc \in QuoteDocs
      /\ call[c].pc \in {"casDB", "casMem", "spotMem", "spotDB"}
  <2>1. call[c].pc \in {"casDB", "casMem", "spotMem", "spotDB"}
    <3>1. CASE ExecuteInDB(c)
      BY <3>1 DEF ExecuteInDB
    <3>2. CASE ExecuteInMemory(c)
      <4>1. call[c].pc = "casMem"
        BY <3>2 DEF ExecuteInMemory
      <4> QED BY <4>1
    <3>3. CASE ExecuteSpotInMemory(c)
      <4>1. call[c].pc = "spotMem"
        BY <3>3 DEF ExecuteSpotInMemory
      <4> QED BY <4>1
    <3>4. CASE ExecuteSpotInDB(c)
      BY <3>4 DEF ExecuteSpotInDB
    <3> QED BY <3>1, <3>2, <3>3, <3>4
  <2> QED BY <2>1, Convert
<1>a. Op(c, "CONVERT") /\ ~Op(c, "CREATE")
  BY <1>0 DEF Op
<1> DEFINE p == P(c)  q == call[c].q
<1>1. CASE ExecuteInDB(c)
  <2>1. call[c].pc = "casDB"
    BY <1>1 DEF ExecuteInDB
  <2>2. /\ faults' \in 0..MaxFaults /\ UNCHANGED <<quotesMem, convVars, rateVars, now>>
        /\ fxQuotes' = fxQuotes \/ SetStatus(q, "EXECUTED")
    <3>1. faults \in 0..MaxFaults /\ MaxFaults \in Nat
      BY <1>0, Bounds DEF TypeOK
    <3>2. faults' \in 0..MaxFaults
      BY <1>1, <3>1 DEF ExecuteInDB, Ok, Fail
    <3> QED BY <1>1, <3>2 DEF ExecuteInDB
  <2>3. /\ fxQuotes' \in [Quotes -> Optional(QuoteDocs)]
        /\ \A r \in Quotes : r # q => fxQuotes'[r] = fxQuotes[r]
        /\ RevivesNone(c)
    <3>1. CASE fxQuotes' = fxQuotes
      BY <1>0, <3>1 DEF TypeOK, RevivesNone
    <3>2. CASE SetStatus(q, "EXECUTED")
      BY <1>0, <3>2, SetStatusEffect DEF RevivesNone, NoneIsNoDocument
    <3> QED BY <2>2, <3>1, <3>2
  <2>4. StoresTyped /\ OwnQuoteOnly(c)
    BY <1>0, <2>2, <2>3 DEF StoresTyped, OwnQuoteOnly, TypeOK, convVars, rateVars
  <2>a. StoreTerms(c) /\ UNCHANGED convVars
    BY <1>0, <2>2, QuietStores, StatusStores DEF quoteVars
  <2>5. CASE ExecutableInDB(q) /\ SetStatus(q, "EXECUTED") /\ Goto(c, "casMem")
    <3>1. "casMem" \in Steps \ {"idle", "insertQuote"}
      BY DEF Steps
    <3>2. Moves(c, "casMem", call[c].doc, call[c].conv, call[c].answer)
      BY <1>0, <2>5, <3>1, GotoMoves
    <3>3. Shape(c, call[c])'
      BY <1>0, <2>1, <3>2 DEF Shape, Moves, Becomes
    <3>4. fxQuotes[q] # None /\ fxQuotes[q].status = "ACTIVE"
      BY <2>5 DEF ExecutableInDB
    <3>5. fxQuotes'[q] # None /\ fxQuotes'[q].status # "ACTIVE"
      BY <1>0, <2>5, <3>4, SetStatusEffect DEF NoneIsNoDocument
    <3>6. ClaimsFromActive(c)
      BY <3>4, <3>5 DEF ClaimsFromActive
    <3>7. OneCallMoves(c)
      BY <2>1, <3>1, <3>2, QuietMove
    <3>8. DataMove(c)
      BY <1>a, <2>a, <3>2, QuietData, SeenCarries DEF Own
    <3> QED BY <2>3, <2>4, <3>3, <3>6, <3>7, <3>8 DEF SafeMove
  <2>6. CASE Refuse(c)
    <3>1. Moves(c, "done", None, call[c].conv, None)
      BY <1>0, <2>6, AnswerMoves DEF Refuse, Optional
    <3>2. Shape(c, call[c])'
      BY <1>0, <2>1, <3>1 DEF Shape, Moves, Becomes, Optional
    <3>3. OneCallMoves(c) /\ ClaimsFromActive(c)
      BY <2>1, <3>1, QuietMove DEF Steps
    <3>4. DataMove(c)
      BY <1>a, <2>a, <3>1, QuietData, SeenCarries DEF Own
    <3> QED BY <2>3, <2>4, <3>2, <3>3, <3>4 DEF SafeMove
  <2> QED BY <1>1, <2>5, <2>6 DEF ExecuteInDB
<1>2. CASE ExecuteInMemory(c)
  <2> DEFINE doc == IF quotesMem[p][q] # None THEN quotesMem[p][q] ELSE call[c].doc
             new == [doc EXCEPT !.status = "EXECUTED"]
  <2>1. call[c].pc = "casMem" /\ UNCHANGED <<now, fxQuotes, convVars, rateVars, faults>>
    BY <1>2 DEF ExecuteInMemory
  <2>2. doc \in QuoteDocs
    <3>1. quotesMem[p][q] \in Optional(QuoteDocs)
      BY <1>0 DEF TypeOK
    <3> QED BY <1>0, <3>1 DEF Optional
  <2>3. new \in QuoteDocs
    <3> HIDE DEF doc
    <3> QED BY <2>2 DEF QuoteDocs
  <2>4. CASE Refuse(c) /\ UNCHANGED quotesMem
    <3>1. Moves(c, "done", None, call[c].conv, None)
      BY <1>0, <2>4, AnswerMoves DEF Refuse, Optional
    <3>2. Shape(c, call[c])'
      BY <1>0, <2>1, <3>1 DEF Shape, Moves, Becomes, Optional
    <3>3. StoresTyped
      BY <1>0, <2>1, <2>4 DEF StoresTyped, TypeOK, convVars, rateVars
    <3>4. OneCallMoves(c) /\ OwnQuoteOnly(c) /\ RevivesNone(c) /\ ClaimsFromActive(c)
      BY <2>1, <2>4, <3>1, QuietMove DEF Steps, quoteVars
    <3>5. DataMove(c)
      <4>1. StoreTerms(c)
        BY <2>1, <2>4, QuietStores DEF quoteVars
      <4> QED BY <1>a, <2>1, <3>1, <4>1, QuietData, SeenCarries DEF Own
    <3> QED BY <3>2, <3>3, <3>4, <3>5 DEF SafeMove
  <2>5. CASE PutsCopy(p, q, new) /\ Goto(c, "record")
    <3>a. Carries(c, new)
      <4>1. Carries(c, doc)
        BY <1>0, SeenCarries
      <4> HIDE DEF doc
      <4> QED BY <2>2, <4>1, StatusCarries
    <3> HIDE DEF new
    <3>b. StoreTerms(c)
      BY <1>0, <2>1, <2>3, <2>5, <3>a, CopyStores DEF Optional
    <3>0. "record" \in Steps \ {"idle", "insertQuote"}
      BY DEF Steps
    <3>1. "record" \in Steps \ {"idle", "insertQuote"} /\ new \in Optional(QuoteDocs)
      BY <2>3, <3>0 DEF Optional
    <3>2. Moves(c, "record", call[c].doc, call[c].conv, call[c].answer)
      BY <1>0, <2>5, <3>1, GotoMoves
    <3>3. Shape(c, call[c])'
      <4>1. call[c].q # None
        BY <1>0, NoneIsNoName
      <4> QED BY <1>0, <2>1, <3>2, <4>1 DEF Shape, Moves, Becomes
    <3>4. /\ quotesMem' \in [Pods -> [Quotes -> Optional(QuoteDocs)]]
          /\ \A r \in Quotes, s \in Pods : r # q => quotesMem'[s][r] = quotesMem[s][r]
      BY <1>0, <2>5, <3>1, PutCopyEffect
    <3>5. StoresTyped /\ OwnQuoteOnly(c)
      BY <1>0, <2>1, <3>4 DEF StoresTyped, OwnQuoteOnly, TypeOK, convVars, rateVars
    <3>6. OneCallMoves(c) /\ RevivesNone(c) /\ ClaimsFromActive(c)
      BY <2>1, <3>1, <3>2, QuietMove
    <3>7. DataMove(c)
      BY <1>a, <2>1, <3>b, <3>2, QuietData, SeenCarries DEF Own
    <3> QED BY <3>3, <3>5, <3>6, <3>7 DEF SafeMove
  <2> QED BY <1>2, <2>4, <2>5 DEF ExecuteInMemory, PutsCopy
<1>3. CASE ExecuteSpotInMemory(c)
  <2> DEFINE new == [quotesMem[p][q] EXCEPT !.status = "EXECUTED"]
  <2>1. /\ call[c].pc = "spotMem" /\ UNCHANGED <<now, fxQuotes, convVars, rateVars, faults>>
        /\ Goto(c, "spotDB")
        /\ UNCHANGED quotesMem \/ (quotesMem[p][q] # None /\ PutsCopy(p, q, new))
    <3>1. UNCHANGED quotesMem \/ (quotesMem[p][q] # None /\ PutsCopy(p, q, new))
      BY <1>3 DEF ExecuteSpotInMemory, PutsCopy
    <3> QED BY <1>3, <3>1 DEF ExecuteSpotInMemory
  <2>2. quotesMem[p][q] # None => new \in QuoteDocs
    <3>1. quotesMem[p][q] \in Optional(QuoteDocs)
      BY <1>0 DEF TypeOK
    <3> QED BY <3>1 DEF QuoteDocs, Optional
  <2>a. quotesMem[p][q] # None => Carries(c, new)
    <3>1. quotesMem[p][q] \in Optional(QuoteDocs)
      BY <1>0 DEF TypeOK
    <3> QED BY <1>0, <3>1, SeenCarries, StatusCarries DEF Optional
  <2> HIDE DEF new
  <2>b. StoreTerms(c)
    BY <1>0, <2>a, <2>1, <2>2, QuietStores, CopyStores DEF quoteVars, Optional
  <2>3. /\ quotesMem' \in [Pods -> [Quotes -> Optional(QuoteDocs)]]
        /\ \A r \in Quotes, s \in Pods : r # q => quotesMem'[s][r] = quotesMem[s][r]
    <3>1. CASE UNCHANGED quotesMem
      BY <1>0, <3>1 DEF TypeOK
    <3>2. CASE quotesMem[p][q] # None /\ PutsCopy(p, q, new)
      <4>1. new \in Optional(QuoteDocs)
        BY <2>2, <3>2 DEF Optional
      <4> QED BY <1>0, <3>2, <4>1, PutCopyEffect
    <3> QED BY <2>1, <3>1, <3>2
  <2>4. "spotDB" \in Steps \ {"idle", "insertQuote"}
    BY DEF Steps
  <2>5. Moves(c, "spotDB", call[c].doc, call[c].conv, call[c].answer)
    BY <1>0, <2>1, <2>4, GotoMoves
  <2>6. Shape(c, call[c])'
    BY <1>0, <2>1, <2>5 DEF Shape, Moves, Becomes
  <2>7. StoresTyped /\ OwnQuoteOnly(c)
    BY <1>0, <2>1, <2>3 DEF StoresTyped, OwnQuoteOnly, TypeOK, convVars, rateVars
  <2>8. OneCallMoves(c) /\ RevivesNone(c) /\ ClaimsFromActive(c)
    BY <2>1, <2>4, <2>5, QuietMove
  <2>9. DataMove(c)
    BY <1>a, <2>b, <2>1, <2>5, QuietData, SeenCarries DEF Own
  <2> QED BY <2>6, <2>7, <2>8, <2>9 DEF SafeMove
<1>4. CASE ExecuteSpotInDB(c)
  <2>1. /\ call[c].pc = "spotDB" /\ Goto(c, "record")
        /\ faults' \in 0..MaxFaults /\ UNCHANGED <<quotesMem, convVars, rateVars, now>>
        /\ fxQuotes' = fxQuotes \/ SetStatus(q, "EXECUTED")
    BY <1>0, <1>4, FaultCount DEF ExecuteSpotInDB
  <2>2. /\ fxQuotes' \in [Quotes -> Optional(QuoteDocs)]
        /\ \A r \in Quotes : r # q => fxQuotes'[r] = fxQuotes[r]
        /\ RevivesNone(c)
    <3>1. CASE fxQuotes' = fxQuotes
      BY <1>0, <3>1 DEF TypeOK, RevivesNone
    <3>2. CASE SetStatus(q, "EXECUTED")
      BY <1>0, <3>2, SetStatusEffect DEF RevivesNone, NoneIsNoDocument
    <3> QED BY <2>1, <3>1, <3>2
  <2>3. StoresTyped /\ OwnQuoteOnly(c)
    BY <1>0, <2>1, <2>2 DEF StoresTyped, OwnQuoteOnly, TypeOK, convVars, rateVars
  <2>4. "record" \in Steps \ {"idle", "insertQuote"}
    BY DEF Steps
  <2>5. Moves(c, "record", call[c].doc, call[c].conv, call[c].answer)
    BY <1>0, <2>1, <2>4, GotoMoves
  <2>6. Shape(c, call[c])'
    BY <1>0, <2>1, <2>5 DEF Shape, Moves, Becomes
  <2>7. ClaimsFromActive(c)
    <3>1. call[c].req.q = None
      BY <1>0, <2>1 DEF Shape
    <3> QED BY <2>5, <3>1 DEF ClaimsFromActive, Claims, Moves, Becomes
  <2>8. OneCallMoves(c)
    BY <2>1, <2>4, <2>5, QuietMove
  <2>9. StoreTerms(c)
    BY <1>0, <2>1, QuietStores, StatusStores DEF quoteVars
  <2>10. DataMove(c)
    BY <1>a, <2>1, <2>5, <2>9, QuietData, SeenCarries DEF Own
  <2> QED BY <2>2, <2>3, <2>6, <2>7, <2>8, <2>10 DEF SafeMove
<1> QED BY <1>1, <1>2, <1>3, <1>4

(* The rate a pod quotes from yields a well-formed quote.                  *)
LEMMA NewQuoteType ==
    ASSUME FXConstants, TypeOK, NEW p \in Pods, NEW amount \in Nat
    PROVE  QuoteDoc(amount, GetRate(p)) \in QuoteDocs /\ QuoteDoc(amount, GetRate(p)).status = "ACTIVE"
<1>1. PICK mid \in Rates : GetRate(p) = ComputeRateDoc(mid)
  <2>1. pairOverrides[p] \in Optional(LiveRates) /\ book[p] \in LiveRates \cup {Baseline}
    BY DEF TypeOK
  <2>2. pairOverrides[p] # None => pairOverrides[p] \in Rates
    BY <2>1, MidRates DEF Optional
  <2>3. book[p] \in Rates
    BY <2>1, MidRates
  <2> QED BY <2>2, <2>3 DEF GetRate
<1>2. now \in Nat
  BY DEF TypeOK
<1> QED BY <1>1, <1>2, QuoteDocType

Draws(c, q, doc) ==
    call' = [call EXCEPT ![c] = [@ EXCEPT !.pc = "insertQuote", !.q = q, !.doc = doc]]

(* A call that draws an id changes its step, its quote and its document.   *)
LEMMA DrawMoves ==
    ASSUME TypeOK, NEW c \in Calls, NEW q \in Quotes, NEW doc \in QuoteDocs, Draws(c, q, doc)
    PROVE  Becomes(c, "insertQuote", call[c].req, q, doc, call[c].conv, call[c].answer)
<1>1. call[c] \in CallRecords(c) /\ DOMAIN call = Calls
  BY DEF TypeOK
<1>2. "insertQuote" \in Steps
  BY DEF Steps
<1>3. q \in Optional(Quotes) /\ doc \in Optional(QuoteDocs)
  BY DEF Optional
<1>4. [call[c] EXCEPT !.pc = "insertQuote", !.q = q, !.doc = doc] \in CallRecords(c)
  BY <1>1, <1>2, <1>3 DEF CallRecords
<1> QED BY <1>1, <1>4 DEF Draws, Becomes, CallRecords

(* CreateQuote draws a fresh id.                                           *)
LEMMA CreateQuoteEffect ==
    ASSUME FXConstants, NoneIsNoDocument, QuoteInv, NEW c \in Calls, CreateQuote(c)
    PROVE  \E q \in Fresh, doc \in QuoteDocs :
             /\ doc.status = "ACTIVE" /\ doc # None /\ q \in Quotes
             /\ Becomes(c, "insertQuote", call[c].req, q, doc, call[c].conv, call[c].answer)
             /\ PutsCopy(P(c), q, doc) /\ P(c) \in Pods
             /\ call[c].pc = "create" /\ call[c].req.q = None /\ call[c].req # None
             /\ call[c].q = None
             /\ UNCHANGED <<now, fxQuotes, convVars, rateVars, faults>>
<1>1. call[c].pc = "create" /\ Fresh # {}
  BY DEF CreateQuote
<1>2. /\ TypeOK /\ Shape(c, call[c]) /\ call[c].req \in Requests[c] /\ call[c].req # None
  BY <1>1, InFlight
<1>3. call[c].req.q = None /\ call[c].q = None
  BY <1>1, <1>2 DEF Shape
<1>4. P(c) \in Pods /\ call[c].req.amount \in Nat
  BY <1>2, RequestFields DEF P
<1> DEFINE q == CHOOSE x \in Fresh : TRUE
           doc == QuoteDoc(call[c].req.amount, GetRate(P(c)))
<1>5. q \in Fresh /\ q \in Quotes
  BY <1>1 DEF Fresh
<1>6. doc \in QuoteDocs /\ doc.status = "ACTIVE"
  BY <1>2, <1>4, NewQuoteType
<1>7. doc # None
  BY <1>6 DEF NoneIsNoDocument
<1>8. /\ PutsCopy(P(c), q, doc) /\ Draws(c, q, doc)
      /\ UNCHANGED <<now, fxQuotes, convVars, rateVars, faults>>
  <2>1. SaveQuote(c, q, doc) /\ UNCHANGED <<now, fxQuotes, convVars, rateVars, faults>>
    BY DEF CreateQuote
  <2> HIDE DEF q, doc
  <2> QED BY <2>1 DEF SaveQuote, PutsCopy, Draws
<1> HIDE DEF q, doc
<1>9. Becomes(c, "insertQuote", call[c].req, q, doc, call[c].conv, call[c].answer)
  BY <1>2, <1>5, <1>6, <1>8, DrawMoves
<1> QED BY <1>1, <1>2, <1>3, <1>4, <1>5, <1>6, <1>7, <1>8, <1>9

(* Drawing a quote id keeps QuoteInv.                                      *)
LEMMA CreateKeepsQuoteInv ==
    ASSUME FXConstants, NoneIsNoDocument, QuoteInv, NEW c \in Calls, CreateQuote(c)
    PROVE  QuoteInv'
<1>0. TypeOK /\ CallShape /\ Issued /\ OneCreator /\ DrawnFirst /\ ClaimsHold
  BY DEF QuoteInv
<1>1. PICK q \in Fresh, doc \in QuoteDocs :
             /\ doc.status = "ACTIVE" /\ doc # None /\ q \in Quotes
             /\ Becomes(c, "insertQuote", call[c].req, q, doc, call[c].conv, call[c].answer)
             /\ PutsCopy(P(c), q, doc) /\ P(c) \in Pods
             /\ call[c].pc = "create" /\ call[c].req.q = None /\ call[c].req # None
             /\ call[c].q = None
             /\ UNCHANGED <<now, fxQuotes, convVars, rateVars, faults>>
  BY CreateQuoteEffect
<1>2. \A d \in Calls : call[d].q # q
  BY DEF Fresh
<1>3. fxQuotes[q] = None /\ q # None
  BY <1>0, <1>1, <1>2, NoneIsNoName DEF DrawnFirst
<1>4. /\ quotesMem' \in [Pods -> [Quotes -> Optional(QuoteDocs)]]
      /\ \A r \in Quotes, s \in Pods : r # q => quotesMem'[s][r] = quotesMem[s][r]
  <2>1. doc \in Optional(QuoteDocs)
    BY DEF Optional
  <2> QED BY <1>0, <1>1, <2>1, PutCopyEffect
<1>5. /\ \A d \in Calls : d # c => call'[d] = call[d]
      /\ DOMAIN call' = Calls /\ call'[c] \in CallRecords(c)
      /\ call'[c].pc = "insertQuote" /\ call'[c].req = call[c].req /\ call'[c].q = q
      /\ call'[c].doc = doc /\ call'[c].conv = call[c].conv /\ call'[c].answer = call[c].answer
  BY <1>1 DEF Becomes
<1>6. TypeOK'
  <2>1. \A d \in Calls : call'[d] \in CallRecords(d)
    BY <1>0, <1>5 DEF TypeOK
  <2> QED BY <1>0, <1>1, <1>4, <1>5, <2>1 DEF TypeOK, convVars, rateVars
<1>7. CallShape'
  <2>1. Shape(c, call[c])
    BY <1>0 DEF CallShape
  <2>2. Shape(c, call[c])'
    BY <1>1, <1>3, <1>5, <2>1 DEF Shape
  <2> QED BY <1>0, <1>5, <2>2 DEF CallShape
<1>8. Issued'
  <2> SUFFICES ASSUME NEW d \in Calls, Locked(d)'
               PROVE  \E e \in Calls : Issues(e)' /\ call'[e].q = call'[d].q
    BY DEF Issued
  <2>1. d # c /\ Locked(d) /\ call'[d] = call[d]
    BY <1>1, <1>5 DEF Locked
  <2>2. PICK e \in Calls : Issues(e) /\ call[e].q = call[d].q
    BY <1>0, <2>1 DEF Issued
  <2>3. ~Issues(c)
    BY <1>0, <1>1 DEF Issues, CallShape, Shape
  <2>4. call'[e] = call[e]
    BY <1>5, <2>2, <2>3
  <2> QED BY <2>1, <2>2, <2>4 DEF Issues
<1>9. OneCreator'
  BY <1>0, <1>2, <1>5 DEF OneCreator
<1>10. DrawnFirst'
  <2>1. \A r \in Quotes : fxQuotes'[r] # None => \E d \in Calls : call'[d].q = r
    <3> SUFFICES ASSUME NEW r \in Quotes, fxQuotes'[r] # None
                 PROVE  \E d \in Calls : call'[d].q = r
      OBVIOUS
    <3>1. fxQuotes[r] # None
      BY <1>1
    <3>2. PICK d \in Calls : call[d].q = r
      BY <1>0, <3>1 DEF DrawnFirst
    <3>3. d # c
      BY <1>1, <3>2, NoneIsNoName
    <3> QED BY <1>5, <3>2, <3>3
  <2>2. \A r \in Quotes, s \in Pods : quotesMem'[s][r] # None => \E d \in Calls : call'[d].q = r
    <3> SUFFICES ASSUME NEW r \in Quotes, NEW s \in Pods, quotesMem'[s][r] # None
                 PROVE  \E d \in Calls : call'[d].q = r
      OBVIOUS
    <3>1. CASE r = q
      BY <1>5, <3>1
    <3>2. CASE r # q
      <4>1. quotesMem[s][r] # None
        BY <1>4, <3>2
      <4>2. PICK d \in Calls : call[d].q = r
        BY <1>0, <4>1 DEF DrawnFirst
      <4>3. d # c
        BY <1>1, <4>2, NoneIsNoName
      <4> QED BY <1>5, <4>2, <4>3
    <3> QED BY <3>1, <3>2
  <2>3. \A d \in Calls : call'[d].pc = "insertQuote" => fxQuotes'[call'[d].q] = None
    BY <1>0, <1>1, <1>3, <1>5 DEF DrawnFirst
  <2> QED BY <2>1, <2>2, <2>3 DEF DrawnFirst
<1>11. ClaimsHold'
  <2>1. Claims' = Claims /\ c \notin Claims /\ Claims \subseteq Calls
    <3>1. c \notin Claims /\ c \notin Claims'
      BY <1>1, <1>5 DEF Claims
    <3>2. \A d \in Calls : d # c => (d \in Claims' <=> d \in Claims)
      BY <1>5 DEF Claims
    <3>3. Claims \subseteq Calls /\ Claims' \subseteq Calls
      BY DEF Claims
    <3> QED BY <3>1, <3>2, <3>3
  <2>2. \A d \in Claims : call'[d] = call[d]
    BY <1>5, <2>1
  <2> QED BY <1>0, <1>1, <2>1, <2>2 DEF ClaimsHold
<1> QED BY <1>6, <1>7, <1>8, <1>9, <1>10, <1>11 DEF QuoteInv

-----------------------------------------------------------------------------
(* An RPC arrives: the call names nothing, or a quote a client was given.  *)
Starts(c, r, l) == call' = [call EXCEPT ![c].req = r, ![c].q = r.q, ![c].pc = l]
LEMMA BeginMoves ==
    ASSUME FXConstants, TypeOK, NEW c \in Calls, NEW r \in Requests[c], NEW l \in Steps,
           Starts(c, r, l)
    PROVE  Becomes(c, l, r, r.q, call[c].doc, call[c].conv, call[c].answer)
<1>1. call[c] \in CallRecords(c) /\ DOMAIN call = Calls
  BY DEF TypeOK
<1>2. r \in Optional(Requests[c]) /\ r.q \in Optional(Quotes)
  BY RequestFields DEF Optional
<1>3. [call[c] EXCEPT !.req = r, !.q = r.q, !.pc = l] \in CallRecords(c)
  BY <1>1, <1>2 DEF CallRecords
<1> QED BY <1>1, <1>3 DEF Starts, Becomes, CallRecords

(* A quote id that clients know was issued by the call that drew it.       *)
LEMMA KnownIsIssued ==
    ASSUME FXConstants, NoneIsNoDocument, QuoteInv, ConversionsGenuine, NEW q \in Known
    PROVE  q # None /\ \E e \in Calls : Issues(e) /\ call[e].q = q
<1>0. TypeOK /\ CallShape /\ Issued /\ \A e \in Calls : Shape(e, call[e])
  BY DEF QuoteInv, CallShape
<1>1. CASE \E e \in Quoted : q = call[e].q
  <2>1. PICK e \in Quoted : q = call[e].q
    BY <1>1
  <2>2. /\ e \in Calls /\ call[e].req # None /\ call[e].req.op = "CREATE" /\ call[e].pc = "done"
        /\ call[e].answer # None
    BY <2>1 DEF Quoted, Creating, Answered
  <2>3. call[e].q # None /\ call[e].req.q = None
    BY <1>0, <2>2, CallFields, RequestFields DEF Shape, Optional
  <2> QED BY <2>1, <2>2, <2>3 DEF Issues
<1>2. CASE \E c \in Told : q = call[c].answer.q
  <2>1. PICK c \in Told : q = call[c].answer.q
    BY <1>2
  <2> DEFINE v == call[c].answer  e == v.by
  <2>2. c \in Calls /\ Converting(c) /\ Answered(c)
    BY <2>1 DEF Told
  <2>3. v \in Conversions /\ e \in Calls /\ v # None
    BY <1>0, <2>2 DEF Shape, Optional, Converting, Answered, Conversions
  <2>4. call[e].conv = v
    BY <2>2, <2>3 DEF ConversionsGenuine, Genuine, Op, Converting
  <2> HIDE DEF v, e
  <2>5. Shape(e, call[e]) /\ call[e].conv # None
    BY <1>0, <2>3, <2>4
  <2>6. call[e].q = q /\ q # None /\ call[e].req # None
    BY <2>1, <2>4, <2>5 DEF Shape, v
  <2>7. CASE call[e].req.q = None
    BY <2>3, <2>5, <2>6, <2>7 DEF Issues
  <2>8. CASE call[e].req.q # None
    BY <1>0, <2>3, <2>6, <2>8 DEF Issued, Locked
  <2> QED BY <2>6, <2>7, <2>8
<1> QED BY <1>1, <1>2 DEF Known

(* The arrival of an RPC keeps QuoteInv.                                   *)
LEMMA BeginKeepsQuoteInv ==
    ASSUME FXConstants, NoneIsNoDocument, QuoteInv, ConversionsGenuine, NEW c \in Calls, NEW r \in Requests[c],
           HandleFXQuotes(c, r) \/ HandleFXConvert(c, r)
    PROVE  QuoteInv'
<1>0. TypeOK /\ CallShape /\ Issued /\ OneCreator /\ DrawnFirst /\ ClaimsHold /\ Shape(c, call[c])
  BY DEF QuoteInv, CallShape
<1>1. PICK l \in {"create", "load", "find"} :
        /\ Begin(c, r, l)
        /\ l = "create" => r.op = "CREATE"
        /\ l = "load" => r.op = "GET" /\ r.q \in Known
        /\ l = "find" => r.op = "CONVERT" /\ r.q \in Known \cup {None}
  BY DEF HandleFXQuotes, HandleFXConvert
<1>2. /\ call[c].pc = "idle" /\ call[c].req = None /\ call[c].q = None /\ call[c].doc = None
      /\ call[c].conv = None /\ call[c].answer = None
  BY <1>0, <1>1 DEF Begin, Shape
<1>3. UNCHANGED <<now, quoteVars, convVars, rateVars, faults>> /\ Starts(c, r, l)
  BY <1>1 DEF Begin, Starts
<1>4. l \in Steps
  BY DEF Steps
<1>5. Becomes(c, l, r, r.q, None, None, None)
  BY <1>0, <1>2, <1>3, <1>4, BeginMoves
<1>6. /\ \A d \in Calls : d # c => call'[d] = call[d]
      /\ DOMAIN call' = Calls /\ call'[c] \in CallRecords(c)
      /\ call'[c].pc = l /\ call'[c].req = r /\ call'[c].q = r.q
      /\ call'[c].doc = None /\ call'[c].conv = None /\ call'[c].answer = None
  BY <1>5 DEF Becomes
<1>7. r # None /\ r.q \in Optional(Quotes) /\ (r.op = "CREATE" => r.q = None)
  BY RequestFields DEF Optional
<1>8. r.q # None => \E e \in Calls : Issues(e) /\ call[e].q = r.q
  BY <1>1, <1>7, KnownIsIssued
<1>9. r.op = "GET" => r.q # None
  BY <1>1, KnownIsIssued
<1>10. TypeOK'
  <2>1. \A d \in Calls : call'[d] \in CallRecords(d)
    BY <1>0, <1>6 DEF TypeOK
  <2> QED BY <1>0, <1>3, <1>6, <2>1 DEF TypeOK, quoteVars, convVars, rateVars
<1>11. CallShape'
  <2>1. Shape(c, call[c])'
    BY <1>1, <1>6, <1>7, <1>9 DEF Shape, Optional
  <2> QED BY <1>0, <1>6, <2>1 DEF CallShape
<1>12. Issued'
  <2>1. \A e \in Calls : Issues(e) => call'[e] = call[e]
    BY <1>2, <1>6 DEF Issues
  <2> SUFFICES ASSUME NEW d \in Calls, Locked(d)'
               PROVE  \E e \in Calls : Issues(e)' /\ call'[e].q = call'[d].q
    BY DEF Issued
  <2>2. PICK e \in Calls : Issues(e) /\ call[e].q = call'[d].q
    <3>1. CASE d = c
      BY <1>6, <1>8, <3>1 DEF Locked
    <3>2. CASE d # c
      BY <1>0, <1>6, <3>2 DEF Issued, Locked
    <3> QED BY <3>1, <3>2
  <2> QED BY <2>1, <2>2 DEF Issues
<1>13. OneCreator'
  BY <1>0, <1>6 DEF OneCreator
<1>14. DrawnFirst'
  <2>1. \A q \in Quotes : (\E d \in Calls : call[d].q = q) => \E d \in Calls : call'[d].q = q
    BY <1>2, <1>6, NoneIsNoName
  <2>2. \A q \in Quotes : fxQuotes'[q] # None => \E d \in Calls : call'[d].q = q
    BY <1>0, <1>3, <2>1 DEF DrawnFirst, quoteVars
  <2>3. \A q \in Quotes, p \in Pods : quotesMem'[p][q] # None => \E d \in Calls : call'[d].q = q
    BY <1>0, <1>3, <2>1 DEF DrawnFirst, quoteVars
  <2>4. \A d \in Calls : call'[d].pc = "insertQuote" => fxQuotes'[call'[d].q] = None
    BY <1>0, <1>3, <1>6 DEF DrawnFirst, quoteVars
  <2> QED BY <2>2, <2>3, <2>4 DEF DrawnFirst
<1>15. ClaimsHold'
  <2>1. Claims' = Claims /\ c \notin Claims /\ Claims \subseteq Calls
    <3>1. c \notin Claims /\ c \notin Claims'
      BY <1>2, <1>6 DEF Claims
    <3>2. \A d \in Calls : d # c => (d \in Claims' <=> d \in Claims)
      BY <1>6 DEF Claims
    <3>3. Claims \subseteq Calls /\ Claims' \subseteq Calls
      BY DEF Claims
    <3> QED BY <3>1, <3>2, <3>3
  <2>2. \A d \in Claims : call'[d] = call[d]
    BY <1>6, <2>1
  <2>3. fxQuotes' = fxQuotes
    BY <1>3 DEF quoteVars
  <2> QED BY <1>0, <2>1, <2>2, <2>3 DEF ClaimsHold
<1> QED BY <1>10, <1>11, <1>12, <1>13, <1>14, <1>15 DEF QuoteInv

(* A restart empties one pod's memory and ends its calls.                  *)
LEMMA RestartKeepsQuoteInv ==
    ASSUME FXConstants, NoneIsNoDocument, QuoteInv, NEW p \in Pods, Restart(p)
    PROVE  QuoteInv'
<1>0. TypeOK /\ CallShape /\ Issued /\ OneCreator /\ DrawnFirst /\ ClaimsHold
  BY DEF QuoteInv
<1> DEFINE Hit(d) == call[d].pc \notin {"idle", "done"} /\ P(d) = p
<1>1. /\ UNCHANGED <<now, fxQuotes, fxConversions, syncs>>
      /\ faults' \in 0..MaxFaults
      /\ quotesMem' \in [Pods -> [Quotes -> Optional(QuoteDocs)]]
      /\ conversionsMem' \in [Pods -> [Keys -> Optional(Conversions)]]
  <2>1. UNCHANGED <<now, fxQuotes, fxConversions, syncs>> /\ Fail
    BY DEF Restart
  <2>2. faults' \in 0..MaxFaults
    BY <1>0, <2>1, FaultCount
  <2>3. quotesMem' \in [Pods -> [Quotes -> Optional(QuoteDocs)]]
    BY <1>0 DEF Restart, TypeOK, Optional
  <2>4. conversionsMem' \in [Pods -> [Keys -> Optional(Conversions)]]
    BY <1>0 DEF Restart, TypeOK, Optional
  <2> QED BY <2>1, <2>2, <2>3, <2>4
<1>2. /\ book' \in [Pods -> LiveRates \cup {Baseline}]
      /\ pairOverrides' \in [Pods -> Optional(LiveRates)]
      /\ lastGood' \in [Pods -> Optional(LiveRates)]
  BY <1>0 DEF Restart, TypeOK, Optional
<1>3. \A q \in Quotes, s \in Pods : quotesMem'[s][q] # None => quotesMem[s][q] # None
  <2>1. quotesMem' = [quotesMem EXCEPT ![p] = [q \in Quotes |-> None]]
    BY DEF Restart
  <2> QED BY <1>0, <2>1 DEF TypeOK
<1>4. /\ DOMAIN call' = Calls
      /\ \A d \in Calls : ~Hit(d) => call'[d] = call[d]
      /\ \A d \in Calls : Hit(d) =>
           call'[d] = [call[d] EXCEPT !.pc = "done", !.answer = None, !.doc = None]
  BY DEF Restart
<1>5. \A d \in Calls :
        /\ call'[d] \in CallRecords(d)
        /\ call'[d].req = call[d].req /\ call'[d].q = call[d].q /\ call'[d].conv = call[d].conv
        /\ call'[d] = call[d] \/ (/\ call[d].pc \notin {"idle", "done"} /\ call'[d].pc = "done"
                                  /\ call'[d].answer = None /\ call'[d].doc = None)
  <2> TAKE d \in Calls
  <2>1. call[d] \in CallRecords(d)
    BY <1>0 DEF TypeOK
  <2>2. CASE ~Hit(d)
    <3>1. call'[d] = call[d]
      BY <1>4, <2>2
    <3> QED BY <2>1, <3>1
  <2>3. CASE Hit(d)
    <3> DEFINE r == [call[d] EXCEPT !.pc = "done", !.answer = None, !.doc = None]
    <3>1. call'[d] = r /\ call[d].pc \notin {"idle", "done"}
      BY <1>4, <2>3
    <3>2. "done" \in Steps
      BY DEF Steps
    <3>3. /\ r \in CallRecords(d) /\ r.req = call[d].req /\ r.q = call[d].q
          /\ r.conv = call[d].conv /\ r.pc = "done" /\ r.answer = None /\ r.doc = None
      BY <2>1, <3>2 DEF CallRecords, Optional
    <3> HIDE DEF r
    <3> QED BY <3>1, <3>3
  <2> QED BY <2>2, <2>3
<1> HIDE DEF Hit
<1>6. TypeOK'
  BY <1>0, <1>1, <1>2, <1>4, <1>5 DEF TypeOK
<1>7. CallShape'
  <2> SUFFICES ASSUME NEW d \in Calls PROVE Shape(d, call[d])'
    BY DEF CallShape
  <2>1. Shape(d, call[d])
    BY <1>0 DEF CallShape
  <2>2. CASE call'[d] = call[d]
    BY <2>1, <2>2
  <2>3. CASE /\ call[d].pc \notin {"idle", "done"} /\ call'[d].pc = "done"
             /\ call'[d].answer = None /\ call'[d].doc = None
    BY <1>5, <2>1, <2>3 DEF Shape, Optional
  <2> QED BY <1>5, <2>2, <2>3
<1>8. Issued'
  <2> SUFFICES ASSUME NEW d \in Calls, Locked(d)'
               PROVE  \E e \in Calls : Issues(e)' /\ call'[e].q = call'[d].q
    BY DEF Issued
  <2>1. Locked(d)
    BY <1>5 DEF Locked
  <2>2. PICK e \in Calls : Issues(e) /\ call[e].q = call[d].q
    BY <1>0, <2>1 DEF Issued
  <2>3. Issues(e)' /\ call'[e].q = call[e].q /\ call'[d].q = call[d].q
    BY <1>5, <2>2 DEF Issues
  <2> QED BY <2>2, <2>3
<1>9. OneCreator'
  BY <1>0, <1>5 DEF OneCreator
<1>10. DrawnFirst'
  <2>1. \A q \in Quotes : fxQuotes'[q] # None => \E d \in Calls : call'[d].q = q
    BY <1>0, <1>1, <1>5 DEF DrawnFirst
  <2>2. \A q \in Quotes, s \in Pods : quotesMem'[s][q] # None => \E d \in Calls : call'[d].q = q
    BY <1>0, <1>3, <1>5 DEF DrawnFirst
  <2>3. \A d \in Calls : call'[d].pc = "insertQuote" => fxQuotes'[call'[d].q] = None
    <3> TAKE d \in Calls
    <3> HAVE call'[d].pc = "insertQuote"
    <3>1. call'[d] = call[d]
      BY <1>5
    <3> QED BY <1>0, <1>1, <3>1 DEF DrawnFirst
  <2> QED BY <2>1, <2>2, <2>3 DEF DrawnFirst
<1>11. ClaimsHold'
  <2>1. Claims' \subseteq Claims /\ Claims \subseteq Calls
    <3>1. \A d \in Calls : d \in Claims' => d \in Claims
      <4> TAKE d \in Calls
      <4>1. CASE call'[d] = call[d]
        BY <4>1 DEF Claims
      <4>2. CASE call'[d].pc = "done"
        BY <1>5, <4>2 DEF Claims
      <4> QED BY <1>5, <4>1, <4>2
    <3> QED BY <3>1 DEF Claims
  <2>2. \A d \in Claims : call'[d].q = call[d].q
    BY <1>5, <2>1
  <2> QED BY <1>0, <1>1, <2>1, <2>2 DEF ClaimsHold
<1> QED BY <1>6, <1>7, <1>8, <1>9, <1>10, <1>11 DEF QuoteInv

(* The clock and the rate books are no concern of QuoteInv.                *)
LEMMA RatesKeepQuoteInv ==
    ASSUME FXConstants, QuoteInv,
           Tick \/ \E p \in Pods : StartBackgroundSync(p) \/ HandleFXRatesRefresh(p)
    PROVE  QuoteInv'
<1>0. TypeOK /\ CallShape /\ Issued /\ OneCreator /\ DrawnFirst /\ ClaimsHold
  BY DEF QuoteInv
<1>1. /\ UNCHANGED <<quoteVars, convVars, call, faults>>
      /\ now' \in 0..MaxTime /\ syncs' \in 0..MaxSyncs
      /\ book' \in [Pods -> LiveRates \cup {Baseline}]
      /\ pairOverrides' \in [Pods -> Optional(LiveRates)]
      /\ lastGood' \in [Pods -> Optional(LiveRates)]
  <2>1. CASE Tick
    <3>1. now \in 0..MaxTime /\ now < MaxTime /\ now' = now + 1 /\ MaxTime \in Nat
      BY <1>0, <2>1, Bounds DEF Tick, TypeOK
    <3>2. now' \in 0..MaxTime
      BY <3>1
    <3> QED BY <1>0, <2>1, <3>2 DEF Tick, TypeOK, rateVars
  <2>2. ASSUME NEW p \in Pods, StartBackgroundSync(p) \/ HandleFXRatesRefresh(p)
        PROVE  /\ UNCHANGED <<now, quoteVars, convVars, call, faults>>
               /\ syncs' \in 0..MaxSyncs
               /\ book' \in [Pods -> LiveRates \cup {Baseline}]
               /\ pairOverrides' \in [Pods -> Optional(LiveRates)]
               /\ lastGood' \in [Pods -> Optional(LiveRates)]
    <3>1. /\ UNCHANGED <<now, quoteVars, convVars, call, faults>> /\ syncs' \in 0..MaxSyncs
          /\ SyncUpstreamRates(p) \/ SetPairRate(p)
      BY <1>0, <2>2, Bounds DEF StartBackgroundSync, HandleFXRatesRefresh, TypeOK
    <3>2. CASE SyncUpstreamRates(p)
      <4>1. PICK s \in FetchRates(p) :
              /\ book' = [book EXCEPT ![p] = s.rate]
              /\ lastGood' = [lastGood EXCEPT ![p] = IF s.live THEN s.rate ELSE @]
        BY <3>2 DEF SyncUpstreamRates
      <4>2. s.rate \in LiveRates \cup {Baseline} /\ (s.live => s.rate \in LiveRates)
        BY <1>0 DEF FetchRates, TypeOK, Optional
      <4> QED BY <1>0, <3>1, <3>2, <4>1, <4>2 DEF SyncUpstreamRates, TypeOK, Optional
    <3>3. CASE SetPairRate(p)
      <4>1. PICK m \in LiveRates : /\ pairOverrides' = [pairOverrides EXCEPT ![p] = m]
                                   /\ book' \in {book, [book EXCEPT ![p] = m]}
        BY <3>3 DEF SetPairRate
      <4> QED BY <1>0, <3>1, <3>3, <4>1 DEF SetPairRate, TypeOK, Optional
    <3> QED BY <3>1, <3>2, <3>3
  <2> QED BY <1>0, <2>1, <2>2 DEF TypeOK
<1>2. fxQuotes' = fxQuotes /\ quotesMem' = quotesMem /\ call' = call
  BY <1>1 DEF quoteVars
<1>3. TypeOK'
  BY <1>0, <1>1, <1>2 DEF TypeOK, convVars
<1>4. CallShape' /\ Issued' /\ OneCreator'
  BY <1>0, <1>2 DEF CallShape, Issued, Issues, OneCreator, Locked
<1>5. DrawnFirst'
  BY <1>0, <1>2 DEF DrawnFirst
<1>6. ClaimsHold'
  <2>1. Claims' = Claims
    BY <1>2 DEF Claims
  <2> QED BY <1>0, <1>2, <2>1 DEF ClaimsHold
<1> QED BY <1>3, <1>4, <1>5, <1>6 DEF QuoteInv

(* No quote has been drawn at the start.                                   *)
LEMMA InitQuoteInv ==
    ASSUME FXConstants, Init
    PROVE  QuoteInv
<1>1. \A c \in Calls : /\ call[c] = Idle /\ call[c].pc = "idle" /\ call[c].req = None
                       /\ call[c].q = None /\ call[c].doc = None /\ call[c].conv = None
                       /\ call[c].answer = None
  BY DEF Init, Idle
<1>2. \A c \in Calls : call[c] \in CallRecords(c)
  <2>1. \A c \in Calls : Idle \in CallRecords(c)
    BY DEF Idle, CallRecords, Optional, Steps
  <2> QED BY <1>1, <2>1
<1>3. TypeOK
  <2>1. DOMAIN call = Calls
    BY DEF Init
  <2> QED BY <1>2, <2>1, Bounds DEF Init, TypeOK, Optional
<1>4. CallShape
  BY <1>1 DEF CallShape, Shape
<1>5. Issued /\ OneCreator
  BY <1>1 DEF Issued, OneCreator, Locked
<1>6. DrawnFirst
  BY <1>1 DEF DrawnFirst, Init
<1>7. ClaimsHold
  BY <1>1 DEF ClaimsHold, Claims
<1> QED BY <1>3, <1>4, <1>5, <1>6, <1>7 DEF QuoteInv

(* Every step of the FX engine keeps QuoteInv.                             *)
LEMMA NextKeepsQuoteInv ==
    ASSUME FXConstants, NoneIsNoDocument, QuoteInv, ConversionsGenuine, [Next]_vars
    PROVE  QuoteInv'
<1>1. CASE Tick
  BY <1>1, RatesKeepQuoteInv
<1>2. ASSUME NEW c \in Calls, CallStep(c) PROVE QuoteInv'
  <2>1. CASE CreateQuote(c)
    BY <2>1, CreateKeepsQuoteInv
  <2>2. CASE ~CreateQuote(c)
    BY <1>2, <2>2, QuoteStepsAreSafe, RecordStepsAreSafe, ExecuteStepsAreSafe,
       MoveKeepsQuoteInv DEF CallStep
  <2> QED BY <2>1, <2>2
<1>3. ASSUME NEW c \in Calls, NEW r \in Requests[c], HandleFXQuotes(c, r) \/ HandleFXConvert(c, r)
      PROVE  QuoteInv'
  BY <1>3, BeginKeepsQuoteInv
<1>4. ASSUME NEW p \in Pods, StartBackgroundSync(p) \/ HandleFXRatesRefresh(p) \/ Restart(p)
      PROVE  QuoteInv'
  BY <1>4, RatesKeepQuoteInv, RestartKeepsQuoteInv
<1>5. CASE UNCHANGED vars
  <2>1. /\ UNCHANGED <<now, book, pairOverrides, lastGood, fxConversions, conversionsMem, syncs, faults>>
        /\ fxQuotes' = fxQuotes /\ quotesMem' = quotesMem /\ call' = call
    BY <1>5 DEF vars
  <2>2. Claims' = Claims
    BY <2>1 DEF Claims
  <2>3. TypeOK'
    BY <2>1 DEF QuoteInv, TypeOK
  <2>4. CallShape' /\ Issued' /\ OneCreator'
    BY <2>1 DEF QuoteInv, CallShape, Issued, Issues, OneCreator, Locked
  <2>5. DrawnFirst' /\ ClaimsHold'
    BY <2>1, <2>2 DEF QuoteInv, DrawnFirst, ClaimsHold
  <2> QED BY <2>3, <2>4, <2>5 DEF QuoteInv
<1> QED BY <1>1, <1>2, <1>3, <1>4, <1>5 DEF Next

-----------------------------------------------------------------------------
(* A genuine conversion stays so while calls keep their requests and the   *)
(* conversions they have made.                                             *)
CallsKeep ==
    \A d \in Calls : call[d].conv # None =>
        call'[d].conv = call[d].conv /\ call'[d].req = call[d].req
LEMMA GenuineStays ==
    ASSUME CallsKeep, NEW v \in Optional(Conversions), NEW k, Genuine(v, k), v # None
    PROVE  call'[v.by].conv = v /\ call'[v.by].req.key = k
<1>1. v.by \in Calls /\ call[v.by].conv = v /\ call[v.by].req.key = k
  BY DEF Optional, Conversions, Genuine
<1> QED BY <1>1 DEF CallsKeep

(* The terms of quotes and the conversions are kept by a step of a call    *)
(* after CreateQuote.                                                      *)
LEMMA MoveKeepsData ==
    ASSUME FXConstants, NoneIsNoDocument, FXInv, NEW c \in Calls, SafeMove(c), DataMove(c)
    PROVE  OneSetOfTerms' /\ ConversionsGenuine'
<1>0. /\ QuoteInv /\ TypeOK /\ CallShape /\ OneSetOfTerms /\ ConversionsGenuine
      /\ Shape(c, call[c]) /\ call[c].req # None
  <2>1. QuoteInv /\ OneSetOfTerms /\ ConversionsGenuine /\ call[c].pc # "idle"
    BY DEF FXInv, SafeMove, OneCallMoves
  <2> QED BY <2>1, InFlight
<1>1. /\ \A d \in Calls : d # c => call'[d] = call[d]
      /\ call'[c].req = call[c].req /\ call'[c].q = call[c].q
      /\ OwnQuoteOnly(c) /\ StoreTerms(c) /\ CallTerms(c) /\ ConvsFlow(c)
  BY DEF SafeMove, OneCallMoves, DataMove
<1>2. OneSetOfTerms'
  <2> SUFFICES ASSUME NEW q \in Quotes, NEW t \in Nat \X Nat \X Nat, Terms(q, t)
               PROVE  Terms(q, t)'
    BY <1>0 DEF OneSetOfTerms
  <2>1. HasTerms(fxQuotes'[q], t) /\ \A p \in Pods : HasTerms(quotesMem'[p][q], t)
    <3>1. CASE q = call[c].q
      BY <1>1, <3>1 DEF StoreTerms
    <3>2. CASE q # call[c].q
      BY <1>1, <3>2 DEF OwnQuoteOnly, Terms
    <3> QED BY <3>1, <3>2
  <2>2. ASSUME NEW d \in Calls, call'[d].q = q
        PROVE  /\ HasTerms(call'[d].doc, t) /\ HasAmounts(call'[d].conv, t)
               /\ Op(d, "CREATE")' => HasTerms(call'[d].answer, t)
    <3>1. CASE d = c
      <4>1. Op(c, "CREATE")' => Op(c, "CREATE")
        BY <1>1 DEF Op
      <4>2. Terms(call[c].q, t)
        BY <1>1, <2>2, <3>1
      <4> QED BY <1>1, <3>1, <4>1, <4>2 DEF CallTerms
    <3>2. CASE d # c
      <4>1. call'[d] = call[d]
        BY <1>1, <3>2
      <4>2. Op(d, "CREATE")' => Op(d, "CREATE")
        BY <4>1 DEF Op
      <4> QED BY <2>2, <4>1, <4>2 DEF Terms
    <3> QED BY <3>1, <3>2
  <2> QED BY <2>1, <2>2 DEF Terms
<1>3. CallsKeep
  BY <1>1 DEF CallsKeep, ConvsFlow
<1>4. Op(c, "CONVERT") => \A v \in Own(c) : v \in Optional(Conversions) /\ Genuine(v, call[c].req.key)
  <2> SUFFICES ASSUME Op(c, "CONVERT")
               PROVE  \A v \in Own(c) : v \in Optional(Conversions) /\ Genuine(v, call[c].req.key)
    OBVIOUS
  <2>1. call[c].req \in Requests[c] /\ call[c].req.key \in Keys /\ P(c) \in Pods
    BY <1>0, CallFields, RequestFields DEF Op, Optional, P
  <2>2. call[c].answer \in Optional(Conversions) /\ Genuine(call[c].answer, call[c].req.key)
    BY <1>0 DEF ConversionsGenuine, Shape, Op
  <2>3. call[c].conv \in Optional(Conversions) /\ Genuine(call[c].conv, call[c].req.key)
    BY <1>0, CallFields DEF Genuine, Shape
  <2>4. /\ fxConversions[call[c].req.key] \in Optional(Conversions)
        /\ Genuine(fxConversions[call[c].req.key], call[c].req.key)
    BY <1>0, <2>1 DEF ConversionsGenuine, TypeOK
  <2>5. /\ conversionsMem[P(c)][call[c].req.key] \in Optional(Conversions)
        /\ Genuine(conversionsMem[P(c)][call[c].req.key], call[c].req.key)
    BY <1>0, <2>1 DEF ConversionsGenuine, TypeOK
  <2>6. None \in Optional(Conversions) /\ Genuine(None, call[c].req.key)
    BY DEF Optional, Genuine
  <2> QED BY <2>2, <2>3, <2>4, <2>5, <2>6 DEF Own
<1>5. Op(c, "CONVERT") => \A v \in Own(c) : v # None =>
        call'[v.by].conv = v /\ call'[v.by].req.key = call[c].req.key
  BY <1>3, <1>4, GenuineStays
<1>6. call'[c].conv # None => call'[c].conv.by = c
  BY DEF SafeMove, Shape
<1>7. ConversionsGenuine'
  <2>1. ASSUME NEW k \in Keys PROVE Genuine(fxConversions[k], k)'
    <3>1. CASE fxConversions'[k] = fxConversions[k]
      <4>1. fxConversions[k] \in Optional(Conversions) /\ Genuine(fxConversions[k], k)
        BY <1>0 DEF TypeOK, ConversionsGenuine
      <4> QED BY <1>3, <3>1, <4>1, GenuineStays DEF Genuine
    <3>2. CASE Op(c, "CONVERT") /\ k = call[c].req.key /\ fxConversions'[k] \in Own(c)
      BY <1>5, <3>2 DEF Genuine
    <3> QED BY <1>1, <3>1, <3>2 DEF ConvsFlow
  <2>2. ASSUME NEW k \in Keys, NEW p \in Pods PROVE Genuine(conversionsMem[p][k], k)'
    <3>1. CASE conversionsMem'[p][k] = conversionsMem[p][k]
      <4>1. conversionsMem[p][k] \in Optional(Conversions) /\ Genuine(conversionsMem[p][k], k)
        BY <1>0 DEF TypeOK, ConversionsGenuine
      <4> QED BY <1>3, <3>1, <4>1, GenuineStays DEF Genuine
    <3>2. CASE Op(c, "CONVERT") /\ k = call[c].req.key /\ conversionsMem'[p][k] \in Own(c)
      BY <1>5, <3>2 DEF Genuine
    <3>3. CASE Op(c, "CONVERT") /\ k = call[c].req.key /\ conversionsMem'[p][k] = call'[c].conv
      BY <1>1, <1>6, <3>3 DEF Genuine
    <3> QED BY <1>1, <3>1, <3>2, <3>3 DEF ConvsFlow
  <2>3. ASSUME NEW d \in Calls, Op(d, "CONVERT")' PROVE Genuine(call[d].answer, call[d].req.key)'
    <3>1. CASE d = c
      <4>1. Op(c, "CONVERT")
        BY <1>1, <2>3, <3>1 DEF Op
      <4> QED BY <1>1, <1>5, <3>1, <4>1 DEF Genuine, ConvsFlow
    <3>2. CASE d # c
      <4>1. call'[d] = call[d] /\ Op(d, "CONVERT")
        BY <1>1, <2>3, <3>2 DEF Op
      <4>2. call[d].answer \in Optional(Conversions) /\ Genuine(call[d].answer, call[d].req.key)
        BY <1>0, <4>1 DEF ConversionsGenuine, CallShape, Shape, Op
      <4>3. call[d].answer # None => /\ call'[call[d].answer.by].conv = call[d].answer
                                     /\ call'[call[d].answer.by].req.key = call[d].req.key
        BY <1>3, <4>2, GenuineStays
      <4> QED BY <4>1, <4>3 DEF Genuine
    <3> QED BY <3>1, <3>2
  <2> QED BY <2>1, <2>2, <2>3 DEF ConversionsGenuine
<1> QED BY <1>2, <1>7

(* Steps that bring no document and no conversion: what a call or a store  *)
(* holds afterwards it held before, or is nothing.                         *)
StoresShrink ==
    /\ fxQuotes' = fxQuotes /\ fxConversions' = fxConversions
    /\ \A q \in Quotes, p \in Pods : quotesMem'[p][q] \in {None, quotesMem[p][q]}
    /\ \A k \in Keys, p \in Pods : conversionsMem'[p][k] \in {None, conversionsMem[p][k]}
CallsShrink ==
    \A d \in Calls :
        \/ call'[d].doc = None /\ call'[d].answer = None /\ call'[d].conv = None /\ call[d].conv = None
        \/ /\ call'[d].req = call[d].req /\ call'[d].q = call[d].q /\ call'[d].conv = call[d].conv
           /\ call'[d].doc \in {None, call[d].doc} /\ call'[d].answer \in {None, call[d].answer}
LEMMA ShrinkKeepsData ==
    ASSUME FXInv, StoresShrink, CallsShrink
    PROVE  OneSetOfTerms' /\ ConversionsGenuine'
<1>0. TypeOK /\ CallShape /\ OneSetOfTerms /\ ConversionsGenuine
  BY DEF FXInv, QuoteInv
<1>1. OneSetOfTerms'
  <2> SUFFICES ASSUME NEW q \in Quotes, NEW t \in Nat \X Nat \X Nat, Terms(q, t)
               PROVE  Terms(q, t)'
    BY <1>0 DEF OneSetOfTerms
  <2>1. HasTerms(fxQuotes'[q], t) /\ \A p \in Pods : HasTerms(quotesMem'[p][q], t)
    BY DEF StoresShrink, Terms, HasTerms
  <2>2. ASSUME NEW d \in Calls, call'[d].q = q
        PROVE  /\ HasTerms(call'[d].doc, t) /\ HasAmounts(call'[d].conv, t)
               /\ Op(d, "CREATE")' => HasTerms(call'[d].answer, t)
    <3>1. CASE call'[d].doc = None /\ call'[d].answer = None /\ call'[d].conv = None
      BY <3>1 DEF HasTerms, HasAmounts
    <3>2. CASE /\ call'[d].req = call[d].req /\ call'[d].q = call[d].q /\ call'[d].conv = call[d].conv
               /\ call'[d].doc \in {None, call[d].doc} /\ call'[d].answer \in {None, call[d].answer}
      <4>1. Op(d, "CREATE")' => Op(d, "CREATE")
        BY <3>2 DEF Op
      <4> QED BY <2>2, <3>2, <4>1 DEF Terms, HasTerms, HasAmounts
    <3> QED BY <3>1, <3>2 DEF CallsShrink
  <2> QED BY <2>1, <2>2 DEF Terms
<1>2. CallsKeep
  BY DEF CallsShrink, CallsKeep
<1>3. ConversionsGenuine'
  <2>1. ASSUME NEW k \in Keys PROVE Genuine(fxConversions[k], k)'
    <3>1. fxConversions[k] \in Optional(Conversions) /\ Genuine(fxConversions[k], k)
      BY <1>0 DEF TypeOK, ConversionsGenuine
    <3>2. fxConversions'[k] = fxConversions[k]
      BY DEF StoresShrink
    <3> QED BY <1>2, <3>1, <3>2, GenuineStays DEF Genuine
  <2>2. ASSUME NEW k \in Keys, NEW p \in Pods PROVE Genuine(conversionsMem[p][k], k)'
    <3>1. conversionsMem[p][k] \in Optional(Conversions) /\ Genuine(conversionsMem[p][k], k)
      BY <1>0 DEF TypeOK, ConversionsGenuine
    <3>2. conversionsMem'[p][k] \in {None, conversionsMem[p][k]}
      BY DEF StoresShrink
    <3> QED BY <1>2, <3>1, <3>2, GenuineStays DEF Genuine
  <2>3. ASSUME NEW d \in Calls, Op(d, "CONVERT")' PROVE Genuine(call[d].answer, call[d].req.key)'
    <3>1. CASE call'[d].answer = None
      BY <3>1 DEF Genuine
    <3>2. CASE call'[d].req = call[d].req /\ call'[d].answer = call[d].answer
      <4>1. Op(d, "CONVERT")
        BY <2>3, <3>2 DEF Op
      <4>2. call[d].answer \in Optional(Conversions) /\ Genuine(call[d].answer, call[d].req.key)
        BY <1>0, <4>1 DEF ConversionsGenuine, CallShape, Shape, Op
      <4> QED BY <1>2, <3>2, <4>2, GenuineStays DEF Genuine
    <3> QED BY <3>1, <3>2 DEF CallsShrink
  <2> QED BY <2>1, <2>2, <2>3 DEF ConversionsGenuine
<1> QED BY <1>1, <1>3

(* Arrivals, restarts, the clock and the rate books are such steps.        *)
LEMMA OthersShrink ==
    ASSUME FXConstants, QuoteInv,
           \/ \E c \in Calls : \E r \in Requests[c] : HandleFXQuotes(c, r) \/ HandleFXConvert(c, r)
           \/ \E p \in Pods : StartBackgroundSync(p) \/ HandleFXRatesRefresh(p) \/ Restart(p)
           \/ Tick \/ UNCHANGED vars
    PROVE  StoresShrink /\ CallsShrink
<1>0. TypeOK /\ CallShape
  BY DEF QuoteInv
<1>1. ASSUME UNCHANGED <<fxQuotes, quotesMem, fxConversions, conversionsMem, call>>
      PROVE  StoresShrink /\ CallsShrink
  BY <1>1 DEF StoresShrink, CallsShrink
<1>2. ASSUME NEW c \in Calls, NEW r \in Requests[c], HandleFXQuotes(c, r) \/ HandleFXConvert(c, r)
      PROVE  StoresShrink /\ CallsShrink
  <2>1. PICK l \in {"create", "load", "find"} : Begin(c, r, l)
    BY <1>2 DEF HandleFXQuotes, HandleFXConvert
  <2>2. l \in Steps /\ Starts(c, r, l) /\ UNCHANGED <<quoteVars, convVars>> /\ call[c].pc = "idle"
    BY <2>1 DEF Begin, Starts, Steps
  <2>3. call[c].doc = None /\ call[c].conv = None /\ call[c].answer = None
    BY <1>0, <2>2 DEF CallShape, Shape
  <2>4. Becomes(c, l, r, r.q, None, None, None)
    BY <1>0, <2>2, <2>3, BeginMoves
  <2> QED BY <2>2, <2>3, <2>4 DEF Becomes, StoresShrink, CallsShrink, quoteVars, convVars
<1>3. ASSUME NEW p \in Pods, Restart(p) PROVE StoresShrink /\ CallsShrink
  <2>1. StoresShrink
    <3>1. /\ fxQuotes' = fxQuotes /\ fxConversions' = fxConversions
          /\ quotesMem' = [quotesMem EXCEPT ![p] = [q \in Quotes |-> None]]
          /\ conversionsMem' = [conversionsMem EXCEPT ![p] = [k \in Keys |-> None]]
      BY <1>3 DEF Restart
    <3> QED BY <1>0, <3>1 DEF TypeOK, StoresShrink
  <2>2. CallsShrink
    <3> SUFFICES ASSUME NEW d \in Calls
                 PROVE  /\ call'[d].req = call[d].req /\ call'[d].q = call[d].q
                        /\ call'[d].conv = call[d].conv /\ call'[d].doc \in {None, call[d].doc}
                        /\ call'[d].answer \in {None, call[d].answer}
      BY DEF CallsShrink
    <3> DEFINE r == [call[d] EXCEPT !.pc = "done", !.answer = None, !.doc = None]
    <3>1. call[d] \in CallRecords(d)
      BY <1>0 DEF TypeOK
    <3>2. /\ r.req = call[d].req /\ r.q = call[d].q /\ r.conv = call[d].conv
          /\ r.answer = None /\ r.doc = None
      BY <3>1 DEF CallRecords
    <3>3. call'[d] \in {call[d], r}
      BY <1>3 DEF Restart
    <3> HIDE DEF r
    <3> QED BY <3>2, <3>3
  <2> QED BY <2>1, <2>2
<1>4. ASSUME NEW p \in Pods, StartBackgroundSync(p) \/ HandleFXRatesRefresh(p)
      PROVE  StoresShrink /\ CallsShrink
  <2>1. UNCHANGED <<quoteVars, convVars, call>>
    BY <1>4 DEF StartBackgroundSync, HandleFXRatesRefresh
  <2> QED BY <1>1, <2>1 DEF quoteVars, convVars
<1>5. CASE Tick
  <2>1. UNCHANGED <<quoteVars, convVars, call>>
    BY <1>5 DEF Tick
  <2> QED BY <1>1, <2>1 DEF quoteVars, convVars
<1>6. CASE UNCHANGED vars
  BY <1>1, <1>6 DEF vars
<1> QED BY <1>2, <1>3, <1>4, <1>5, <1>6

(* A new quote gets its terms when its id is drawn.                        *)
LEMMA CreateKeepsData ==
    ASSUME FXConstants, NoneIsNoDocument, FXInv, NEW c \in Calls, CreateQuote(c)
    PROVE  OneSetOfTerms' /\ ConversionsGenuine'
<1>0. /\ QuoteInv /\ TypeOK /\ CallShape /\ DrawnFirst /\ OneSetOfTerms /\ ConversionsGenuine
      /\ Shape(c, call[c])
  BY DEF FXInv, QuoteInv, CallShape
<1>1. PICK q \in Fresh, doc \in QuoteDocs :
             /\ doc.status = "ACTIVE" /\ doc # None /\ q \in Quotes
             /\ Becomes(c, "insertQuote", call[c].req, q, doc, call[c].conv, call[c].answer)
             /\ PutsCopy(P(c), q, doc) /\ P(c) \in Pods
             /\ call[c].pc = "create" /\ call[c].req.q = None /\ call[c].req # None
             /\ call[c].q = None
             /\ UNCHANGED <<now, fxQuotes, convVars, rateVars, faults>>
  BY <1>0, CreateQuoteEffect
<1>2. \A d \in Calls : call[d].q # q
  BY DEF Fresh
<1>3. fxQuotes'[q] = None /\ \A p \in Pods : quotesMem[p][q] = None
  BY <1>0, <1>1, <1>2 DEF DrawnFirst
<1>4. /\ quotesMem'[P(c)][q] = doc
      /\ \A r \in Quotes, s \in Pods : r # q \/ s # P(c) => quotesMem'[s][r] = quotesMem[s][r]
  <2>1. doc \in Optional(QuoteDocs)
    BY DEF Optional
  <2> QED BY <1>0, <1>1, <2>1, PutCopyEffect
<1>5. /\ \A d \in Calls : d # c => call'[d] = call[d]
      /\ call'[c].req = call[c].req /\ call'[c].q = q /\ call'[c].doc = doc
      /\ call'[c].conv = call[c].conv /\ call'[c].answer = call[c].answer
  BY <1>1 DEF Becomes
<1>6. call[c].conv = None /\ (Op(c, "CREATE") => call[c].answer = None)
  BY <1>0, <1>1 DEF Shape, Op
<1>7. OneSetOfTerms'
  <2> SUFFICES ASSUME NEW r \in Quotes PROVE \E t \in Nat \X Nat \X Nat : Terms(r, t)'
    BY DEF OneSetOfTerms
  <2>1. CASE r = q
    <3> DEFINE t == <<doc.src, doc.dst, doc.exp>>
    <3>1. t \in Nat \X Nat \X Nat /\ HasTerms(doc, t)
      BY DEF QuoteDocs, HasTerms
    <3> HIDE DEF t
    <3>2. HasTerms(None, t) /\ HasAmounts(None, t)
      BY DEF HasTerms, HasAmounts
    <3>3. HasTerms(fxQuotes'[q], t) /\ \A p \in Pods : HasTerms(quotesMem'[p][q], t)
      <4>1. HasTerms(fxQuotes'[q], t)
        BY <1>3, <3>2 DEF HasTerms
      <4>2. \A p \in Pods : quotesMem'[p][q] \in {doc, None}
        BY <1>1, <1>3, <1>4
      <4> QED BY <3>1, <4>1, <4>2 DEF HasTerms
    <3>4. \A d \in Calls : call'[d].q = q => d = c
      BY <1>2, <1>5
    <3>5. Op(c, "CREATE")' => Op(c, "CREATE")
      BY <1>5 DEF Op
    <3>6. Terms(q, t)'
      BY <1>5, <1>6, <3>1, <3>2, <3>3, <3>4, <3>5 DEF Terms
    <3> QED BY <2>1, <3>1, <3>6
  <2>2. CASE r # q
    <3>1. PICK t \in Nat \X Nat \X Nat : Terms(r, t)
      BY <1>0 DEF OneSetOfTerms
    <3>2. HasTerms(fxQuotes'[r], t) /\ \A p \in Pods : HasTerms(quotesMem'[p][r], t)
      BY <1>1, <1>4, <2>2, <3>1 DEF Terms
    <3>3. ASSUME NEW d \in Calls, call'[d].q = r
          PROVE  /\ HasTerms(call'[d].doc, t) /\ HasAmounts(call'[d].conv, t)
                 /\ Op(d, "CREATE")' => HasTerms(call'[d].answer, t)
      <4>1. d # c /\ call'[d] = call[d]
        BY <1>5, <2>2, <3>3
      <4>2. Op(d, "CREATE")' => Op(d, "CREATE")
        BY <4>1 DEF Op
      <4> QED BY <3>1, <3>3, <4>1, <4>2 DEF Terms
    <3> QED BY <3>2, <3>3 DEF Terms
  <2> QED BY <2>1, <2>2
<1>8. CallsKeep
  BY <1>5 DEF CallsKeep
<1>9. fxConversions' = fxConversions /\ conversionsMem' = conversionsMem
  BY <1>1 DEF convVars
<1>10. ConversionsGenuine'
  <2>1. ASSUME NEW k \in Keys PROVE Genuine(fxConversions[k], k)'
    <3>1. fxConversions[k] \in Optional(Conversions) /\ Genuine(fxConversions[k], k)
      BY <1>0 DEF TypeOK, ConversionsGenuine
    <3> QED BY <1>8, <1>9, <3>1, GenuineStays DEF Genuine
  <2>2. ASSUME NEW k \in Keys, NEW p \in Pods PROVE Genuine(conversionsMem[p][k], k)'
    <3>1. conversionsMem[p][k] \in Optional(Conversions) /\ Genuine(conversionsMem[p][k], k)
      BY <1>0 DEF TypeOK, ConversionsGenuine
    <3> QED BY <1>8, <1>9, <3>1, GenuineStays DEF Genuine
  <2>3. ASSUME NEW d \in Calls, Op(d, "CONVERT")' PROVE Genuine(call[d].answer, call[d].req.key)'
    <3>1. call'[d].req = call[d].req /\ call'[d].answer = call[d].answer
      BY <1>5
    <3>2. Op(d, "CONVERT")
      BY <2>3, <3>1 DEF Op
    <3>3. call[d].answer \in Optional(Conversions) /\ Genuine(call[d].answer, call[d].req.key)
      BY <1>0, <3>2 DEF ConversionsGenuine, CallShape, Shape, Op
    <3>4. CASE call[d].answer = None
      BY <3>1, <3>4 DEF Genuine
    <3>5. CASE call[d].answer # None
      <4>1. /\ call'[call[d].answer.by].conv = call[d].answer
            /\ call'[call[d].answer.by].req.key = call[d].req.key
        BY <1>8, <3>3, <3>5, GenuineStays
      <4> QED BY <3>1, <4>1 DEF Genuine
    <3> QED BY <3>4, <3>5
  <2> QED BY <2>1, <2>2, <2>3 DEF ConversionsGenuine
<1> QED BY <1>7, <1>10

(* The full inductive invariant holds in every state of the FX engine.     *)
THEOREM FXInvariant == Spec => []FXInv
<1>1. Init => FXInv
  <2> SUFFICES ASSUME Init PROVE FXInv
    OBVIOUS
  <2>1. QuoteInv
    BY InitQuoteInv, FXAssumption
  <2>2. \A c \in Calls : /\ call[c].q = None /\ call[c].doc = None /\ call[c].conv = None
                         /\ call[c].answer = None /\ call[c].req = None
    BY DEF Init, Idle
  <2>3. OneSetOfTerms
    <3>1. \A q \in Quotes : Terms(q, <<0, 0, 0>>)
      BY <2>2 DEF Init, Terms, HasTerms, HasAmounts
    <3>2. <<0, 0, 0>> \in Nat \X Nat \X Nat
      OBVIOUS
    <3> QED BY <3>1, <3>2 DEF OneSetOfTerms
  <2>4. ConversionsGenuine
    BY <2>2 DEF Init, ConversionsGenuine, Genuine
  <2> QED BY <2>1, <2>3, <2>4 DEF FXInv
<1>2. FXInv /\ [Next]_vars => FXInv'
  <2> SUFFICES ASSUME FXInv, [Next]_vars PROVE FXInv'
    OBVIOUS
  <2>1. QuoteInv /\ ConversionsGenuine
    BY DEF FXInv
  <2>2. QuoteInv'
    BY <2>1, NextKeepsQuoteInv, FXAssumption, NoneAssumption
  <2>3. ASSUME NEW c \in Calls, CallStep(c) PROVE OneSetOfTerms' /\ ConversionsGenuine'
    <3>1. CASE CreateQuote(c)
      BY <3>1, CreateKeepsData, FXAssumption, NoneAssumption
    <3>2. CASE ~CreateQuote(c)
      <4>1. SafeMove(c) /\ DataMove(c)
        BY <2>1, <2>3, <3>2, QuoteStepsAreSafe, RecordStepsAreSafe, ExecuteStepsAreSafe,
           FXAssumption, NoneAssumption DEF CallStep
      <4> QED BY <4>1, MoveKeepsData, FXAssumption, NoneAssumption
    <3> QED BY <3>1, <3>2
  <2>4. CASE ~\E c \in Calls : CallStep(c)
    <3>1. StoresShrink /\ CallsShrink
      BY <2>1, <2>4, OthersShrink, FXAssumption DEF Next
    <3> QED BY <2>2, <3>1, ShrinkKeepsData DEF FXInv
  <2> QED BY <2>2, <2>3, <2>4 DEF FXInv
<1> QED BY <1>1, <1>2, PTL DEF Spec

(* Documents, copies and calls keep the shape the code gives them.         *)
THEOREM TypeCorrect == Spec => []TypeOK
<1>1. FXInv => TypeOK
  BY DEF FXInv, QuoteInv
<1> QED BY <1>1, FXInvariant, PTL

(* Of two calls that have converted one quote, at most one named it, and   *)
(* at most one drew it.                                                    *)
LEMMA ConvertersDiffer ==
    ASSUME FXConstants, QuoteInv, NEW c \in Calls, NEW d \in Calls, SameQuote(c, d),
           Locked(c) <=> Locked(d)
    PROVE  c = d
<1>0. TypeOK /\ CallShape /\ OneCreator /\ ClaimsHold
  BY DEF QuoteInv
<1>1. \A e \in {c, d} : call[e].pc # "idle" /\ call[e].req # None /\ call[e].q # None
  BY <1>0 DEF CallShape, Shape, SameQuote
<1>2. CASE Locked(c) /\ Locked(d)
  BY <1>0, <1>2 DEF ClaimsHold, Claims, Locked, SameQuote
<1>3. CASE ~Locked(c) /\ ~Locked(d)
  BY <1>0, <1>1, <1>3 DEF OneCreator, Locked, SameQuote
<1> QED BY <1>2, <1>3

(* An answer to a conversion that names a quote, when every call with its  *)
(* key names that quote, is a conversion of the quote by one such call.    *)
LEMMA AnswerIsOwn ==
    ASSUME FXConstants, FXInv, NEW c \in Calls, Converting(c), Answered(c), call[c].req.q # None,
           \A d \in Calls : Converting(d) /\ call[d].req.key = call[c].req.key =>
                              call[d].req.q = call[c].req.q
    PROVE  LET e == call[c].answer.by IN
           /\ e \in Calls /\ call[e].conv = call[c].answer /\ call[e].conv # None
           /\ call[e].q = call[c].q /\ call[e].q \in Quotes /\ Locked(e)
<1> DEFINE e == call[c].answer.by
<1>0. TypeOK /\ CallShape /\ ConversionsGenuine /\ Shape(c, call[c])
  BY DEF FXInv, QuoteInv, CallShape
<1>1. call[c].answer \in Conversions
  BY <1>0 DEF Shape, Optional, Converting, Answered
<1>2. e \in Calls /\ call[e].conv = call[c].answer /\ call[e].req.key = call[c].req.key
  <2>1. Genuine(call[c].answer, call[c].req.key)
    BY <1>0 DEF ConversionsGenuine, Op, Converting
  <2>2. e \in Calls
    BY <1>1 DEF Conversions
  <2> QED BY <2>1, <2>2 DEF Genuine, Answered
<1> HIDE DEF e
<1>3. call[e].conv # None
  BY <1>2 DEF Answered
<1>4. Shape(e, call[e])
  BY <1>0, <1>2 DEF CallShape
<1>5. Converting(e)
  BY <1>3, <1>4 DEF Shape, Converting
<1>6. call[e].req.q = call[c].req.q
  BY <1>2, <1>5
<1>7. Locked(c) /\ Locked(e)
  BY <1>5, <1>6 DEF Locked, Converting
<1>8. call[e].q = call[c].q /\ call[e].q \in Quotes
  BY <1>0, <1>2, <1>6, <1>7, LockedShape
<1> QED BY <1>2, <1>3, <1>7, <1>8 DEF e

(* The locked-quote path of ConvertCurrency is idempotent and keeps the    *)
(* promise of CreateQuote: clients that send one key with one quote, at    *)
(* once or later, to any pod, are answered with one conversion, and its    *)
(* amounts are those the quote was issued with.                            *)
THEOREM LockedConversionsAgree == Spec => []LockedAnswersAgree
<1>1. FXInv => LockedAnswersAgree
  <2> SUFFICES ASSUME FXInv, NEW c \in Calls, Converting(c), call[c].req.q # None, Answered(c),
                      \A d \in Calls : Converting(d) /\ call[d].req.key = call[c].req.key =>
                                         call[d].req.q = call[c].req.q
               PROVE  /\ \A d \in Calls : (/\ Converting(d) /\ call[d].req.key = call[c].req.key
                                           /\ Answered(d)) => call[d].answer = call[c].answer
                      /\ \A d \in Quoted : call[d].q = call[c].q =>
                           /\ call[c].answer.src = call[d].answer.src
                           /\ call[c].answer.dst = call[d].answer.dst
    BY DEF LockedAnswersAgree
  <2>1. QuoteInv /\ OneSetOfTerms /\ FXConstants
    BY FXAssumption DEF FXInv
  <2>2. PICK e \in Calls : /\ call[e].conv = call[c].answer /\ call[e].conv # None
                           /\ call[e].q = call[c].q /\ call[e].q \in Quotes /\ Locked(e)
    BY <2>1, AnswerIsOwn
  <2>3. ASSUME NEW d \in Calls, Converting(d), call[d].req.key = call[c].req.key, Answered(d)
        PROVE  call[d].answer = call[c].answer
    <3>1. /\ call[d].req.q = call[c].req.q /\ call[d].req.q # None
          /\ \A b \in Calls : Converting(b) /\ call[b].req.key = call[d].req.key =>
                                call[b].req.q = call[d].req.q
      BY <2>3
    <3>2. PICK f \in Calls : /\ call[f].conv = call[d].answer /\ call[f].conv # None
                             /\ call[f].q = call[d].q /\ Locked(f)
      BY <2>1, <2>3, <3>1, AnswerIsOwn
    <3>3. call[d].q = call[c].q
      <4>1. TypeOK /\ CallShape /\ Locked(c) /\ Locked(d)
        BY <2>1, <2>3, <3>1 DEF QuoteInv, Locked, Converting
      <4> QED BY <2>1, <3>1, <4>1, LockedShape
    <3>4. e = f
      BY <2>1, <2>2, <3>2, <3>3, ConvertersDiffer DEF SameQuote
    <3> QED BY <2>2, <3>2, <3>4
  <2>4. ASSUME NEW d \in Quoted, call[d].q = call[c].q
        PROVE  call[c].answer.src = call[d].answer.src /\ call[c].answer.dst = call[d].answer.dst
    <3>1. PICK t \in Nat \X Nat \X Nat : Terms(call[c].q, t)
      BY <2>1, <2>2 DEF OneSetOfTerms
    <3>2. call[c].answer.src = t[1] /\ call[c].answer.dst = t[2]
      BY <2>2, <3>1 DEF Terms, HasAmounts
    <3>3. d \in Calls /\ Op(d, "CREATE") /\ call[d].answer # None
      BY DEF Quoted, Creating, Answered, Op
    <3>4. call[d].answer.src = t[1] /\ call[d].answer.dst = t[2]
      BY <2>4, <3>1, <3>3 DEF Terms, HasTerms
    <3> QED BY <3>2, <3>4
  <2> QED BY <2>3, <2>4
<1> QED BY <1>1, FXInvariant, PTL

-----------------------------------------------------------------------------
(* That no quote is converted twice while there has been no fault.  A spot *)
(* conversion marks its quote in fx_db before it converts, and a client    *)
(* can name the quote only after that.                                     *)
Spot(d) == Op(d, "CONVERT") /\ call[d].req.q = None
Owns(c) == call[c].pc \in {"casMem", "record", "insertConv"} \/ call[c].conv # None
SpotAlone ==
    \A c \in Calls : Spot(c) =>
        /\ Owns(c) => (fxQuotes[call[c].q] # None => fxQuotes[call[c].q].status # "ACTIVE")
        /\ \A d \in Claims : call[d].q # call[c].q

(* A call that names an ACTIVE quote shares it with no spot conversion.    *)
LEMMA NamedIsNotSpot ==
    ASSUME FXConstants, QuoteInv, SpotAlone, NEW c \in Calls, Locked(c),
           fxQuotes[call[c].q] # None, fxQuotes[call[c].q].status = "ACTIVE"
    PROVE  \A d \in Calls : Spot(d) => call[d].q # call[c].q
<1> SUFFICES ASSUME NEW d \in Calls, Spot(d), call[d].q = call[c].q PROVE FALSE
  OBVIOUS
<1>1. TypeOK /\ CallShape /\ Issued /\ OneCreator
  BY DEF QuoteInv
<1>2. Issues(d)
  BY <1>1, NamedIsIssued DEF Spot, Op
<1>3. Owns(d)
  BY <1>2 DEF Issues, Spot, Op, Owns
<1> QED BY <1>3 DEF SpotAlone

(* A call that owns a quote has one, and is past inserting it.             *)
LEMMA OwnerShape ==
    ASSUME TypeOK, CallShape, NEW c \in Calls, Owns(c)
    PROVE  call[c].q \in Quotes \cup {None} /\ call[c].pc # "insertQuote"
           /\ (Spot(c) => call[c].q \in Quotes)
<1>1. Shape(c, call[c])
  BY DEF CallShape
<1>2. call[c].pc # "insertQuote"
  BY <1>1 DEF Shape, Owns
<1>3. Spot(c) => call[c].q # None
  BY <1>1 DEF Shape, Owns, Spot, Op
<1> QED BY <1>2, <1>3, CallFields DEF Optional

(* A spot conversion gets to own its quote only with the document marked.  *)
SpotMarks(c) ==
    Spot(c) /\ Owns(c)' =>
        Owns(c) \/ (fxQuotes'[call[c].q] # None => fxQuotes'[call[c].q].status # "ACTIVE")

(* Such a step keeps SpotAlone.                                            *)
LEMMA MoveKeepsSpotAlone ==
    ASSUME FXConstants, QuoteInv, SpotAlone, NEW c \in Calls, SafeMove(c), SpotMarks(c)
    PROVE  SpotAlone'
<1>0. /\ TypeOK /\ CallShape /\ OneCreator
      /\ OneCallMoves(c) /\ OwnQuoteOnly(c) /\ RevivesNone(c) /\ ClaimsFromActive(c)
  BY DEF QuoteInv, SafeMove
<1>1. /\ \A d \in Calls : d # c => call'[d] = call[d]
      /\ call'[c].req = call[c].req /\ call'[c].q = call[c].q
  BY <1>0 DEF OneCallMoves
<1> SUFFICES ASSUME NEW d \in Calls, Spot(d)
             PROVE  /\ Owns(d)' => (fxQuotes'[call[d].q] # None => fxQuotes'[call[d].q].status # "ACTIVE")
                    /\ \A e \in Claims' : call'[e].q # call[d].q
  <2>1. \A d \in Calls : (Spot(d)' <=> Spot(d)) /\ call'[d].q = call[d].q
    BY <1>1 DEF Spot, Op
  <2> QED BY <2>1 DEF SpotAlone
<1>2. ASSUME Owns(d) PROVE fxQuotes'[call[d].q] # None => fxQuotes'[call[d].q].status # "ACTIVE"
  <2>1. call[d].q \in Quotes /\ call[d].q # None /\ call[d].pc # "insertQuote"
    BY <1>0, <1>2, OwnerShape, NoneIsNoName
  <2>2. fxQuotes[call[d].q] # None => fxQuotes[call[d].q].status # "ACTIVE"
    BY <1>2 DEF SpotAlone
  <2>3. CASE call[c].q # call[d].q
    BY <1>0, <2>1, <2>2, <2>3 DEF OwnQuoteOnly
  <2>4. CASE call[c].q = call[d].q
    <3>1. call[c].pc # "insertQuote"
      <4> SUFFICES ASSUME call[c].pc = "insertQuote" PROVE FALSE
        OBVIOUS
      <4>1. call[c].req # None /\ call[c].req.q = None
        BY <1>0, InserterShape
      <4>2. c = d
        BY <1>0, <2>1, <2>4, <4>1 DEF OneCreator, Spot, Op
      <4> QED BY <2>1, <4>2
    <3> QED BY <1>0, <2>1, <2>2, <3>1 DEF RevivesNone
  <2> QED BY <2>3, <2>4
<1>3. Owns(d)' => (fxQuotes'[call[d].q] # None => fxQuotes'[call[d].q].status # "ACTIVE")
  <2>1. CASE d = c
    BY <1>2, <2>1 DEF SpotMarks
  <2>2. CASE d # c
    BY <1>1, <1>2, <2>2 DEF Owns
  <2> QED BY <2>1, <2>2
<1>4. ASSUME NEW e \in Claims' PROVE call'[e].q # call[d].q
  <2>1. e \in Calls /\ call'[e].q = call[e].q
    BY <1>1 DEF Claims
  <2>2. CASE e \in Claims
    BY <2>1, <2>2 DEF SpotAlone
  <2>3. CASE e \notin Claims
    <3>1. e = c
      BY <1>1, <2>1, <2>3 DEF Claims
    <3>2. fxQuotes[call[c].q] # None /\ fxQuotes[call[c].q].status = "ACTIVE"
      BY <1>0, <2>3, <3>1 DEF ClaimsFromActive
    <3>3. Locked(c)
      BY <1>1, <3>1 DEF Claims, Locked
    <3> QED BY <2>1, <3>1, <3>2, <3>3, NamedIsNotSpot
  <2> QED BY <2>2, <2>3
<1> QED BY <1>3, <1>4

(* So does a step by which a call owns no quote yet, and shares none if it *)
(* is a spot conversion: its arrival, and drawing a quote.                 *)
LEMMA StartKeepsSpotAlone ==
    ASSUME FXConstants, QuoteInv, SpotAlone, NEW c \in Calls, fxQuotes' = fxQuotes, ~Owns(c)', ~Owns(c),
           \A d \in Calls : d # c => call'[d] = call[d],
           Spot(c)' => call'[c].q = None \/ \A d \in Calls : call[d].q # call'[c].q
    PROVE  SpotAlone'
<1>0. TypeOK /\ CallShape
  BY DEF QuoteInv
<1>1. \A e \in Claims' : e \in Claims /\ e # c /\ call'[e].q = call[e].q /\ call[e].q # None
  <2> SUFFICES ASSUME NEW e \in Claims' PROVE e \in Claims /\ e # c /\ call'[e] = call[e] /\ call[e].q # None
    OBVIOUS
  <2>1. e \in Calls /\ e # c
    BY DEF Claims, Owns
  <2>2. call'[e] = call[e] /\ e \in Claims
    BY <2>1 DEF Claims
  <2>3. Locked(e)
    BY <2>2 DEF Claims, Locked
  <2> QED BY <1>0, <2>1, <2>2, <2>3, LockedShape, NoneIsNoName
<1>2. ASSUME NEW d \in Calls, Spot(d)', d # c
      PROVE  /\ Owns(d)' => (fxQuotes'[call'[d].q] # None => fxQuotes'[call'[d].q].status # "ACTIVE")
             /\ \A e \in Claims' : call'[e].q # call'[d].q
  <2>1. call'[d] = call[d] /\ Spot(d)
    BY <1>2 DEF Spot, Op
  <2> QED BY <1>1, <2>1 DEF SpotAlone, Owns
<1>3. ASSUME Spot(c)' PROVE \A e \in Claims' : call'[e].q # call'[c].q
  BY <1>1, <1>3 DEF Claims
<1> QED BY <1>2, <1>3 DEF SpotAlone

(* Without a fault the database answers.                                   *)
LEMMA NoFaultIsOk ==
    ASSUME FXConstants, TypeOK, faults' = 0
    PROVE  ~Fail
<1>1. faults \in Nat
  BY Bounds DEF TypeOK
<1> QED BY <1>1 DEF Fail

(* A step of a call counts a fault or leaves the count alone.              *)
LEMMA StepCountsFault ==
    ASSUME ~Fail, NEW c \in Calls, CallStep(c)
    PROVE  faults' = faults
<1>1. CASE CreateQuote(c) \/ InsertQuote(c) \/ LoadQuote(c) \/ CacheQuote(c)
  BY <1>1 DEF CreateQuote, InsertQuote, LoadQuote, CacheQuote, Ok
<1>2. CASE ExpireInMemory(c) \/ ExpireInDB(c) \/ FindExistingConversion(c) \/ CacheConversion(c)
  BY <1>2 DEF ExpireInMemory, ExpireInDB, FindExistingConversion, CacheConversion, Ok
<1>3. CASE ExecuteInDB(c) \/ ExecuteInMemory(c) \/ ExecuteSpotInMemory(c) \/ ExecuteSpotInDB(c)
  BY <1>3 DEF ExecuteInDB, ExecuteInMemory, ExecuteSpotInMemory, ExecuteSpotInDB, Ok
<1>4. CASE RecordConversion(c) \/ InsertConversion(c)
  BY <1>4 DEF RecordConversion, InsertConversion, Ok
<1> QED BY <1>1, <1>2, <1>3, <1>4 DEF CallStep

(* Of the steps of a call, only ExecuteSpotInDB makes a spot conversion    *)
(* own its quote.                                                          *)
LEMMA StepsMarkSpot ==
    ASSUME FXConstants, NoneIsNoDocument, QuoteInv, ~Fail, NEW c \in Calls, CallStep(c),
           ~CreateQuote(c)
    PROVE  SpotMarks(c)
<1>0. TypeOK /\ Shape(c, call[c]) /\ call[c] \in CallRecords(c) /\ DOMAIN call = Calls
  BY DEF QuoteInv, CallShape, TypeOK
<1>1. CASE InsertQuote(c) \/ LoadQuote(c) \/ CacheQuote(c)
  <2>1. \/ \E x : Answer(c, x)
        \/ Goto(c, "spotMem")
        \/ \E x, l : l \in {"cacheQuote", "casDB", "expireMem"} /\ TakesDoc(c, l, x)
    BY <1>1 DEF InsertQuote, LoadQuote, CacheQuote, UseQuote, Refuse, TakesDoc
  <2>2. /\ call'[c].pc \in {"done", "spotMem", "cacheQuote", "casDB", "expireMem"}
        /\ call'[c].conv = call[c].conv
    <3>1. CASE \E x : Answer(c, x)
      BY <1>0, <3>1 DEF Answer, CallRecords
    <3>2. CASE Goto(c, "spotMem")
      BY <1>0, <3>2 DEF Goto, CallRecords
    <3>3. CASE \E x, l : l \in {"cacheQuote", "casDB", "expireMem"} /\ TakesDoc(c, l, x)
      BY <1>0, <3>3 DEF TakesDoc, CallRecords
    <3> QED BY <2>1, <3>1, <3>2, <3>3
  <2> QED BY <2>2 DEF SpotMarks, Owns
<1>2. CASE ExpireInMemory(c) \/ ExpireInDB(c) \/ ExecuteInDB(c) \/ ExecuteInMemory(c)
  <2>1. call[c].pc \in {"expireMem", "expireDB", "casDB", "casMem"}
    BY <1>2 DEF ExpireInMemory, ExpireInDB, ExecuteInDB, ExecuteInMemory
  <2> QED BY <1>0, <2>1 DEF Shape, SpotMarks, Spot, Op
<1>3. CASE FindExistingConversion(c) \/ CacheConversion(c)
  <2>1. \/ \E x : Answer(c, x)
        \/ \E x : TakesAnswer(c, "cacheConv", x)
        \/ \E l \in {"create", "load", "done"} : Goto(c, l)
    BY <1>3 DEF FindExistingConversion, CacheConversion, TakesAnswer
  <2>2. call'[c].pc \in {"done", "cacheConv", "create", "load"} /\ call'[c].conv = call[c].conv
    <3>1. CASE \E x : Answer(c, x)
      BY <1>0, <3>1 DEF Answer, CallRecords
    <3>2. CASE \E x : TakesAnswer(c, "cacheConv", x)
      BY <1>0, <3>2 DEF TakesAnswer, CallRecords
    <3>3. CASE \E l \in {"create", "load", "done"} : Goto(c, l)
      BY <1>0, <3>3 DEF Goto, CallRecords
    <3> QED BY <2>1, <3>1, <3>2, <3>3
  <2> QED BY <2>2 DEF SpotMarks, Owns
<1>4. CASE RecordConversion(c) \/ InsertConversion(c)
  <2>1. call[c].pc \in {"record", "insertConv"}
    BY <1>4 DEF RecordConversion, InsertConversion
  <2> QED BY <2>1 DEF SpotMarks, Owns
<1>5. CASE ExecuteSpotInMemory(c)
  <2>1. Goto(c, "spotDB")
    BY <1>5 DEF ExecuteSpotInMemory
  <2>2. call'[c].pc = "spotDB" /\ call'[c].conv = call[c].conv
    BY <1>0, <2>1 DEF Goto, CallRecords
  <2> QED BY <2>2 DEF SpotMarks, Owns
<1>6. CASE ExecuteSpotInDB(c)
  <2>1. call[c].pc = "spotDB" /\ SetStatus(call[c].q, "EXECUTED")
    BY <1>6 DEF ExecuteSpotInDB
  <2>2. call[c].q \in Quotes
    <3>1. call[c].q # None
      BY <1>0, <2>1 DEF Shape
    <3> QED BY <1>0, <3>1, CallFields DEF Optional
  <2>3. fxQuotes'[call[c].q] # None => fxQuotes'[call[c].q].status = "EXECUTED"
    BY <1>0, <2>1, <2>2, SetStatusEffect
  <2> QED BY <2>3 DEF SpotMarks
<1> QED BY <1>1, <1>2, <1>3, <1>4, <1>5, <1>6 DEF CallStep

(* While there has been no fault, every step keeps SpotAlone.              *)
LEMMA NextKeepsSpotAlone ==
    ASSUME FXConstants, NoneIsNoDocument, FXInv, faults = 0 => SpotAlone, [Next]_vars, faults' = 0
    PROVE  SpotAlone'
<1>0. QuoteInv /\ TypeOK /\ CallShape /\ ~Fail
  <2>1. QuoteInv /\ TypeOK /\ CallShape
    BY DEF FXInv, QuoteInv
  <2> QED BY <2>1, NoFaultIsOk
<1>1. ASSUME NEW c \in Calls, CallStep(c) PROVE SpotAlone'
  <2>1. SpotAlone
    BY <1>0, <1>1, StepCountsFault
  <2>2. CASE CreateQuote(c)
    <3>1. PICK n \in Fresh, doc \in QuoteDocs :
                 /\ n \in Quotes
                 /\ Becomes(c, "insertQuote", call[c].req, n, doc, call[c].conv, call[c].answer)
                 /\ call[c].pc = "create" /\ UNCHANGED fxQuotes
      BY <1>0, <2>2, CreateQuoteEffect
    <3>2. call[c].conv = None
      BY <1>0, <3>1 DEF CallShape, Shape
    <3>3. /\ ~Owns(c)' /\ ~Owns(c) /\ call'[c].q = n
          /\ \A d \in Calls : d # c => call'[d] = call[d]
      BY <3>1, <3>2 DEF Becomes, Owns
    <3>4. \A d \in Calls : call[d].q # n
      BY DEF Fresh
    <3> QED BY <1>0, <2>1, <3>1, <3>3, <3>4, StartKeepsSpotAlone
  <2>3. CASE ~CreateQuote(c)
    <3>1. SpotMarks(c)
      BY <1>0, <1>1, <2>3, StepsMarkSpot
    <3>2. SafeMove(c)
      <4>1. CASE InsertQuote(c) \/ LoadQuote(c) \/ CacheQuote(c) \/ ExpireInMemory(c) \/ ExpireInDB(c)
        BY <1>0, <4>1, QuoteStepsAreSafe
      <4>2. CASE \/ ExecuteInDB(c) \/ ExecuteInMemory(c)
                 \/ ExecuteSpotInMemory(c) \/ ExecuteSpotInDB(c)
        BY <1>0, <4>2, ExecuteStepsAreSafe
      <4>3. CASE \/ FindExistingConversion(c) \/ CacheConversion(c)
                 \/ RecordConversion(c) \/ InsertConversion(c)
        BY <1>0, <4>3, RecordStepsAreSafe
      <4> QED BY <1>1, <2>3, <4>1, <4>2, <4>3 DEF CallStep
    <3> QED BY <1>0, <2>1, <3>1, <3>2, MoveKeepsSpotAlone
  <2> QED BY <2>2, <2>3
<1>2. ASSUME NEW c \in Calls, NEW r \in Requests[c], HandleFXQuotes(c, r) \/ HandleFXConvert(c, r)
      PROVE  SpotAlone'
  <2>1. PICK l \in {"create", "load", "find"} : Begin(c, r, l)
    BY <1>2 DEF HandleFXQuotes, HandleFXConvert
  <2>2. call[c].pc = "idle" /\ fxQuotes' = fxQuotes /\ faults' = faults /\ Starts(c, r, l)
    BY <2>1 DEF Begin, Starts, quoteVars
  <2>3. call[c].conv = None /\ l \in Steps
    BY <1>0, <2>2 DEF CallShape, Shape, Steps
  <2>4. Becomes(c, l, r, r.q, call[c].doc, call[c].conv, call[c].answer)
    BY <1>0, <2>2, <2>3, BeginMoves
  <2>5. /\ ~Owns(c)' /\ ~Owns(c) /\ call'[c].q = r.q /\ call'[c].req = r
        /\ \A d \in Calls : d # c => call'[d] = call[d]
    BY <2>2, <2>3, <2>4 DEF Becomes, Owns
  <2>6. Spot(c)' => call'[c].q = None
    BY <2>5 DEF Spot, Op
  <2>7. SpotAlone
    BY <2>2
  <2> QED BY <1>0, <2>2, <2>5, <2>6, <2>7, StartKeepsSpotAlone
<1>3. CASE \/ Tick \/ UNCHANGED vars
           \/ \E p \in Pods : StartBackgroundSync(p) \/ HandleFXRatesRefresh(p)
  <2>1. fxQuotes' = fxQuotes /\ call' = call /\ faults' = faults
    BY <1>3 DEF Tick, vars, StartBackgroundSync, HandleFXRatesRefresh, quoteVars
  <2> QED BY <2>1 DEF SpotAlone, Spot, Op, Owns, Claims
<1>4. \A p \in Pods : ~Restart(p)
  BY <1>0 DEF Restart
<1> QED BY <1>1, <1>2, <1>3, <1>4 DEF Next

(* Until the first fault a spot conversion is alone with its quote, which  *)
(* is not ACTIVE once it converts.                                         *)
THEOREM SpotInvariant == Spec => [](faults = 0 => SpotAlone)
<1> DEFINE J == faults = 0 => SpotAlone
<1>1. Init => J
  BY DEF Init, Idle, SpotAlone, Spot, Op
<1>2. FXInv /\ J /\ [Next]_vars => J'
  <2> SUFFICES ASSUME FXInv, J, [Next]_vars, faults' = 0 PROVE SpotAlone'
    OBVIOUS
  <2>1. faults = 0 => SpotAlone
    OBVIOUS
  <2> QED BY <2>1, NextKeepsSpotAlone, FXAssumption, NoneAssumption
<1> HIDE DEF J
<1>3. Spec => []J
  BY <1>1, <1>2, FXInvariant, PTL DEF Spec
<1> QED BY <1>3 DEF J

(* A quote is converted at most once, whatever stale copies the pods hold, *)
(* whoever overwrites its status: among conversions that name the quote    *)
(* always, and with the spot conversion that drew it until the first       *)
(* fault, since ConvertCurrency drops the error of marking it in fx_db.    *)
THEOREM QuoteConvertedOnce == Spec => []OneConversionPerQuote
<1> DEFINE J == faults = 0 => SpotAlone
<1>1. FXInv /\ J => OneConversionPerQuote
  <2> SUFFICES ASSUME FXInv, J, NEW c \in Calls, NEW d \in Calls, SameQuote(c, d),
                      faults = 0 \/ (call[c].req.q # None /\ call[d].req.q # None)
               PROVE  c = d
    BY DEF OneConversionPerQuote
  <2>1. QuoteInv /\ CallShape /\ FXConstants
    BY FXAssumption DEF FXInv, QuoteInv
  <2>2. \A e \in {c, d} : call[e].req # None /\ Op(e, "CONVERT")
    BY <2>1 DEF CallShape, Shape, SameQuote, Op
  <2>3. CASE Locked(c) <=> Locked(d)
    BY <2>1, <2>3, ConvertersDiffer
  <2>4. ASSUME NEW a \in Calls, NEW b \in Calls, Op(a, "CONVERT"), Op(b, "CONVERT"), SameQuote(a, b),
               Locked(a), ~Locked(b)
        PROVE  faults # 0
    <3>1. a \in Claims /\ Spot(b)
      BY <2>4 DEF Claims, Locked, Spot, Op, SameQuote
    <3>2. ~SpotAlone
      BY <2>4, <3>1 DEF SpotAlone, SameQuote
    <3> QED BY <3>2
  <2>5. CASE ~(Locked(c) <=> Locked(d))
    <3>1. SameQuote(d, c)
      BY DEF SameQuote
    <3>2. faults # 0
      BY <2>2, <2>4, <2>5, <3>1
    <3>3. Locked(c) /\ Locked(d)
      BY <2>2, <3>2 DEF Locked
    <3> QED BY <2>5, <3>3
  <2> QED BY <2>3, <2>5
<1>2. Spec => []J
  BY SpotInvariant
<1> HIDE DEF J
<1> QED BY <1>1, <1>2, FXInvariant, PTL

-----------------------------------------------------------------------------
(* That a quote is not used up for nothing.  Only the call that passed the *)
(* compare-and-set in fx_db, or the spot conversion that drew the quote,   *)
(* writes EXECUTED, and it does so in fx_db first; EXPIRED is written only *)
(* once the quote has lapsed.  So a document about a quote is sound:       *)
IsExecuted(doc) == doc # None /\ doc.status = "EXECUTED"
Consumed(q) ==
    \/ fxQuotes[q] # None /\ fxQuotes[q].status # "ACTIVE"
    \/ \E d \in Calls : Spot(d) /\ call[d].q = q
Sound(q, doc) ==
    doc # None => /\ doc.status = "EXPIRED" => Lapsed(doc)
                  /\ doc.status = "EXECUTED" => Consumed(q)
DocsSound ==
    \A q \in Quotes :
        /\ Sound(q, fxQuotes[q])
        /\ \A p \in Pods : Sound(q, quotesMem[p][q])
        /\ \A c \in Calls : call[c].q = q => Sound(q, call[c].doc)

(* What a call is about to write.                                          *)
Pending(c) ==
    /\ call[c].pc = "insertQuote" => call[c].doc.status = "ACTIVE"
    /\ call[c].pc \in {"expireMem", "expireDB"} => Lapsed(call[c].doc)

(* The pod of a call that executes a quote has a copy, and between the two *)
(* compare-and-sets nobody but this call can make it EXECUTED.             *)
CopyThere(c) == call[c].pc \in {"casDB", "casMem"} => quotesMem[P(c)][call[c].q] # None
Clear(c) ==
    call[c].pc = "casMem" =>
        /\ ~IsExecuted(quotesMem[P(c)][call[c].q])
        /\ \A d \in Calls : call[d].pc = "cacheQuote" /\ IsExecuted(call[d].doc) =>
             P(d) # P(c) \/ call[d].q # call[c].q

(* A quote that fx_db calls EXECUTED has a call that converts it.          *)
Owned(q) ==
    IsExecuted(fxQuotes[q]) => \/ \E c \in Calls : call[c].q = q /\ Owns(c)
                               \/ Lapsed(fxQuotes[q])
ConsumeInv ==
    /\ DocsSound
    /\ \A c \in Calls : Pending(c) /\ CopyThere(c) /\ Clear(c)
    /\ \A q \in Quotes : Owned(q)

(* What the next state makes of a document, and how a step of a call after *)
(* CreateQuote treats them.                                                *)
SoundAfter(q, doc) ==
    doc # None => /\ doc.status = "EXPIRED" => now' > doc.exp
                  /\ doc.status = "EXECUTED" => Consumed(q)'
DocsAfter(c) ==
    /\ SoundAfter(call[c].q, fxQuotes'[call[c].q])
    /\ \A p \in Pods : SoundAfter(call[c].q, quotesMem'[p][call[c].q])
    /\ SoundAfter(call[c].q, call'[c].doc)
CopiesAfter(c) ==
    \A p \in Pods :
        /\ quotesMem[p][call[c].q] # None => quotesMem'[p][call[c].q] # None
        /\ IsExecuted(quotesMem'[p][call[c].q]) =>
             \/ IsExecuted(quotesMem[p][call[c].q]) \/ c \in Claims \/ Spot(c)
             \/ p = P(c) /\ call[c].pc = "cacheQuote" /\ IsExecuted(call[c].doc)
CallAfter(c) ==
    /\ Pending(c)' /\ CopyThere(c)'
    /\ call'[c].pc = "cacheQuote" => quotesMem[P(c)][call[c].q] = None
    /\ call'[c].pc = "casMem" =>
         /\ UNCHANGED quotesMem /\ Locked(c)
         /\ fxQuotes[call[c].q] # None /\ fxQuotes[call[c].q].status = "ACTIVE"
OwnerAfter(c) ==
    IsExecuted(fxQuotes'[call[c].q]) =>
        \/ Owns(c)'
        \/ /\ IsExecuted(fxQuotes[call[c].q]) /\ fxQuotes'[call[c].q].exp = fxQuotes[call[c].q].exp
           /\ Owns(c) => Lapsed(fxQuotes'[call[c].q])
ConsumeMove(c) == DocsAfter(c) /\ CopiesAfter(c) /\ CallAfter(c) /\ OwnerAfter(c)

(* A quote that is consumed stays so.                                      *)
LEMMA ConsumedStays ==
    ASSUME FXConstants,
           \A q \in Quotes : fxQuotes[q] # None /\ fxQuotes[q].status # "ACTIVE" =>
                               fxQuotes'[q] # None /\ fxQuotes'[q].status # "ACTIVE",
           \A d \in Calls : Spot(d) /\ call[d].q # None =>
                               call'[d].req = call[d].req /\ call'[d].q = call[d].q
    PROVE  \A q \in Quotes : Consumed(q) => Consumed(q)'
<1> SUFFICES ASSUME NEW q \in Quotes, Consumed(q) PROVE Consumed(q)'
  OBVIOUS
<1>1. q # None
  BY NoneIsNoName
<1>2. ASSUME NEW d \in Calls, Spot(d), call[d].q = q PROVE Consumed(q)'
  <2>1. call'[d].req = call[d].req /\ call'[d].q = q
    BY <1>1, <1>2
  <2>2. Spot(d)'
    BY <1>2, <2>1 DEF Spot, Op
  <2> QED BY <2>1, <2>2 DEF Consumed
<1> QED BY <1>2 DEF Consumed

(* A sound document stays sound.                                           *)
LEMMA SoundStays ==
    ASSUME NEW q, NEW doc \in Optional(QuoteDocs), Sound(q, doc), now \in Nat, now' \in Nat, now <= now',
           Consumed(q) => Consumed(q)'
    PROVE  SoundAfter(q, doc)
<1>1. CASE doc = None
  BY <1>1 DEF SoundAfter
<1>2. CASE doc # None
  <2>1. doc.exp \in Nat
    BY <1>2 DEF Optional, QuoteDocs
  <2> QED BY <1>2, <2>1 DEF Sound, SoundAfter, Lapsed
<1> QED BY <1>1, <1>2

(* A safe step of a call unmakes no consumption.                           *)
LEMMA MoveKeepsConsumed ==
    ASSUME FXConstants, QuoteInv, NEW c \in Calls, SafeMove(c)
    PROVE  \A q \in Quotes : Consumed(q) => Consumed(q)'
<1>1. OneCallMoves(c) /\ OwnQuoteOnly(c) /\ RevivesNone(c) /\ DrawnFirst
  BY DEF SafeMove, QuoteInv
<1>2. \A q \in Quotes : fxQuotes[q] # None /\ fxQuotes[q].status # "ACTIVE" =>
                          fxQuotes'[q] # None /\ fxQuotes'[q].status # "ACTIVE"
  BY <1>1 DEF OwnQuoteOnly, RevivesNone, DrawnFirst
<1>3. \A d \in Calls : Spot(d) /\ call[d].q # None =>
                         call'[d].req = call[d].req /\ call'[d].q = call[d].q
  BY <1>1 DEF OneCallMoves
<1> QED BY <1>2, <1>3, ConsumedStays

(* Such a step keeps ConsumeInv.                                           *)
LEMMA MoveKeepsConsumeInv ==
    ASSUME FXConstants, QuoteInv, ConsumeInv, SpotAlone, NEW c \in Calls, SafeMove(c), ConsumeMove(c)
    PROVE  ConsumeInv'
<1>0. /\ TypeOK /\ CallShape /\ ClaimsHold
      /\ OneCallMoves(c) /\ OwnQuoteOnly(c) /\ now' = now /\ now \in Nat
      /\ DocsSound /\ (\A d \in Calls : Pending(d) /\ CopyThere(d) /\ Clear(d)) /\ \A q \in Quotes : Owned(q)
  BY DEF QuoteInv, SafeMove, StoresTyped, ConsumeInv, TypeOK
<1>1. /\ \A d \in Calls : d # c => call'[d] = call[d]
      /\ call'[c].req = call[c].req /\ call'[c].q = call[c].q
  BY <1>0 DEF OneCallMoves
<1>2. \A q \in Quotes : Consumed(q) => Consumed(q)'
  BY MoveKeepsConsumed
<1>3. \A d \in Calls : call[d].doc \in Optional(QuoteDocs) /\ call[d].q \in Optional(Quotes)
  BY <1>0, CallFields
<1>4. DocsSound'
  <2> SUFFICES ASSUME NEW q \in Quotes
               PROVE  /\ SoundAfter(q, fxQuotes'[q]) /\ \A p \in Pods : SoundAfter(q, quotesMem'[p][q])
                      /\ \A d \in Calls : call'[d].q = q => SoundAfter(q, call'[d].doc)
    BY DEF DocsSound, Sound, SoundAfter, Lapsed
  <2>1. ASSUME NEW d \in Calls, call'[d].q = q PROVE SoundAfter(q, call'[d].doc)
    <3>1. CASE d = c
      BY <1>1, <2>1, <3>1 DEF ConsumeMove, DocsAfter
    <3>2. CASE d # c
      <4>1. call'[d] = call[d] /\ Sound(q, call[d].doc)
        BY <1>0, <1>1, <2>1, <3>2 DEF DocsSound
      <4> QED BY <1>0, <1>2, <1>3, <4>1, SoundStays
    <3> QED BY <3>1, <3>2
  <2>2. CASE q = call[c].q
    BY <2>1, <2>2 DEF ConsumeMove, DocsAfter
  <2>3. CASE q # call[c].q
    <3>1. fxQuotes'[q] = fxQuotes[q] /\ \A p \in Pods : quotesMem'[p][q] = quotesMem[p][q]
      BY <1>0, <2>3 DEF OwnQuoteOnly
    <3>2. /\ fxQuotes[q] \in Optional(QuoteDocs) /\ Sound(q, fxQuotes[q])
          /\ \A p \in Pods : quotesMem[p][q] \in Optional(QuoteDocs) /\ Sound(q, quotesMem[p][q])
      BY <1>0 DEF TypeOK, DocsSound
    <3>3. SoundAfter(q, fxQuotes[q]) /\ \A p \in Pods : SoundAfter(q, quotesMem[p][q])
      BY <1>0, <1>2, <3>2, SoundStays
    <3> QED BY <2>1, <3>1, <3>3
  <2> QED BY <2>2, <2>3
<1>5. ASSUME NEW d \in Calls PROVE Pending(d)' /\ CopyThere(d)'
  <2>1. CASE d = c
    BY <2>1 DEF ConsumeMove, CallAfter
  <2>2. CASE d # c
    <3>1. call'[d] = call[d] /\ Pending(d) /\ CopyThere(d)
      BY <1>0, <1>1, <2>2
    <3>2. Pending(d)'
      BY <1>0, <3>1 DEF Pending, Lapsed
    <3>3. ASSUME call[d].pc \in {"casDB", "casMem"} PROVE quotesMem'[P(d)][call[d].q] # None
      <4>1. Locked(d) /\ P(d) \in Pods /\ call[d].q \in Quotes
        <5>1. Locked(d)
          BY <1>0, <3>3 DEF CallShape, Shape, Locked
        <5> QED BY <1>0, <5>1, LockedShape, RequestFields DEF P
      <4>2. quotesMem[P(d)][call[d].q] # None
        BY <3>1, <3>3 DEF CopyThere
      <4> QED BY <1>0, <4>1, <4>2 DEF OwnQuoteOnly, ConsumeMove, CopiesAfter
    <3> QED BY <3>1, <3>2, <3>3 DEF CopyThere, P
  <2> QED BY <2>1, <2>2
<1>6. ASSUME NEW d \in Calls, call'[d].pc = "casMem", d # c PROVE Clear(d)'
  <2>1. call'[d] = call[d] /\ call[d].pc = "casMem" /\ Clear(d) /\ CopyThere(d)
    BY <1>0, <1>1, <1>6
  <2>2. Locked(d) /\ d \in Claims /\ P(d) \in Pods /\ call[d].q \in Quotes
    <3>1. Locked(d)
      BY <1>0, <2>1 DEF CallShape, Shape, Locked
    <3> QED BY <1>0, <2>1, <3>1, LockedShape, RequestFields DEF P, Claims, Locked
  <2>3. ~IsExecuted(quotesMem'[P(d)][call[d].q])
    <3>1. CASE call[d].q # call[c].q
      BY <1>0, <2>1, <2>2, <3>1 DEF OwnQuoteOnly, Clear
    <3>2. CASE call[d].q = call[c].q
      <4>1. c \notin Claims
        BY <1>0, <1>6, <2>2, <3>2 DEF ClaimsHold
      <4>2. ~Spot(c)
        BY <2>2, <3>2 DEF SpotAlone
      <4>3. ~(P(d) = P(c) /\ call[c].pc = "cacheQuote" /\ IsExecuted(call[c].doc))
        BY <2>1, <3>2 DEF Clear
      <4> QED BY <2>1, <2>2, <3>2, <4>1, <4>2, <4>3 DEF ConsumeMove, CopiesAfter, Clear
    <3> QED BY <3>1, <3>2
  <2>4. ASSUME NEW e \in Calls, call'[e].pc = "cacheQuote", IsExecuted(call'[e].doc)
        PROVE  P(e)' # P(d)' \/ call'[e].q # call'[d].q
    <3>1. CASE e # c
      BY <1>1, <2>1, <2>4, <3>1 DEF Clear, P
    <3>2. CASE e = c
      BY <1>1, <2>1, <2>4, <3>2 DEF ConsumeMove, CallAfter, CopyThere, P
    <3> QED BY <3>1, <3>2
  <2> QED BY <2>1, <2>3, <2>4 DEF Clear, P
<1>7. ASSUME call'[c].pc = "casMem" PROVE Clear(c)'
  <2>1. /\ quotesMem' = quotesMem /\ Locked(c)
        /\ fxQuotes[call[c].q] # None /\ fxQuotes[call[c].q].status = "ACTIVE"
    BY <1>7 DEF ConsumeMove, CallAfter
  <2>2. P(c) \in Pods /\ call[c].q \in Quotes
    BY <1>0, <2>1, LockedShape, RequestFields DEF P
  <2>3. ~Consumed(call[c].q)
    <3>1. \A d \in Calls : Spot(d) => call[d].q # call[c].q
      BY <2>1, NamedIsNotSpot
    <3> QED BY <2>1, <3>1 DEF Consumed
  <2>4. ~IsExecuted(quotesMem[P(c)][call[c].q])
    BY <1>0, <2>2, <2>3 DEF DocsSound, Sound, IsExecuted
  <2>5. \A e \in Calls : call[e].q = call[c].q => ~IsExecuted(call[e].doc)
    BY <1>0, <2>2, <2>3 DEF DocsSound, Sound, IsExecuted
  <2>6. ASSUME NEW e \in Calls, call'[e].pc = "cacheQuote", IsExecuted(call'[e].doc)
        PROVE  call'[e].q # call'[c].q
    BY <1>1, <1>7, <2>5, <2>6
  <2> QED BY <1>1, <2>1, <2>4, <2>6 DEF Clear, P
<1>8. ASSUME NEW d \in Calls PROVE Clear(d)'
  BY <1>6, <1>7 DEF Clear
<1>9. ASSUME NEW q \in Quotes PROVE Owned(q)'
  <2> SUFFICES ASSUME IsExecuted(fxQuotes'[q])
               PROVE  \/ \E d \in Calls : call'[d].q = q /\ Owns(d)'
                      \/ now > fxQuotes'[q].exp
    BY <1>0 DEF Owned, Lapsed, IsExecuted
  <2>1. CASE q = call[c].q /\ Owns(c)'
    BY <1>1, <2>1
  <2>2. CASE ~(q = call[c].q /\ Owns(c)')
    <3>1. /\ IsExecuted(fxQuotes[q]) /\ fxQuotes'[q].exp = fxQuotes[q].exp
          /\ q = call[c].q /\ Owns(c) => Lapsed(fxQuotes'[q])
      BY <1>0, <2>2 DEF ConsumeMove, OwnerAfter, OwnQuoteOnly
    <3>2. CASE Lapsed(fxQuotes[q])
      BY <3>1, <3>2 DEF Lapsed
    <3>3. CASE ~Lapsed(fxQuotes[q])
      <4>1. PICK d \in Calls : call[d].q = q /\ Owns(d)
        BY <1>0, <3>1, <3>3 DEF Owned
      <4>2. CASE d = c
        BY <3>1, <4>1, <4>2 DEF Lapsed
      <4>3. CASE d # c
        <5>1. call'[d] = call[d]
          BY <1>1, <4>3
        <5> QED BY <4>1, <5>1 DEF Owns
      <4> QED BY <4>2, <4>3
    <3> QED BY <3>2, <3>3
  <2> QED BY <2>1, <2>2
<1> QED BY <1>4, <1>5, <1>8, <1>9 DEF ConsumeInv

-----------------------------------------------------------------------------
(* The documents about a quote before a step are sound after it.           *)
LEMMA OldDocsSound ==
    ASSUME FXConstants, QuoteInv, ConsumeInv, NEW c \in Calls, SafeMove(c), call[c].q \in Quotes
    PROVE  /\ now' = now /\ now \in Nat /\ SoundAfter(call[c].q, None)
           /\ SoundAfter(call[c].q, call[c].doc) /\ SoundAfter(call[c].q, fxQuotes[call[c].q])
           /\ \A p \in Pods : SoundAfter(call[c].q, quotesMem[p][call[c].q])
<1>1. TypeOK /\ DocsSound /\ StoresTyped
  BY DEF QuoteInv, ConsumeInv, SafeMove
<1>2. now' = now /\ now \in Nat
  BY <1>1 DEF StoresTyped, TypeOK
<1>3. Consumed(call[c].q) => Consumed(call[c].q)'
  <2>1. \A q \in Quotes : Consumed(q) => Consumed(q)'
    BY MoveKeepsConsumed
  <2> DEFINE C(q) == Consumed(q) => Consumed(q)'
  <2>2. \A q \in Quotes : C(q)
    BY <2>1
  <2>3. C(call[c].q)
    <3> HIDE DEF C
    <3> QED BY <2>2
  <2> QED BY <2>3
<1>4. ASSUME NEW doc \in Optional(QuoteDocs), Sound(call[c].q, doc)
      PROVE  SoundAfter(call[c].q, doc)
  <2>1. CASE doc = None
    BY <2>1 DEF SoundAfter
  <2>2. CASE doc # None
    BY <1>2, <1>3, <1>4, <2>2 DEF Sound, SoundAfter, Lapsed
  <2> QED BY <2>1, <2>2
<1>5. SoundAfter(call[c].q, None)
  BY DEF SoundAfter
<1>6. SoundAfter(call[c].q, call[c].doc)
  BY <1>1, <1>4, CallFields DEF DocsSound
<1>7. SoundAfter(call[c].q, fxQuotes[call[c].q])
  BY <1>1, <1>4 DEF DocsSound, TypeOK
<1>8. ASSUME NEW p \in Pods PROVE SoundAfter(call[c].q, quotesMem[p][call[c].q])
  <2>1. quotesMem[p][call[c].q] \in Optional(QuoteDocs) /\ Sound(call[c].q, quotesMem[p][call[c].q])
    BY <1>1 DEF DocsSound, TypeOK
  <2> QED BY <1>4, <2>1
<1> QED BY <1>2, <1>5, <1>6, <1>7, <1>8

(* A step that leaves the quote documents alone and takes up none.         *)
LEMMA IdleDocs ==
    ASSUME FXConstants, QuoteInv, ConsumeInv, NEW c \in Calls, SafeMove(c), UNCHANGED quoteVars,
           call[c].q \in Quotes, SoundAfter(call[c].q, call'[c].doc)
    PROVE  DocsAfter(c) /\ CopiesAfter(c)
<1>1. fxQuotes' = fxQuotes /\ quotesMem' = quotesMem
  BY DEF quoteVars
<1> QED BY <1>1, OldDocsSound DEF DocsAfter, CopiesAfter

(* All documents about a quote expire together.                            *)
LEMMA SameExpiry ==
    ASSUME FXInv, NEW c \in Calls, call[c].q \in Quotes
    PROVE  /\ fxQuotes[call[c].q] # None /\ call[c].doc # None =>
                fxQuotes[call[c].q].exp = call[c].doc.exp
           /\ \A p \in Pods : fxQuotes[call[c].q] # None /\ quotesMem[p][call[c].q] # None =>
                fxQuotes[call[c].q].exp = quotesMem[p][call[c].q].exp
<1>1. PICK t \in Nat \X Nat \X Nat : Terms(call[c].q, t)
  BY DEF FXInv, OneSetOfTerms
<1> QED BY <1>1 DEF Terms, HasTerms

(* What a call does next with a quote it has loaded.                       *)
LEMMA UseQuoteOutcome ==
    ASSUME FXConstants, QuoteInv, NEW c \in Calls, call[c].pc # "idle", NEW doc \in QuoteDocs, UseQuote(c, doc)
    PROVE  \/ call'[c].pc = "expireMem" /\ call'[c].doc = doc /\ Lapsed(doc)
           \/ call'[c].pc = "done" /\ call'[c].doc = None
           \/ call'[c].pc = "casDB" /\ call'[c].doc = doc
<1>0. call[c] \in CallRecords(c) /\ DOMAIN call = Calls
  BY DEF QuoteInv, TypeOK
<1>1. CASE call' = [call EXCEPT ![c].pc = "expireMem", ![c].doc = doc] /\ Lapsed(doc)
  BY <1>0, <1>1 DEF CallRecords
<1>2. CASE \E a : call' = [call EXCEPT ![c].pc = "done", ![c].answer = a, ![c].doc = None]
  BY <1>0, <1>2 DEF CallRecords
<1>3. CASE call' = [call EXCEPT ![c].pc = "casDB", ![c].doc = doc]
  BY <1>0, <1>3 DEF CallRecords
<1> QED BY <1>1, <1>2, <1>3 DEF UseQuote, Answer, Refuse

(* The steps from a drawn quote id to its use.                             *)
LEMMA QuoteStepsConsumeNothing ==
    ASSUME FXConstants, NoneIsNoDocument, FXInv, ConsumeInv, faults' = 0, NEW c \in Calls,
           InsertQuote(c) \/ LoadQuote(c) \/ CacheQuote(c) \/ ExpireInMemory(c) \/ ExpireInDB(c)
    PROVE  ConsumeMove(c)
<1> DEFINE p == P(c)  q == call[c].q
<1>0. /\ QuoteInv /\ TypeOK /\ ~Fail /\ SafeMove(c)
      /\ call[c].pc \in {"insertQuote", "load", "cacheQuote", "expireMem", "expireDB"}
  <2>1. QuoteInv /\ TypeOK
    BY DEF FXInv, QuoteInv
  <2>2. call[c].pc \in {"insertQuote", "load", "cacheQuote", "expireMem", "expireDB"}
    BY DEF InsertQuote, LoadQuote, CacheQuote, ExpireInMemory, ExpireInDB
  <2> QED BY <2>1, <2>2, NoFaultIsOk, QuoteStepsAreSafe
<1>1. /\ Shape(c, call[c]) /\ call[c].req \in Requests[c] /\ p \in Pods /\ q \in Quotes
      /\ call[c].pc # "load" => call[c].doc \in QuoteDocs
      /\ ~Owns(c)
  <2>1. Shape(c, call[c]) /\ call[c].req \in Requests[c] /\ call[c].req # None
    BY <1>0, InFlight
  <2>2. call[c].q # None /\ (call[c].pc # "load" => call[c].doc # None) /\ ~Owns(c)
    BY <1>0, <2>1 DEF Shape, Owns
  <2>3. call[c].q \in Optional(Quotes) /\ call[c].doc \in Optional(QuoteDocs)
    BY <1>0, CallFields
  <2> QED BY <2>1, <2>2, <2>3, RequestFields DEF Optional, P
<1>2. /\ now' = now /\ now \in Nat /\ SoundAfter(q, None) /\ SoundAfter(q, call[c].doc)
      /\ SoundAfter(q, fxQuotes[q]) /\ (\A s \in Pods : SoundAfter(q, quotesMem[s][q]))
      /\ Pending(c) /\ call'[c].req = call[c].req /\ call'[c].q = call[c].q /\ DOMAIN call = Calls
      /\ call[c] \in CallRecords(c)
  BY <1>0, <1>1, OldDocsSound DEF ConsumeInv, SafeMove, OneCallMoves, TypeOK
<1> HIDE DEF p, q
<1>3. CASE InsertQuote(c)
  <2>1. /\ call[c].pc = "insertQuote" /\ fxQuotes' = [fxQuotes EXCEPT ![q] = call[c].doc] /\ quotesMem' = quotesMem
        /\ Answer(c, call[c].doc) \/ Goto(c, "spotMem")
    BY <1>0, <1>3 DEF InsertQuote, q
  <2>2. fxQuotes'[q] = call[c].doc /\ ~IsExecuted(call[c].doc)
    BY <1>0, <1>1, <1>2, <2>1 DEF TypeOK, Pending, IsExecuted
  <2>3. call'[c].pc \in {"done", "spotMem"} /\ call'[c].doc \in {call[c].doc, None}
    BY <1>2, <2>1 DEF Answer, Goto, CallRecords
  <2>4. DocsAfter(c) /\ CopiesAfter(c)
    BY <1>2, <2>1, <2>2, <2>3 DEF DocsAfter, CopiesAfter, q
  <2>5. CallAfter(c) /\ OwnerAfter(c)
    BY <2>2, <2>3 DEF CallAfter, Pending, CopyThere, OwnerAfter, q
  <2> QED BY <2>4, <2>5 DEF ConsumeMove
<1>4. CASE LoadQuote(c)
  <2>1. call[c].pc = "load" /\ UNCHANGED quoteVars /\ fxQuotes' = fxQuotes /\ quotesMem' = quotesMem
    BY <1>4 DEF LoadQuote, quoteVars
  <2>2. OwnerAfter(c)
    BY <1>1, <2>1 DEF OwnerAfter
  <2>3. CASE quotesMem[p][q] # None /\ UseQuote(c, quotesMem[p][q])
    <3>1. quotesMem[p][q] \in QuoteDocs
      BY <1>0, <1>1, <2>3 DEF TypeOK, Optional
    <3>2. \/ call'[c].pc = "expireMem" /\ call'[c].doc = quotesMem[p][q] /\ Lapsed(quotesMem[p][q])
          \/ call'[c].pc = "done" /\ call'[c].doc = None
          \/ call'[c].pc = "casDB" /\ call'[c].doc = quotesMem[p][q]
      BY <1>0, <2>1, <2>3, <3>1, UseQuoteOutcome
    <3>3. DocsAfter(c) /\ CopiesAfter(c)
      BY <1>0, <1>1, <1>2, <2>1, <3>2, IdleDocs DEF q
    <3>4. CallAfter(c)
      BY <1>2, <2>1, <2>3, <3>2 DEF CallAfter, Pending, CopyThere, Lapsed, P, p, q
    <3> QED BY <2>2, <3>3, <3>4 DEF ConsumeMove
  <2>4. CASE quotesMem[p][q] = None /\ call' = [call EXCEPT ![c].pc = "cacheQuote", ![c].doc = fxQuotes[q]]
    <3>1. call'[c].pc = "cacheQuote" /\ call'[c].doc = fxQuotes[q]
      BY <1>2, <2>4 DEF CallRecords
    <3>2. DocsAfter(c) /\ CopiesAfter(c)
      BY <1>0, <1>1, <1>2, <2>1, <3>1, IdleDocs DEF q
    <3>3. CallAfter(c)
      BY <2>4, <3>1 DEF CallAfter, Pending, CopyThere, p, q
    <3> QED BY <2>2, <3>2, <3>3 DEF ConsumeMove
  <2>5. CASE Refuse(c)
    <3>1. call'[c].pc = "done" /\ call'[c].doc = None
      BY <1>2, <2>5 DEF Refuse, Answer, CallRecords
    <3>2. DocsAfter(c) /\ CopiesAfter(c)
      BY <1>0, <1>1, <1>2, <2>1, <3>1, IdleDocs DEF q
    <3>3. CallAfter(c)
      BY <3>1 DEF CallAfter, Pending, CopyThere
    <3> QED BY <2>2, <3>2, <3>3 DEF ConsumeMove
  <2> QED BY <1>4, <2>3, <2>4, <2>5 DEF LoadQuote, p, q
<1>5. CASE CacheQuote(c)
  <2>1. /\ call[c].pc = "cacheQuote" /\ PutsCopy(p, q, call[c].doc) /\ UseQuote(c, call[c].doc)
        /\ fxQuotes' = fxQuotes
    BY <1>5 DEF CacheQuote, PutsCopy, p, q
  <2>2. call[c].doc \in QuoteDocs /\ call[c].doc # None /\ call[c].doc \in Optional(QuoteDocs)
    BY <1>1, <2>1 DEF NoneIsNoDocument, Optional
  <2>3. /\ quotesMem'[p][q] = call[c].doc
        /\ \A s \in Pods : s # p => quotesMem'[s][q] = quotesMem[s][q]
    BY <1>0, <1>1, <2>1, <2>2, PutCopyEffect
  <2>4. \/ call'[c].pc = "expireMem" /\ call'[c].doc = call[c].doc /\ Lapsed(call[c].doc)
        \/ call'[c].pc = "done" /\ call'[c].doc = None
        \/ call'[c].pc = "casDB" /\ call'[c].doc = call[c].doc
    BY <1>0, <2>1, <2>2, UseQuoteOutcome
  <2>5. DocsAfter(c)
    BY <1>2, <2>1, <2>3, <2>4 DEF DocsAfter, q
  <2>6. CopiesAfter(c)
    BY <2>1, <2>2, <2>3 DEF CopiesAfter, p, q
  <2>7. CallAfter(c)
    BY <1>2, <2>2, <2>3, <2>4 DEF CallAfter, Pending, CopyThere, Lapsed, P, p, q
  <2>8. OwnerAfter(c)
    BY <1>1, <2>1 DEF OwnerAfter
  <2> QED BY <2>5, <2>6, <2>7, <2>8 DEF ConsumeMove
<1>6. CASE ExpireInMemory(c)
  <2> DEFINE doc == [call[c].doc EXCEPT !.status = "EXPIRED"]
  <2>1. /\ call[c].pc = "expireMem" /\ PutsCopy(p, q, doc) /\ fxQuotes' = fxQuotes
        /\ call' = [call EXCEPT ![c].pc = "expireDB", ![c].doc = doc]
    BY <1>6 DEF ExpireInMemory, PutsCopy, p, q
  <2>2. doc \in QuoteDocs /\ doc.exp = call[c].doc.exp /\ doc.status = "EXPIRED"
    BY <1>1, <2>1 DEF QuoteDocs
  <2>3. doc # None /\ doc \in Optional(QuoteDocs)
    BY <2>2 DEF NoneIsNoDocument, Optional
  <2> HIDE DEF doc
  <2>4. /\ quotesMem'[p][q] = doc
        /\ \A s \in Pods : s # p => quotesMem'[s][q] = quotesMem[s][q]
    BY <1>0, <1>1, <2>1, <2>3, PutCopyEffect
  <2>5. call'[c].pc = "expireDB" /\ call'[c].doc = doc
    BY <1>2, <2>1 DEF CallRecords
  <2>6. SoundAfter(q, doc) /\ now' > doc.exp /\ ~IsExecuted(doc)
    BY <1>2, <2>1, <2>2 DEF SoundAfter, Pending, Lapsed, IsExecuted
  <2>7. DocsAfter(c)
    BY <1>2, <2>1, <2>4, <2>5, <2>6 DEF DocsAfter, q
  <2>8. CopiesAfter(c)
    BY <2>3, <2>4, <2>6 DEF CopiesAfter, q
  <2>9. CallAfter(c)
    BY <2>5, <2>6 DEF CallAfter, Pending, CopyThere, Lapsed
  <2>10. OwnerAfter(c)
    BY <1>1, <2>1 DEF OwnerAfter
  <2> QED BY <2>7, <2>8, <2>9, <2>10 DEF ConsumeMove
<1>7. CASE ExpireInDB(c)
  <2>1. /\ call[c].pc = "expireDB" /\ SetStatus(q, "EXPIRED") /\ quotesMem' = quotesMem
        /\ Answer(c, call[c].doc)
    BY <1>0, <1>7 DEF ExpireInDB, q
  <2>2. call'[c].pc = "done" /\ call'[c].doc = None
    BY <1>2, <2>1 DEF Answer, CallRecords
  <2>3. /\ fxQuotes[q] = None => fxQuotes'[q] = None
        /\ fxQuotes[q] # None => fxQuotes'[q].status = "EXPIRED" /\ fxQuotes'[q].exp = fxQuotes[q].exp
    BY <1>0, <1>1, <2>1, SetStatusEffect
  <2>4. fxQuotes[q] # None => now' > fxQuotes[q].exp
    <3>1. call[c].doc # None
      BY <1>1, <2>1 DEF NoneIsNoDocument
    <3>2. fxQuotes[q] # None => fxQuotes[q].exp = call[c].doc.exp
      BY <1>1, <3>1, SameExpiry DEF q
    <3> QED BY <1>2, <2>1, <3>2 DEF Pending, Lapsed
  <2>5. SoundAfter(q, fxQuotes'[q]) /\ ~IsExecuted(fxQuotes'[q])
    BY <2>3, <2>4 DEF SoundAfter, IsExecuted
  <2>6. DocsAfter(c) /\ CopiesAfter(c)
    BY <1>2, <2>1, <2>2, <2>5 DEF DocsAfter, CopiesAfter, q
  <2>7. CallAfter(c) /\ OwnerAfter(c)
    BY <2>2, <2>5 DEF CallAfter, Pending, CopyThere, OwnerAfter, q
  <2> QED BY <2>6, <2>7 DEF ConsumeMove
<1> QED BY <1>3, <1>4, <1>5, <1>6, <1>7

(* The compare-and-sets: only the one in fx_db uses up a quote, and the    *)
(* one on the pod's copy refuses afterwards only what has lapsed.          *)
LEMMA ExecuteStepsConsume ==
    ASSUME FXConstants, NoneIsNoDocument, FXInv, ConsumeInv, faults' = 0, NEW c \in Calls,
           \/ ExecuteInDB(c) \/ ExecuteInMemory(c)
           \/ ExecuteSpotInMemory(c) \/ ExecuteSpotInDB(c)
    PROVE  ConsumeMove(c)
<1> DEFINE p == P(c)  q == call[c].q
<1>a. QuoteInv /\ SafeMove(c)
  <2>1. QuoteInv
    BY DEF FXInv
  <2> QED BY <2>1, ExecuteStepsAreSafe
<1>b. call[c].pc \in {"casDB", "casMem", "spotMem", "spotDB"}
  <2>1. CASE ExecuteInDB(c)
    BY <2>1 DEF ExecuteInDB
  <2>2. CASE ExecuteInMemory(c)
    <3>1. call[c].pc = "casMem"
      BY <2>2 DEF ExecuteInMemory
    <3> QED BY <3>1
  <2>3. CASE ExecuteSpotInMemory(c)
    <3>1. call[c].pc = "spotMem"
      BY <2>3 DEF ExecuteSpotInMemory
    <3> QED BY <3>1
  <2>4. CASE ExecuteSpotInDB(c)
    BY <2>4 DEF ExecuteSpotInDB
  <2> QED BY <2>1, <2>2, <2>3, <2>4
<1>0. /\ TypeOK /\ Shape(c, call[c]) /\ Op(c, "CONVERT") /\ p \in Pods /\ q \in Quotes
      /\ call[c].doc \in QuoteDocs /\ ~Fail
  <2>1. /\ TypeOK /\ Shape(c, call[c]) /\ call[c].req # None /\ call[c].req.op = "CONVERT"
        /\ P(c) \in Pods /\ call[c].q \in Quotes /\ call[c].doc \in QuoteDocs
    BY <1>a, <1>b, Convert
  <2> QED BY <2>1, NoFaultIsOk DEF Op
<1>1. /\ call[c].pc \in {"casDB", "casMem"} => Locked(c)
      /\ call[c].pc \in {"spotMem", "spotDB"} => Spot(c)
      /\ call[c].conv = None
  BY <1>0, <1>b DEF Shape, Locked, Spot, Op
<1>2. /\ now' = now /\ now \in Nat /\ SoundAfter(q, None) /\ SoundAfter(q, call[c].doc)
      /\ SoundAfter(q, fxQuotes[q]) /\ (\A s \in Pods : SoundAfter(q, quotesMem[s][q]))
  BY <1>a, <1>0, OldDocsSound
<1>3. /\ CopyThere(c) /\ Clear(c) /\ DocsSound
      /\ call'[c].req = call[c].req /\ call'[c].q = call[c].q /\ DOMAIN call = Calls
      /\ call[c] \in CallRecords(c)
  BY <1>a, <1>0 DEF ConsumeInv, SafeMove, OneCallMoves, TypeOK
<1>4. Spot(c) => Spot(c)'
  BY <1>3 DEF Spot, Op
<1> HIDE DEF p, q
<1>5. CASE ExecuteInDB(c)
  <2>1. /\ call[c].pc = "casDB" /\ quotesMem' = quotesMem
        /\ \/ ExecutableInDB(q) /\ SetStatus(q, "EXECUTED") /\ Goto(c, "casMem")
           \/ Refuse(c) /\ fxQuotes' = fxQuotes
    BY <1>0, <1>5 DEF ExecuteInDB, q
  <2>2. CASE ExecutableInDB(q) /\ SetStatus(q, "EXECUTED") /\ Goto(c, "casMem")
    <3>1. call'[c].pc = "casMem" /\ call'[c].doc = call[c].doc
      BY <1>3, <2>2 DEF Goto, CallRecords
    <3>2. fxQuotes[q] # None /\ fxQuotes[q].status = "ACTIVE"
      BY <2>2 DEF ExecutableInDB
    <3>3. fxQuotes'[q] \in QuoteDocs /\ fxQuotes'[q].status = "EXECUTED"
      BY <1>0, <2>2, <3>2, SetStatusEffect
    <3>4. fxQuotes'[q] # None
      BY <3>3 DEF NoneIsNoDocument
    <3>5. Consumed(q)' /\ SoundAfter(q, fxQuotes'[q])
      BY <1>3, <3>3, <3>4 DEF Consumed, SoundAfter, q
    <3>6. DocsAfter(c) /\ CopiesAfter(c)
      BY <1>2, <2>1, <3>1, <3>5 DEF DocsAfter, CopiesAfter, q
    <3>7. CallAfter(c)
      BY <1>1, <1>3, <2>1, <3>1, <3>2 DEF CallAfter, Pending, CopyThere, P, q
    <3>8. OwnerAfter(c)
      BY <3>1 DEF OwnerAfter, Owns
    <3> QED BY <3>6, <3>7, <3>8 DEF ConsumeMove
  <2>3. CASE Refuse(c) /\ fxQuotes' = fxQuotes
    <3>1. call'[c].pc = "done" /\ call'[c].doc = None
      BY <1>3, <2>3 DEF Refuse, Answer, CallRecords
    <3>2. DocsAfter(c) /\ CopiesAfter(c)
      BY <1>2, <2>1, <2>3, <3>1 DEF DocsAfter, CopiesAfter, q
    <3>3. CallAfter(c)
      BY <3>1 DEF CallAfter, Pending, CopyThere
    <3>4. OwnerAfter(c)
      BY <1>1, <2>1, <2>3 DEF OwnerAfter, Owns
    <3> QED BY <3>2, <3>3, <3>4 DEF ConsumeMove
  <2> QED BY <2>1, <2>2, <2>3
<1>6. CASE ExecuteInMemory(c)
  <2> DEFINE copy == quotesMem[p][q]
             new == [copy EXCEPT !.status = "EXECUTED"]
  <2>1. call[c].pc = "casMem" /\ fxQuotes' = fxQuotes
    BY <1>6 DEF ExecuteInMemory
  <2>2. copy # None /\ copy \in QuoteDocs /\ ~IsExecuted(copy) /\ Sound(q, copy)
    <3>1. copy # None /\ ~IsExecuted(copy)
      BY <1>3, <2>1 DEF CopyThere, Clear, p, q
    <3>2. copy \in Optional(QuoteDocs)
      BY <1>0 DEF TypeOK
    <3>3. Sound(q, copy)
      BY <1>0, <1>3 DEF DocsSound
    <3> QED BY <3>1, <3>2, <3>3 DEF Optional
  <2>3. \/ Refuse(c) /\ quotesMem' = quotesMem /\ (copy.status # "ACTIVE" \/ Lapsed(copy))
        \/ PutsCopy(p, q, new) /\ Goto(c, "record")
    <3>1. \/ Refuse(c) /\ UNCHANGED quotesMem /\ (copy.status # "ACTIVE" \/ Lapsed(copy))
          \/ /\ quotesMem' = [quotesMem EXCEPT ![p][q] = new]
             /\ Goto(c, "record")
      BY <1>6, <2>2 DEF ExecuteInMemory, p, q
    <3> QED BY <3>1 DEF PutsCopy
  <2>4. new \in QuoteDocs /\ new.status = "EXECUTED"
    <3> HIDE DEF copy
    <3> QED BY <2>2 DEF QuoteDocs
  <2> HIDE DEF new
  <2>5. CASE Refuse(c) /\ quotesMem' = quotesMem /\ (copy.status # "ACTIVE" \/ Lapsed(copy))
    <3>1. call'[c].pc = "done" /\ call'[c].doc = None
      BY <1>3, <2>5 DEF Refuse, Answer, CallRecords
    <3>2. DocsAfter(c) /\ CopiesAfter(c)
      BY <1>2, <2>1, <2>5, <3>1 DEF DocsAfter, CopiesAfter, q
    <3>3. CallAfter(c)
      BY <3>1 DEF CallAfter, Pending, CopyThere
    <3>4. Lapsed(copy)
      <4>1. copy.status \in {"ACTIVE", "EXECUTED", "EXPIRED"}
        BY <2>2 DEF QuoteDocs
      <4> QED BY <2>2, <2>5, <4>1 DEF IsExecuted, Sound
    <3>5. IsExecuted(fxQuotes[q]) => Lapsed(fxQuotes[q])
      <4>1. fxQuotes[q] # None => fxQuotes[q].exp = copy.exp
        BY <1>0, <2>2, SameExpiry DEF q
      <4> QED BY <3>4, <4>1 DEF IsExecuted, Lapsed
    <3>6. OwnerAfter(c)
      BY <2>1, <3>5 DEF OwnerAfter, q
    <3> QED BY <3>2, <3>3, <3>6 DEF ConsumeMove
  <2>6. CASE PutsCopy(p, q, new) /\ Goto(c, "record")
    <3>1. call'[c].pc = "record" /\ call'[c].doc = call[c].doc
      BY <1>3, <2>6 DEF Goto, CallRecords
    <3>2. new # None /\ new \in Optional(QuoteDocs)
      BY <2>4 DEF NoneIsNoDocument, Optional
    <3>3. /\ quotesMem'[p][q] = new
          /\ \A s \in Pods : s # p => quotesMem'[s][q] = quotesMem[s][q]
      BY <1>0, <2>6, <3>2, PutCopyEffect
    <3>4. c \in Claims
      BY <1>1, <2>1 DEF Claims, Locked
    <3>5. Consumed(q)'
      <4>1. fxQuotes[q] # None /\ fxQuotes[q].status # "ACTIVE"
        BY <1>a, <3>4 DEF QuoteInv, ClaimsHold, q
      <4> QED BY <1>3, <2>1, <4>1 DEF Consumed, q
    <3>6. SoundAfter(q, new)
      BY <2>4, <3>5 DEF SoundAfter
    <3>7. DocsAfter(c)
      BY <1>2, <2>1, <3>1, <3>3, <3>6 DEF DocsAfter, q
    <3>8. CopiesAfter(c)
      BY <3>2, <3>3, <3>4 DEF CopiesAfter, q
    <3>9. CallAfter(c) /\ OwnerAfter(c)
      BY <3>1 DEF CallAfter, Pending, CopyThere, OwnerAfter, Owns
    <3> QED BY <3>7, <3>8, <3>9 DEF ConsumeMove
  <2> QED BY <2>3, <2>5, <2>6
<1>7. CASE ExecuteSpotInMemory(c)
  <2> DEFINE copy == quotesMem[p][q]
             new == [copy EXCEPT !.status = "EXECUTED"]
  <2>1. call[c].pc = "spotMem" /\ fxQuotes' = fxQuotes /\ Goto(c, "spotDB")
    BY <1>7 DEF ExecuteSpotInMemory
  <2>2. quotesMem' = quotesMem \/ (copy # None /\ PutsCopy(p, q, new))
    BY <1>7 DEF ExecuteSpotInMemory, PutsCopy, p, q
  <2>3. call'[c].pc = "spotDB" /\ call'[c].doc = call[c].doc
    BY <1>3, <2>1 DEF Goto, CallRecords
  <2>4. Spot(c) /\ Consumed(q)'
    BY <1>1, <1>3, <1>4, <2>1 DEF Consumed, q
  <2>5. CallAfter(c)
    BY <2>3 DEF CallAfter, Pending, CopyThere
  <2>6. OwnerAfter(c)
    BY <1>1, <2>1 DEF OwnerAfter, Owns
  <2>7. CASE quotesMem' = quotesMem
    <3>1. DocsAfter(c) /\ CopiesAfter(c)
      BY <1>2, <2>1, <2>3, <2>7 DEF DocsAfter, CopiesAfter, q
    <3> QED BY <2>5, <2>6, <3>1 DEF ConsumeMove
  <2>8. CASE copy # None /\ PutsCopy(p, q, new)
    <3>1. copy \in QuoteDocs
      <4>1. copy \in Optional(QuoteDocs)
        BY <1>0 DEF TypeOK
      <4> QED BY <2>8, <4>1 DEF Optional
    <3>2. new \in QuoteDocs /\ new.status = "EXECUTED"
      <4> HIDE DEF copy
      <4> QED BY <3>1 DEF QuoteDocs
    <3> HIDE DEF new
    <3>3. new # None /\ new \in Optional(QuoteDocs)
      BY <3>2 DEF NoneIsNoDocument, Optional
    <3>4. /\ quotesMem'[p][q] = new
          /\ \A s \in Pods : s # p => quotesMem'[s][q] = quotesMem[s][q]
      BY <1>0, <2>8, <3>3, PutCopyEffect
    <3>5. SoundAfter(q, new)
      BY <2>4, <3>2 DEF SoundAfter
    <3>6. DocsAfter(c)
      BY <1>2, <2>1, <2>3, <3>4, <3>5 DEF DocsAfter, q
    <3>7. CopiesAfter(c)
      BY <2>4, <3>3, <3>4 DEF CopiesAfter, q
    <3> QED BY <2>5, <2>6, <3>6, <3>7 DEF ConsumeMove
  <2> QED BY <2>2, <2>7, <2>8
<1>8. CASE ExecuteSpotInDB(c)
  <2>1. /\ call[c].pc = "spotDB" /\ quotesMem' = quotesMem /\ Goto(c, "record")
        /\ SetStatus(q, "EXECUTED")
    BY <1>0, <1>8 DEF ExecuteSpotInDB, q
  <2>2. call'[c].pc = "record" /\ call'[c].doc = call[c].doc
    BY <1>3, <2>1 DEF Goto, CallRecords
  <2>3. Consumed(q)'
    BY <1>1, <1>3, <1>4, <2>1 DEF Consumed, q
  <2>4. SoundAfter(q, fxQuotes'[q])
    <3>1. /\ fxQuotes[q] = None => fxQuotes'[q] = None
          /\ fxQuotes[q] # None => fxQuotes'[q].status = "EXECUTED"
      BY <1>0, <2>1, SetStatusEffect
    <3> QED BY <2>3, <3>1 DEF SoundAfter
  <2>5. DocsAfter(c) /\ CopiesAfter(c)
    BY <1>2, <2>1, <2>2, <2>4 DEF DocsAfter, CopiesAfter, q
  <2>6. CallAfter(c) /\ OwnerAfter(c)
    BY <2>2 DEF CallAfter, Pending, CopyThere, OwnerAfter, Owns
  <2> QED BY <2>5, <2>6 DEF ConsumeMove
<1> QED BY <1>5, <1>6, <1>7, <1>8

-----------------------------------------------------------------------------
(* A step that leaves the quote documents alone and after which no call is *)
(* about to write one that was not before: looking for a conversion,       *)
(* recording one, the arrival of an RPC, the clock and the rate books.     *)
Writing == {"insertQuote", "expireMem", "expireDB", "casDB", "casMem", "cacheQuote"}
Aside(d) ==
    /\ call'[d].pc \notin Writing
    /\ call'[d].doc \in {None, call[d].doc}
    /\ call'[d].q = call[d].q \/ call'[d].doc = None
    /\ call[d].q # None => call'[d].q = call[d].q /\ call'[d].req = call[d].req
    /\ Owns(d) => Owns(d)'
LEMMA AsideKeepsConsumeInv ==
    ASSUME FXConstants, QuoteInv, ConsumeInv, UNCHANGED quoteVars, now' \in Nat, now <= now',
           \A d \in Calls : call'[d] = call[d] \/ Aside(d)
    PROVE  ConsumeInv'
<1>0. /\ TypeOK /\ fxQuotes' = fxQuotes /\ quotesMem' = quotesMem /\ now \in Nat /\ DocsSound
      /\ (\A d \in Calls : Pending(d) /\ CopyThere(d) /\ Clear(d)) /\ \A q \in Quotes : Owned(q)
  BY DEF QuoteInv, ConsumeInv, quoteVars, TypeOK
<1>1. \A q \in Quotes : Consumed(q) => Consumed(q)'
  <2>1. \A d \in Calls : Spot(d) /\ call[d].q # None =>
                           call'[d].req = call[d].req /\ call'[d].q = call[d].q
    BY DEF Aside
  <2> QED BY <1>0, <2>1, ConsumedStays
<1>2. ASSUME NEW q \in Quotes, NEW doc \in Optional(QuoteDocs), Sound(q, doc) PROVE SoundAfter(q, doc)
  BY <1>0, <1>1, <1>2, SoundStays
<1>3. \A d \in Calls : call[d].doc \in Optional(QuoteDocs) /\ call[d].q \in Optional(Quotes)
  BY <1>0, CallFields
<1>4. DocsSound'
  <2> SUFFICES ASSUME NEW q \in Quotes
               PROVE  /\ SoundAfter(q, fxQuotes'[q]) /\ \A p \in Pods : SoundAfter(q, quotesMem'[p][q])
                      /\ \A d \in Calls : call'[d].q = q => SoundAfter(q, call'[d].doc)
    BY DEF DocsSound, Sound, SoundAfter, Lapsed
  <2>1. /\ fxQuotes[q] \in Optional(QuoteDocs) /\ Sound(q, fxQuotes[q])
        /\ \A p \in Pods : quotesMem[p][q] \in Optional(QuoteDocs) /\ Sound(q, quotesMem[p][q])
    BY <1>0 DEF TypeOK, DocsSound
  <2>2. SoundAfter(q, fxQuotes'[q]) /\ \A p \in Pods : SoundAfter(q, quotesMem'[p][q])
    BY <1>0, <1>2, <2>1
  <2>3. ASSUME NEW d \in Calls, call'[d].q = q PROVE SoundAfter(q, call'[d].doc)
    <3>1. CASE call'[d].doc = None
      BY <3>1 DEF SoundAfter
    <3>2. CASE call'[d].doc # None
      <4>1. call[d].q = q /\ call'[d].doc = call[d].doc
        BY <2>3, <3>2 DEF Aside
      <4>2. Sound(q, call[d].doc)
        BY <1>0, <4>1 DEF DocsSound
      <4> QED BY <1>2, <1>3, <4>1, <4>2
    <3> QED BY <3>1, <3>2
  <2> QED BY <2>2, <2>3
<1>5. ASSUME NEW d \in Calls PROVE Pending(d)' /\ CopyThere(d)'
  <2>1. CASE call'[d].pc \notin Writing
    BY <2>1 DEF Pending, CopyThere, Writing
  <2>2. CASE call'[d].pc \in Writing
    <3>1. call'[d] = call[d] /\ Pending(d) /\ CopyThere(d)
      BY <1>0, <2>2 DEF Aside
    <3>2. CopyThere(d)'
      BY <1>0, <3>1 DEF CopyThere, P
    <3>3. ASSUME call[d].pc \in {"expireMem", "expireDB"} PROVE now' > call[d].doc.exp
      <4>1. now > call[d].doc.exp
        BY <3>1, <3>3 DEF Pending, Lapsed
      <4>2. call[d].doc.exp \in Nat
        <5>1. Shape(d, call[d])
          BY DEF QuoteInv, CallShape
        <5>2. call[d].doc # None
          <6>1. call[d].req # None
            BY <3>3, <5>1 DEF Shape
          <6> QED BY <3>3, <5>1, <6>1 DEF Shape
        <5> QED BY <1>3, <5>2 DEF Optional, QuoteDocs
      <4> QED BY <1>0, <4>1, <4>2
    <3>4. Pending(d)'
      BY <3>1, <3>3 DEF Pending, Lapsed
    <3> QED BY <3>2, <3>4
  <2> QED BY <2>1, <2>2
<1>6. ASSUME NEW d \in Calls PROVE Clear(d)'
  <2> SUFFICES ASSUME call'[d].pc = "casMem" PROVE Clear(d)'
    BY DEF Clear
  <2>1. call'[d] = call[d] /\ Clear(d)
    BY <1>0 DEF Aside, Writing
  <2>2. \A e \in Calls : call'[e].pc = "cacheQuote" => call'[e] = call[e]
    BY DEF Aside, Writing
  <2> QED BY <1>0, <2>1, <2>2 DEF Clear, P
<1>7. ASSUME NEW q \in Quotes PROVE Owned(q)'
  <2> SUFFICES ASSUME IsExecuted(fxQuotes[q])
               PROVE  (\E d \in Calls : call'[d].q = q /\ Owns(d)') \/ now' > fxQuotes[q].exp
    BY <1>0 DEF Owned, Lapsed, IsExecuted
  <2>1. CASE Lapsed(fxQuotes[q])
    <3>1. fxQuotes[q].exp \in Nat
      BY <1>0 DEF IsExecuted, TypeOK, Optional, QuoteDocs
    <3> QED BY <1>0, <2>1, <3>1 DEF Lapsed
  <2>2. CASE ~Lapsed(fxQuotes[q])
    <3>1. PICK d \in Calls : call[d].q = q /\ Owns(d)
      BY <1>0, <2>2 DEF Owned
    <3>2. q # None
      BY NoneIsNoName
    <3>3. CASE call'[d] = call[d]
      BY <3>1, <3>3 DEF Owns
    <3>4. CASE Aside(d)
      BY <3>1, <3>2, <3>4 DEF Aside
    <3> QED BY <3>3, <3>4
  <2> QED BY <2>1, <2>2
<1> QED BY <1>4, <1>5, <1>6, <1>7 DEF ConsumeInv

(* The steps that look for a conversion or record one.                     *)
LEMMA RecordStepsStayAside ==
    ASSUME FXConstants, NoneIsNoDocument, QuoteInv, NEW c \in Calls,
           FindExistingConversion(c) \/ CacheConversion(c) \/ RecordConversion(c) \/ InsertConversion(c)
    PROVE  UNCHANGED quoteVars /\ Aside(c)
<1>0. /\ SafeMove(c) /\ TypeOK /\ Shape(c, call[c])
      /\ call[c].pc \in {"find", "cacheConv", "record", "insertConv"}
  <2>1. call[c].pc \in {"find", "cacheConv", "record", "insertConv"}
    BY DEF FindExistingConversion, CacheConversion, RecordConversion, InsertConversion
  <2> QED BY <2>1, Convert, RecordStepsAreSafe
<1>1. /\ call'[c].req = call[c].req /\ call'[c].q = call[c].q
      /\ call[c] \in CallRecords(c) /\ DOMAIN call = Calls
  BY <1>0 DEF SafeMove, OneCallMoves, TypeOK
<1>2. call[c].pc \in {"record", "insertConv"} => call[c].q # None
  BY <1>0 DEF Shape
<1>3. CASE FindExistingConversion(c)
  <2>1. call[c].pc = "find" /\ UNCHANGED quoteVars
    BY <1>3 DEF FindExistingConversion
  <2>2. \/ \E x : Answer(c, x)
        \/ \E x : TakesAnswer(c, "cacheConv", x)
        \/ \E l \in {"create", "load"} : Goto(c, l)
    BY <1>3 DEF FindExistingConversion, TakesAnswer
  <2>3. /\ call'[c].pc \in {"done", "cacheConv", "create", "load"}
        /\ call'[c].doc \in {None, call[c].doc} /\ call'[c].conv = call[c].conv
    <3>1. CASE \E x : Answer(c, x)
      BY <1>1, <3>1 DEF Answer, CallRecords
    <3>2. CASE \E x : TakesAnswer(c, "cacheConv", x)
      BY <1>1, <3>2 DEF TakesAnswer, CallRecords
    <3>3. CASE \E l \in {"create", "load"} : Goto(c, l)
      BY <1>1, <3>3 DEF Goto, CallRecords
    <3> QED BY <2>2, <3>1, <3>2, <3>3
  <2> QED BY <1>1, <2>1, <2>3 DEF Aside, Writing, Owns
<1>4. CASE CacheConversion(c)
  <2>1. call[c].pc = "cacheConv" /\ UNCHANGED quoteVars /\ Goto(c, "done")
    BY <1>4 DEF CacheConversion
  <2>2. call'[c].pc = "done" /\ call'[c].doc = call[c].doc /\ call'[c].conv = call[c].conv
    BY <1>1, <2>1 DEF Goto, CallRecords
  <2> QED BY <1>1, <2>1, <2>2 DEF Aside, Writing, Owns
<1>5. CASE RecordConversion(c)
  <2>1. call[c].pc = "record" /\ UNCHANGED quoteVars /\ \E x : TakesConv(c, "insertConv", x)
    BY <1>5 DEF RecordConversion, TakesConv
  <2>2. call'[c].pc = "insertConv" /\ call'[c].doc = call[c].doc
    BY <1>1, <2>1 DEF TakesConv, CallRecords
  <2> QED BY <1>1, <2>1, <2>2 DEF Aside, Writing, Owns
<1>6. CASE InsertConversion(c)
  <2>1. call[c].pc = "insertConv" /\ UNCHANGED quoteVars /\ \E x : Answer(c, x)
    BY <1>6 DEF InsertConversion
  <2>2. call'[c].pc = "done" /\ call'[c].doc = None /\ call'[c].conv = call[c].conv
    BY <1>1, <2>1 DEF Answer, CallRecords
  <2>3. call[c].conv # None
    BY <1>0, <2>1 DEF Shape
  <2> QED BY <1>1, <2>1, <2>2, <2>3 DEF Aside, Writing, Owns
<1> QED BY <1>3, <1>4, <1>5, <1>6

(* Drawing a quote puts an ACTIVE document under an id nobody knows.       *)
LEMMA CreateKeepsConsumeInv ==
    ASSUME FXConstants, NoneIsNoDocument, QuoteInv, ConsumeInv, NEW c \in Calls, CreateQuote(c)
    PROVE  ConsumeInv'
<1>0. /\ TypeOK /\ CallShape /\ now \in Nat /\ DocsSound
      /\ (\A d \in Calls : Pending(d) /\ CopyThere(d) /\ Clear(d)) /\ \A q \in Quotes : Owned(q)
  BY DEF QuoteInv, ConsumeInv, TypeOK
<1>1. PICK n \in Fresh, doc \in QuoteDocs :
             /\ doc.status = "ACTIVE" /\ doc # None /\ n \in Quotes
             /\ Becomes(c, "insertQuote", call[c].req, n, doc, call[c].conv, call[c].answer)
             /\ PutsCopy(P(c), n, doc) /\ P(c) \in Pods
             /\ call[c].pc = "create" /\ call[c].req.q = None /\ call[c].req # None
             /\ call[c].q = None
             /\ UNCHANGED <<now, fxQuotes, convVars, rateVars, faults>>
  BY CreateQuoteEffect
<1>2. /\ \A d \in Calls : d # c => call'[d] = call[d]
      /\ call'[c].pc = "insertQuote" /\ call'[c].req = call[c].req /\ call'[c].q = n
      /\ call'[c].doc = doc /\ now' = now /\ fxQuotes' = fxQuotes
  BY <1>1 DEF Becomes
<1>3. \A d \in Calls : call[d].q # n
  BY DEF Fresh
<1>4. /\ quotesMem'[P(c)][n] = doc
      /\ \A s \in Pods : s # P(c) => quotesMem'[s][n] = quotesMem[s][n]
      /\ \A q \in Quotes, s \in Pods : q # n => quotesMem'[s][q] = quotesMem[s][q]
  <2>1. doc \in Optional(QuoteDocs)
    BY DEF Optional
  <2> QED BY <1>0, <1>1, <2>1, PutCopyEffect
<1>5. \A q \in Quotes : Consumed(q) => Consumed(q)'
  <2>1. \A d \in Calls : Spot(d) /\ call[d].q # None =>
                           call'[d].req = call[d].req /\ call'[d].q = call[d].q
    BY <1>1, <1>2
  <2> QED BY <1>2, <2>1, ConsumedStays
<1>6. ASSUME NEW q \in Quotes, NEW x \in Optional(QuoteDocs), Sound(q, x) PROVE SoundAfter(q, x)
  BY <1>0, <1>2, <1>5, <1>6, SoundStays
<1>7. DocsSound'
  <2> SUFFICES ASSUME NEW q \in Quotes
               PROVE  /\ SoundAfter(q, fxQuotes'[q]) /\ \A p \in Pods : SoundAfter(q, quotesMem'[p][q])
                      /\ \A d \in Calls : call'[d].q = q => SoundAfter(q, call'[d].doc)
    BY DEF DocsSound, Sound, SoundAfter, Lapsed
  <2>1. SoundAfter(q, doc)
    BY <1>1 DEF SoundAfter
  <2>2. /\ fxQuotes[q] \in Optional(QuoteDocs) /\ Sound(q, fxQuotes[q])
        /\ \A p \in Pods : quotesMem[p][q] \in Optional(QuoteDocs) /\ Sound(q, quotesMem[p][q])
    BY <1>0 DEF TypeOK, DocsSound
  <2>3. SoundAfter(q, fxQuotes'[q]) /\ \A p \in Pods : SoundAfter(q, quotesMem[p][q])
    BY <1>2, <1>6, <2>2
  <2>4. \A p \in Pods : quotesMem'[p][q] \in {doc, quotesMem[p][q]}
    BY <1>4
  <2>5. ASSUME NEW d \in Calls, call'[d].q = q PROVE SoundAfter(q, call'[d].doc)
    <3>1. CASE d = c
      BY <1>2, <2>1, <3>1
    <3>2. CASE d # c
      <4>1. call'[d] = call[d] /\ Sound(q, call[d].doc) /\ call[d].doc \in Optional(QuoteDocs)
        BY <1>0, <1>2, <2>5, <3>2, CallFields DEF DocsSound
      <4> QED BY <1>6, <4>1
    <3> QED BY <3>1, <3>2
  <2> QED BY <2>1, <2>3, <2>4, <2>5
<1>8. ASSUME NEW d \in Calls PROVE Pending(d)' /\ CopyThere(d)' /\ Clear(d)'
  <2>1. CASE d = c
    BY <1>1, <1>2, <2>1 DEF Pending, CopyThere, Clear
  <2>2. CASE d # c
    <3>1. call'[d] = call[d] /\ Pending(d) /\ CopyThere(d) /\ Clear(d)
      BY <1>0, <1>2, <2>2
    <3>2. Pending(d)'
      BY <1>2, <3>1 DEF Pending, Lapsed
    <3>3. ASSUME call[d].pc \in {"casDB", "casMem"}
          PROVE  quotesMem'[P(d)][call[d].q] = quotesMem[P(d)][call[d].q]
      <4>1. Locked(d)
        BY <1>0, <3>3 DEF CallShape, Shape, Locked
      <4>2. P(d) \in Pods /\ call[d].q \in Quotes
        BY <1>0, <4>1, LockedShape, RequestFields DEF P
      <4> QED BY <1>3, <1>4, <4>2
    <3>4. CopyThere(d)'
      BY <3>1, <3>3 DEF CopyThere, P
    <3>5. \A e \in Calls : call'[e].pc = "cacheQuote" => call'[e] = call[e]
      BY <1>2
    <3>6. Clear(d)'
      BY <3>1, <3>3, <3>5 DEF Clear, P
    <3> QED BY <3>2, <3>4, <3>6
  <2> QED BY <2>1, <2>2
<1>9. ASSUME NEW q \in Quotes PROVE Owned(q)'
  <2> SUFFICES ASSUME IsExecuted(fxQuotes[q])
               PROVE  (\E d \in Calls : call'[d].q = q /\ Owns(d)') \/ now > fxQuotes[q].exp
    BY <1>2 DEF Owned, Lapsed, IsExecuted
  <2>1. CASE Lapsed(fxQuotes[q])
    BY <2>1 DEF Lapsed
  <2>2. CASE ~Lapsed(fxQuotes[q])
    <3>1. PICK d \in Calls : call[d].q = q /\ Owns(d)
      BY <1>0, <2>2 DEF Owned
    <3>2. d # c
      BY <1>1, <3>1, NoneIsNoName
    <3>3. call'[d] = call[d]
      BY <1>2, <3>2
    <3> QED BY <3>1, <3>3 DEF Owns
  <2> QED BY <2>1, <2>2
<1> QED BY <1>7, <1>8, <1>9 DEF ConsumeInv

(* While there has been no fault, every step keeps ConsumeInv.             *)
LEMMA NextKeepsConsumeInv ==
    ASSUME FXConstants, NoneIsNoDocument, FXInv, faults = 0 => ConsumeInv /\ SpotAlone, [Next]_vars,
           faults' = 0
    PROVE  ConsumeInv'
<1>0. QuoteInv /\ TypeOK /\ now \in Nat /\ faults \in Nat /\ ~Fail
  <2>1. QuoteInv /\ TypeOK
    BY DEF FXInv, QuoteInv
  <2> QED BY <2>1, Bounds, NoFaultIsOk DEF TypeOK
<1>1. ASSUME faults' = faults PROVE ConsumeInv /\ SpotAlone
  BY <1>1
<1>2. ASSUME NEW c \in Calls, CallStep(c) PROVE ConsumeInv'
  <2>1. faults' = faults
    BY <1>0, <1>2, StepCountsFault
  <2>2. ConsumeInv /\ SpotAlone
    BY <1>1, <2>1
  <2>3. CASE CreateQuote(c)
    BY <1>0, <2>2, <2>3, CreateKeepsConsumeInv
  <2>4. CASE InsertQuote(c) \/ LoadQuote(c) \/ CacheQuote(c) \/ ExpireInMemory(c) \/ ExpireInDB(c)
    <3>1. SafeMove(c)
      BY <1>0, <2>4, QuoteStepsAreSafe
    <3>2. ConsumeMove(c)
      BY <2>2, <2>4, QuoteStepsConsumeNothing
    <3> QED BY <1>0, <2>2, <3>1, <3>2, MoveKeepsConsumeInv
  <2>5. CASE \/ ExecuteInDB(c) \/ ExecuteInMemory(c)
             \/ ExecuteSpotInMemory(c) \/ ExecuteSpotInDB(c)
    <3>1. SafeMove(c)
      BY <1>0, <2>5, ExecuteStepsAreSafe
    <3>2. ConsumeMove(c)
      BY <2>2, <2>5, ExecuteStepsConsume
    <3> QED BY <1>0, <2>2, <3>1, <3>2, MoveKeepsConsumeInv
  <2>6. CASE FindExistingConversion(c) \/ CacheConversion(c) \/ RecordConversion(c) \/ InsertConversion(c)
    <3>1. UNCHANGED quoteVars /\ Aside(c)
      BY <1>0, <2>6, RecordStepsStayAside
    <3>2. now' = now /\ \A d \in Calls : d # c => call'[d] = call[d]
      <4>1. SafeMove(c)
        BY <1>0, <2>6, RecordStepsAreSafe
      <4> QED BY <4>1 DEF SafeMove, StoresTyped, OneCallMoves
    <3>3. now' \in Nat /\ now <= now' /\ \A d \in Calls : call'[d] = call[d] \/ Aside(d)
      BY <1>0, <3>1, <3>2
    <3> QED BY <1>0, <2>2, <3>1, <3>3, AsideKeepsConsumeInv
  <2> QED BY <1>2, <2>3, <2>4, <2>5, <2>6 DEF CallStep
<1>3. ASSUME NEW c \in Calls, NEW r \in Requests[c], HandleFXQuotes(c, r) \/ HandleFXConvert(c, r)
      PROVE  ConsumeInv'
  <2>1. PICK l \in {"create", "load", "find"} : Begin(c, r, l)
    BY <1>3 DEF HandleFXQuotes, HandleFXConvert
  <2>2. /\ call[c].pc = "idle" /\ UNCHANGED quoteVars /\ now' = now /\ faults' = faults
        /\ Starts(c, r, l)
    BY <2>1 DEF Begin, Starts
  <2>3. Shape(c, call[c]) /\ l \in Steps
    BY <1>0 DEF QuoteInv, CallShape, Steps
  <2>4. call[c].q = None /\ call[c].doc = None /\ call[c].conv = None
    BY <2>2, <2>3 DEF Shape
  <2>5. Becomes(c, l, r, r.q, call[c].doc, call[c].conv, call[c].answer)
    BY <1>0, <2>2, <2>3, BeginMoves
  <2>6. /\ call'[c].pc = l /\ call'[c].doc = None
        /\ \A d \in Calls : d # c => call'[d] = call[d]
    BY <2>4, <2>5 DEF Becomes
  <2>7. Aside(c)
    BY <2>2, <2>4, <2>6 DEF Aside, Writing, Owns
  <2>8. now' \in Nat /\ now <= now' /\ (\A d \in Calls : call'[d] = call[d] \/ Aside(d)) /\ ConsumeInv
    BY <1>0, <1>1, <2>2, <2>6, <2>7
  <2> QED BY <1>0, <2>2, <2>8, AsideKeepsConsumeInv
<1>4. CASE \/ Tick \/ UNCHANGED vars
           \/ \E p \in Pods : StartBackgroundSync(p) \/ HandleFXRatesRefresh(p)
  <2>1. /\ UNCHANGED quoteVars /\ call' = call /\ faults' = faults
        /\ now' = now \/ now' = now + 1
    BY <1>4 DEF Tick, vars, StartBackgroundSync, HandleFXRatesRefresh, quoteVars
  <2>2. now' \in Nat /\ now <= now' /\ (\A d \in Calls : call'[d] = call[d] \/ Aside(d)) /\ ConsumeInv
    BY <1>0, <1>1, <2>1
  <2> QED BY <1>0, <2>1, <2>2, AsideKeepsConsumeInv
<1>5. \A p \in Pods : ~Restart(p)
  BY <1>0 DEF Restart
<1> QED BY <1>2, <1>3, <1>4, <1>5 DEF Next

(* Without a fault, a quote that fx_db calls EXECUTED has been converted   *)
(* by some call, or ran out between the two compare-and-sets of            *)
(* ConvertCurrency: no other order of calls uses up a quote for nothing.   *)
THEOREM ExecutedQuotesAreConverted == Spec => []ConsumedIsConverted
<1> DEFINE I == faults = 0 => ConsumeInv
           J == faults = 0 => SpotAlone
<1>1. Init => I
  <2> SUFFICES ASSUME Init PROVE ConsumeInv
    OBVIOUS
  <2>1. \A c \in Calls : call[c].pc = "idle" /\ call[c].q = None /\ call[c].doc = None
    BY DEF Init, Idle
  <2>2. /\ \A q \in Quotes : fxQuotes[q] = None
        /\ \A p \in Pods : \A q \in Quotes : quotesMem[p][q] = None
    BY DEF Init
  <2>3. DocsSound /\ \A q \in Quotes : Owned(q)
    BY <2>1, <2>2 DEF DocsSound, Sound, Owned, IsExecuted
  <2>4. \A c \in Calls : Pending(c) /\ CopyThere(c) /\ Clear(c)
    BY <2>1 DEF Pending, CopyThere, Clear
  <2> QED BY <2>3, <2>4 DEF ConsumeInv
<1>2. FXInv /\ J /\ I /\ [Next]_vars => I'
  <2> SUFFICES ASSUME FXInv, J, I, [Next]_vars, faults' = 0 PROVE ConsumeInv'
    OBVIOUS
  <2>1. faults = 0 => ConsumeInv /\ SpotAlone
    OBVIOUS
  <2> QED BY <2>1, NextKeepsConsumeInv, FXAssumption, NoneAssumption
<1>3. FXInv /\ I => ConsumedIsConverted
  <2> SUFFICES ASSUME FXInv, ConsumeInv, NEW q \in Quotes, IsExecuted(fxQuotes[q]),
                      \A c \in Calls : call[c].q = q => call[c].pc \in {"idle", "done"}
               PROVE  (\E c \in Calls : call[c].q = q /\ call[c].conv # None) \/ Lapsed(fxQuotes[q])
    BY DEF ConsumedIsConverted, IsExecuted
  <2>1. Owned(q)
    BY DEF ConsumeInv
  <2> QED BY <2>1 DEF Owned, Owns
<1>4. Spec => []J
  BY SpotInvariant
<1> HIDE DEF I, J
<1> QED BY <1>1, <1>2, <1>3, <1>4, FXInvariant, PTL DEF Spec
=============================================================================
