--------------------------- MODULE Gateway_proofs ---------------------------
(***************************************************************************)
(* Proofs about Gateway, for any gateways, requests and callers, any TTL   *)
(* of the coordinator's cache and any deadlines.                           *)
(*                                                                         *)
(* The inductive invariant bounds how old a belief about the active target *)
(* can be where it is kept: a value just read or just written is as old as *)
(* the operation on the database (SwitchFine, found in Fine), a cached one *)
(* at most ReadTime plus the part of its TTL that has passed (CoordFine),  *)
(* and what a request acts on at most that plus the time of its call.      *)
(* For the access rules it says who has been let through (LetIn) and who   *)
(* is remembered as an owner (OwnersFine): nobody the wallet service would *)
(* not accept, which stays true because a wallet is never given away.      *)
(***************************************************************************)
EXTENDS Gateway, TLAPS

Belief == ReadTime + TTL - 1

(* What is known of a request q at the step it has reached.                *)
Fine(q) ==
    /\ q.pc # "new" => q.gw \in Gateways /\ q.handler \in Handlers /\ q.caller \in Callers /\ q.owner \in Callers
    /\ q.pc \in {"ask", "send", "fence"} => q.role \in Roles
    /\ q.found # None => since[q.found] <= q.age
    /\ q.pc \in {"send", "fence"} /\ q.gw \notin Detached /\ faults = 0 =>
         since[q.role] <= Belief + q.call
    /\ q.pc = "apply" /\ q.handler.fenced => q.role \in Roles /\ since[q.role] <= Belief + q.call

(* A cached target was active not too long ago, and so was the one that a  *)
(* SetActiveTarget under way has written.                                  *)
CoordFine == \A x \in Replicas : coord[x].left > 0 =>
               coord[x].val \in Roles /\ since[coord[x].val] <= ReadTime + (TTL - coord[x].left)
SwitchFine == \A n \in 1..MaxFailovers : switch[n] # None => since[switch[n].val] <= switch[n].age

(* The active target is active now.                                        *)
ActiveNow == since[Active] = 0

(* Who may reach the wallet: the wallet service accepts the caller, or the *)
(* gateway takes the scope of an administrator.                            *)
Entitled(c) == ServiceAccepts(c) \/ c \in WalletAdmins

(* Whom a request at the step it has reached was let through for.          *)
LetIn(q) ==
    /\ q.pc \in {"route", "send", "fence", "apply"} /\ q.handler.access = "wallet" => Entitled(q.caller)
    /\ q.pc \in {"fence", "apply"} /\ q.handler.checks = "before" => ServiceAccepts(q.caller)
AllLetIn == \A r \in Requests : LetIn(req[r])

(* Nobody is remembered as the owner whom the wallet service refuses.      *)
OwnersFine == \A g \in Gateways : owners[g] # None => ServiceAccepts(owners[g])

GatewayInv ==
    /\ TypeOK /\ CoordFine /\ SwitchFine /\ ActiveNow /\ OwnersFine /\ AllLetIn
    /\ \A r \in Requests : Fine(req[r])

-----------------------------------------------------------------------------
(* What the handlers have in common.                                       *)
LEMMA HandlerFacts ==
    ASSUME NEW h \in Handlers
    PROVE  /\ h.fenced \in BOOLEAN /\ h.routed \in BOOLEAN /\ h.remembers \in BOOLEAN
           /\ h.fenced => h.routed
           /\ h.access \in {"create", "wallet", "kyc"} /\ h.checks \in {"before", "after", "never"}
           /\ h.remembers => h.access = "create" \/ h.checks = "before"
           /\ ~h.routed => h.checks = "never"
<1>1. \/ h = HandleCreateWallet \/ h = HandleGetBalance \/ h = HandleTransfer
      \/ h = HandleWalletExchange \/ h = ExecuteDeposit \/ h = ExecuteWithdraw
      \/ h = HandleUpdateWalletKYC \/ h = HandleGetWalletLimits \/ h = HandleLedger
  BY DEF Handlers
<1>2. CASE h = HandleCreateWallet
  BY <1>2 DEF HandleCreateWallet
<1>3. CASE h = HandleGetBalance
  BY <1>3 DEF HandleGetBalance
<1>4. CASE h = HandleTransfer
  BY <1>4 DEF HandleTransfer
<1>5. CASE h = HandleWalletExchange
  BY <1>5 DEF HandleWalletExchange
<1>6. CASE h = ExecuteDeposit
  BY <1>6 DEF ExecuteDeposit
<1>7. CASE h = ExecuteWithdraw
  BY <1>7 DEF ExecuteWithdraw
<1>8. CASE h = HandleUpdateWalletKYC
  BY <1>8 DEF HandleUpdateWalletKYC
<1>9. CASE h = HandleGetWalletLimits
  BY <1>9 DEF HandleGetWalletLimits
<1>10. CASE h = HandleLedger
  BY <1>10 DEF HandleLedger
<1> QED BY <1>1, <1>2, <1>3, <1>4, <1>5, <1>6, <1>7, <1>8, <1>9, <1>10

(* Wallets are created and never given away.                               *)
Grows == walletID' = walletID /\ (owner # None => owner' = owner)

(* So whom the wallet service accepts it goes on accepting.                *)
LEMMA AcceptedStays ==
    ASSUME GatewayConstants, Grows, NEW c \in Callers, ServiceAccepts(c)
    PROVE  ServiceAccepts(c)'
BY DEF GatewayConstants, Grows, ServiceAccepts, Matches

LEMMA LetInStays ==
    ASSUME GatewayConstants, Grows, NEW q, Fine(q), LetIn(q)
    PROVE  LetIn(q)'
<1>1. q.pc # "new" => q.caller \in Callers
  BY DEF Fine
<1>2. q.pc # "new" /\ ServiceAccepts(q.caller) => ServiceAccepts(q.caller)'
  BY <1>1, AcceptedStays
<1> QED BY <1>2 DEF LetIn, Entitled

(* The state that is not a request's own.                                  *)
StoresOK ==
    /\ target \in Roles \cup {None}
    /\ coord \in [Replicas -> [val : Roles \cup {None}, left : 0..TTL]]
    /\ owners \in [Gateways -> Callers \cup {None}]
    /\ walletID \in IDs /\ owner \in Callers \cup {None}
    /\ CoordFine /\ ActiveNow /\ OwnersFine

(* The invariant gives it.                                                 *)
LEMMA StoresAreOK ==
    ASSUME GatewayInv
    PROVE  StoresOK
BY DEF GatewayInv, TypeOK, StoresOK

(* A step that leaves the stores alone keeps them.                         *)
LEMMA StoresKept ==
    ASSUME GatewayInv, UNCHANGED <<coordVars, owners, dataVars>>
    PROVE  StoresOK'
<1>1. StoresOK
  BY StoresAreOK
<1>2. UNCHANGED <<target, since, coord, owners, walletID, owner>>
  BY DEF coordVars, dataVars
<1>3. CoordFine' /\ ActiveNow' /\ OwnersFine'
  BY <1>1, <1>2 DEF StoresOK, CoordFine, ActiveNow, Active, OwnersFine, ServiceAccepts, Matches
<1> QED BY <1>1, <1>2, <1>3 DEF StoresOK

(* A step of one request, given by what it becomes.                        *)
Becomes(r, q) ==
    /\ req' = [req EXCEPT ![r] = q] /\ q \in Served
    /\ since' = since /\ switch' = switch /\ memory' = memory /\ failovers' = failovers
    /\ faults' \in 0..MaxFaults /\ (faults' = 0 => faults = 0)
    /\ Grows

(* It keeps the invariant if what the request becomes is fine.             *)
LEMMA OneRequest ==
    ASSUME GatewayConstants, GatewayInv, NEW r \in Requests, NEW q, Becomes(r, q), Fine(q)', LetIn(q)', StoresOK',
           answer' \in [Requests -> Answers \cup {None}]
    PROVE  GatewayInv'
<1>1. /\ since \in [Roles -> 0..(Stale + 1)] /\ memory \in [Detached -> Roles]
      /\ switch \in [1..MaxFailovers -> Switches \cup {None}] /\ req \in [Requests -> Served]
      /\ failovers \in 0..MaxFailovers
  BY DEF GatewayInv, TypeOK
<1>2. /\ req' \in [Requests -> Served] /\ req'[r] = q
      /\ \A s \in Requests : s # r => req'[s] = req[s]
  BY <1>1 DEF Becomes
<1>3. TypeOK'
  BY <1>1, <1>2 DEF TypeOK, StoresOK, Becomes
<1>4. SwitchFine'
  BY DEF GatewayInv, SwitchFine, Becomes
<1>5. ASSUME NEW s \in Requests PROVE Fine(req[s])'
  <2>1. CASE s = r
    BY <1>2, <2>1 DEF Fine
  <2>2. CASE s # r
    <3>1. Fine(req[s]) /\ req'[s] = req[s]
      BY <1>2, <2>2 DEF GatewayInv
    <3> QED BY <3>1 DEF Fine, Becomes
  <2> QED BY <2>1, <2>2
<1>6. ASSUME NEW s \in Requests PROVE LetIn(req[s])'
  <2>1. CASE s = r
    BY <1>2, <2>1 DEF LetIn, Entitled, ServiceAccepts, Matches
  <2>2. CASE s # r
    <3>1. PICK o : o = req[s] /\ o = req'[s]
      BY <1>2, <2>2
    <3>2. Fine(o) /\ LetIn(o) /\ Grows
      BY <3>1 DEF GatewayInv, AllLetIn, Becomes
    <3>3. LetIn(o)'
      BY <3>2, LetInStays
    <3> QED BY <3>1, <3>3 DEF LetIn, Entitled, ServiceAccepts, Matches
  <2> QED BY <2>1, <2>2
<1> QED BY <1>3, <1>4, <1>5, <1>6 DEF GatewayInv, AllLetIn, StoresOK

(* The fault counter: a fault is never forgotten.                          *)
LEMMA FaultCount ==
    ASSUME GatewayConstants, GatewayInv, Fail \/ Ok
    PROVE  faults' \in 0..MaxFaults /\ (faults' = 0 => faults = 0) /\ (Fail => faults' # 0 /\ faults' > faults)
BY DEF GatewayConstants, GatewayInv, TypeOK, Fail, Ok

(* A request and what is known of it.                                      *)
LEMMA ThisRequest ==
    ASSUME GatewayInv, NEW r \in Requests
    PROVE  req[r] \in Served /\ Fine(req[r]) /\ LetIn(req[r]) /\ req \in [Requests -> Served]
BY DEF GatewayInv, AllLetIn, TypeOK

(* The end of a request.                                                   *)
LEMMA FinishKeepsInv ==
    ASSUME GatewayConstants, GatewayInv, NEW r \in Requests, NEW what \in Answers, req[r].pc # "new",
           Finish(r, what), since' = since, switch' = switch, memory' = memory, failovers' = failovers,
           Grows, Fail \/ Ok, StoresOK'
    PROVE  GatewayInv'
<1>1. req[r] \in Served /\ Fine(req[r]) /\ req \in [Requests -> Served]
  BY ThisRequest
<1>2. PICK q : q = [req[r] EXCEPT !.pc = "done", !.found = None, !.age = 0, !.call = 0]
  OBVIOUS
<1>3. /\ q \in Served /\ q.pc = "done" /\ q.found = None
      /\ q.gw = req[r].gw /\ q.handler = req[r].handler /\ q.caller = req[r].caller /\ q.owner = req[r].owner
  <2>1. "done" \in Labels /\ 0 \in 0..ReadTime /\ 0 \in 0..CallTime
    BY DEF Labels, GatewayConstants
  <2>2. q \in Served
    BY <1>1, <1>2, <2>1 DEF Served
  <2> QED BY <1>1, <1>2, <2>2 DEF Served
<1>4. req' = [req EXCEPT ![r] = q]
  BY <1>1, <1>2 DEF Finish
<1>5. Becomes(r, q)
  BY <1>3, <1>4, FaultCount DEF Becomes
<1>6. Fine(q)' /\ LetIn(q)'
  BY <1>1, <1>3 DEF Fine, LetIn
<1>7. answer' \in [Requests -> Answers \cup {None}]
  BY DEF Finish, GatewayInv, TypeOK
<1> QED BY <1>5, <1>6, <1>7, OneRequest

(* A request that has been let through goes on to the wallet service or    *)
(* the ledger service.                                                     *)
LEMMA ProceedKeepsInv ==
    ASSUME GatewayConstants, GatewayInv, NEW r \in Requests, req[r].pc \in {"access", "ask"},
           req[r].handler.access = "wallet" => Entitled(req[r].caller), Proceed(r),
           answer' = answer, since' = since, switch' = switch, memory' = memory, failovers' = failovers,
           Grows, Fail \/ Ok, StoresOK'
    PROVE  GatewayInv'
<1>1. req[r] \in Served /\ Fine(req[r]) /\ req \in [Requests -> Served]
  BY ThisRequest
<1>2. /\ req[r].handler \in Handlers /\ req[r].gw \in Gateways /\ req[r].caller \in Callers
      /\ req[r].owner \in Callers
  BY <1>1 DEF Fine
<1>3. /\ req[r].handler.fenced => req[r].handler.routed
      /\ ~req[r].handler.routed => req[r].handler.checks = "never"
  BY <1>2, HandlerFacts
<1>4. PICK l : l = IF req[r].handler.routed THEN "route" ELSE "apply"
  OBVIOUS
<1>5. PICK q : q = [req[r] EXCEPT !.pc = l, !.call = 0]
  OBVIOUS
<1>6. /\ q \in Served /\ q.pc = l /\ q.found = req[r].found /\ q.age = req[r].age
      /\ q.gw = req[r].gw /\ q.handler = req[r].handler /\ q.caller = req[r].caller /\ q.owner = req[r].owner
  <2>1. l \in Labels /\ 0 \in 0..CallTime
    BY <1>4 DEF Labels, GatewayConstants
  <2>2. q \in Served
    BY <1>1, <1>5, <2>1 DEF Served
  <2> QED BY <1>1, <1>5, <2>2 DEF Served
<1>7. req' = [req EXCEPT ![r] = q]
  BY <1>1, <1>4, <1>5 DEF Proceed
<1>8. Becomes(r, q)
  BY <1>6, <1>7, FaultCount DEF Becomes
<1>9. Fine(q)'
  BY <1>1, <1>2, <1>3, <1>4, <1>6 DEF Fine
<1>10. answer' \in [Requests -> Answers \cup {None}]
  BY DEF GatewayInv, TypeOK
<1>11. LetIn(q)'
  <2>1. ServiceAccepts(q.caller) => ServiceAccepts(q.caller)'
    BY <1>2, <1>6, AcceptedStays
  <2>2. q.handler.access = "wallet" => Entitled(q.caller)'
    BY <1>6, <2>1 DEF Entitled
  <2>3. l = "apply" => q.handler.checks = "never"
    BY <1>3, <1>4, <1>6
  <2> QED BY <1>4, <1>6, <2>2, <2>3 DEF LetIn
<1> QED BY <1>8, <1>9, <1>10, <1>11, OneRequest

(* A request arrives.                                                      *)
LEMMA ReceiveKeepsInv ==
    ASSUME GatewayConstants, GatewayInv, NEW r \in Requests, NEW g \in Gateways, NEW o \in Offered[r],
           Receive(r, g, o)
    PROVE  GatewayInv'
<1>1. req \in [Requests -> Served] /\ answer' \in [Requests -> Answers \cup {None}]
  BY DEF Receive, GatewayInv, TypeOK
<1>2. o.handler \in Handlers /\ o.caller \in Callers /\ o.owner \in Callers
  BY DEF GatewayConstants, Offers
<1>3. PICK q : q = [Unsent EXCEPT !.pc = "access", !.gw = g, !.handler = o.handler, !.caller = o.caller,
                                    !.owner = o.owner]
  OBVIOUS
<1>4. /\ q \in Served /\ q.pc = "access" /\ q.found = None
      /\ q.gw = g /\ q.handler = o.handler /\ q.caller = o.caller /\ q.owner = o.owner
  <2>1. "access" \in Labels /\ 0 \in 0..ReadTime /\ 0 \in 0..CallTime
    BY DEF Labels, GatewayConstants
  <2>2. q = [pc |-> "access", gw |-> g, role |-> None, handler |-> o.handler, caller |-> o.caller,
            owner |-> o.owner, found |-> None, age |-> 0, call |-> 0]
    BY <1>3 DEF Unsent
  <2> QED BY <1>2, <2>1, <2>2 DEF Served
<1>5. Becomes(r, q)
  <2>1. Ok
    BY DEF Receive, Ok
  <2>2. faults' \in 0..MaxFaults /\ (faults' = 0 => faults = 0)
    BY <2>1, FaultCount
  <2> QED BY <1>3, <1>4, <2>2 DEF Receive, Becomes, coordVars, dataVars, Grows
<1>6. Fine(q)' /\ LetIn(q)'
  BY <1>2, <1>4 DEF Fine, LetIn
<1>7. StoresOK'
  BY StoresKept DEF Receive
<1> QED BY <1>1, <1>5, <1>6, <1>7, OneRequest

(* The ownership cache and the token decide.                               *)
LEMMA AccessKeepsInv ==
    ASSUME GatewayConstants, GatewayInv, NEW r \in Requests, Access(r)
    PROVE  GatewayInv'
<1>1. req[r] \in Served /\ Fine(req[r]) /\ req \in [Requests -> Served]
  BY ThisRequest
<1>2. req[r].pc = "access"
  BY DEF Access
<1>3. /\ req[r].handler \in Handlers /\ req[r].gw \in Gateways /\ req[r].caller \in Callers
      /\ req[r].owner \in Callers
  BY <1>1, <1>2 DEF Fine
<1>4. /\ since' = since /\ switch' = switch /\ memory' = memory /\ failovers' = failovers
      /\ Ok /\ Grows /\ StoresOK'
  <2>1. UNCHANGED <<coordVars, owners, dataVars, failovers, faults>>
    BY DEF Access
  <2>2. StoresOK'
    BY <2>1, StoresKept
  <2> QED BY <2>1, <2>2 DEF coordVars, dataVars, Grows, Ok
<1>5. CASE MayAccess(r)
  <2>1. Proceed(r) /\ answer' = answer
    BY <1>5 DEF Access
  <2>2. req[r].handler.access = "wallet" => Entitled(req[r].caller)
    <3>1. owners[req[r].gw] = req[r].caller => ServiceAccepts(req[r].caller)
      BY <1>3 DEF GatewayInv, OwnersFine, GatewayConstants
    <3>2. req[r].caller \in Admins \/ Matches(req[r].caller) => ServiceAccepts(req[r].caller)
      BY DEF ServiceAccepts
    <3> QED BY <1>5, <3>1, <3>2 DEF MayAccess, Entitled
  <2> QED BY <1>2, <1>4, <2>1, <2>2, ProceedKeepsInv
<1>6. CASE ~MayAccess(r) /\ Probes(r)
  <2>1. PICK q : q = [req[r] EXCEPT !.pc = "probe"]
    OBVIOUS
  <2>2. req' = [req EXCEPT ![r] = q] /\ answer' = answer
    BY <1>1, <1>6, <2>1 DEF Access
  <2>3. "probe" \in Labels
    BY DEF Labels
  <2>4. q \in Served
    BY <1>1, <2>1, <2>3 DEF Served
  <2>5. /\ q.pc = "probe" /\ q.found = req[r].found /\ q.age = req[r].age
        /\ q.gw = req[r].gw /\ q.handler = req[r].handler /\ q.caller = req[r].caller /\ q.owner = req[r].owner
    BY <1>1, <2>1, <2>4 DEF Served
  <2>6. faults' \in 0..MaxFaults /\ (faults' = 0 => faults = 0)
    BY <1>4, FaultCount
  <2>7. Becomes(r, q)
    BY <1>4, <2>2, <2>4, <2>6 DEF Becomes
  <2>8. Fine(q)' /\ LetIn(q)'
    BY <1>1, <1>3, <1>4, <2>5 DEF Fine, LetIn
  <2>9. answer' \in [Requests -> Answers \cup {None}]
    BY <2>2 DEF GatewayInv, TypeOK
  <2> QED BY <1>4, <2>7, <2>8, <2>9, OneRequest
<1>7. CASE ~MayAccess(r) /\ ~Probes(r)
  <2>1. Finish(r, "forbidden") /\ "forbidden" \in Answers
    BY <1>7 DEF Access, Answers
  <2> QED BY <1>2, <1>4, <2>1, FinishKeepsInv
<1> QED BY <1>5, <1>6, <1>7

(* A probe is answered.                                                    *)
LEMMA ProbeKeepsInv ==
    ASSUME GatewayConstants, GatewayInv, NEW r \in Requests, Probe(r)
    PROVE  GatewayInv'
<1>1. req[r] \in Served /\ Fine(req[r]) /\ req[r].pc = "ask"
  BY ThisRequest DEF Probe
<1>2. req[r].gw \in Gateways /\ req[r].caller \in Callers
  BY <1>1 DEF Fine
<1>3. /\ since' = since /\ switch' = switch /\ memory' = memory /\ failovers' = failovers
      /\ target' = target /\ coord' = coord /\ walletID' = walletID /\ owner' = owner /\ Grows
  BY DEF Probe, coordVars, dataVars, Grows
<1>4. StoresOK
  BY StoresAreOK
<1>5. CASE /\ ServiceAccepts(req[r].caller) /\ owner # None /\ Ok
           /\ owners' = [owners EXCEPT ![req[r].gw] = req[r].caller]
           /\ Proceed(r) /\ UNCHANGED answer
  <2>1. owners' \in [Gateways -> Callers \cup {None}] /\ OwnersFine'
    <3>1. /\ owners' \in [Gateways -> Callers \cup {None}]
          /\ \A g \in Gateways : owners'[g] \in {owners[g], req[r].caller}
      BY <1>2, <1>4, <1>5 DEF StoresOK
    <3>2. \A g \in Gateways : owners'[g] # None => ServiceAccepts(owners'[g])
      BY <1>4, <1>5, <3>1 DEF StoresOK, OwnersFine
    <3> QED BY <1>3, <3>1, <3>2 DEF OwnersFine, ServiceAccepts, Matches
  <2>2. CoordFine' /\ ActiveNow'
    BY <1>3, <1>4 DEF StoresOK, CoordFine, ActiveNow, Active
  <2>3. StoresOK'
    BY <1>3, <1>4, <2>1, <2>2 DEF StoresOK
  <2>4. Entitled(req[r].caller)
    BY <1>5 DEF Entitled
  <2> QED BY <1>1, <1>3, <1>5, <2>3, <2>4, ProceedKeepsInv
<1>6. CASE /\ IF ServiceAccepts(req[r].caller) /\ owner # None THEN Fail ELSE Ok
           /\ Finish(r, "forbidden") /\ UNCHANGED owners
  <2>1. UNCHANGED <<coordVars, owners, dataVars>>
    BY <1>6 DEF Probe
  <2>2. StoresOK'
    BY <2>1, StoresKept
  <2>3. (Fail \/ Ok) /\ "forbidden" \in Answers
    BY <1>6 DEF Answers
  <2> QED BY <1>1, <1>3, <1>6, <2>2, <2>3, FinishKeepsInv
<1> QED BY <1>5, <1>6 DEF Probe

(* What a lookup may hand on: a target that was active recently, unless it *)
(* comes from a coordinator in memory; or nothing, after a fault.          *)
Handed(r, t) ==
    /\ t \in Roles \cup {None}
    /\ t # None /\ Replica(r) \notin Detached => since[t] <= Belief
    /\ t = None => Fail

(* The continuation of a lookup that goes on.                              *)
LEMMA FoundKeepsInv ==
    ASSUME GatewayConstants, GatewayInv, NEW r \in Requests, NEW l, NEW o \in Roles, Found(r, l, o),
           l \in {"ask", "send", "apply"}, req[r].pc \in {"probe", "route", "fence"},
           req[r].pc = "probe" => l = "ask", l = "apply" => req[r].pc = "fence",
           l = "send" /\ req[r].gw \notin Detached /\ faults' = 0 => since[o] <= Belief,
           l = "apply" => since[o] <= Belief,
           since' = since, switch' = switch, memory' = memory, failovers' = failovers,
           Grows, Fail \/ Ok, StoresOK'
    PROVE  GatewayInv'
<1>1. req[r] \in Served /\ Fine(req[r]) /\ LetIn(req[r]) /\ req \in [Requests -> Served]
  BY ThisRequest
<1>2. PICK q : q = [req[r] EXCEPT !.pc = l, !.role = o, !.found = None, !.age = 0]
  OBVIOUS
<1>3. q \in Served
  <2>1. l \in Labels /\ 0 \in 0..ReadTime
    BY DEF Labels, GatewayConstants
  <2> QED BY <1>1, <1>2, <2>1 DEF Served
<1>4. /\ q.pc = l /\ q.role = o /\ q.found = None /\ q.call = req[r].call
      /\ q.gw = req[r].gw /\ q.handler = req[r].handler /\ q.caller = req[r].caller /\ q.owner = req[r].owner
  BY <1>1, <1>2 DEF Served
<1>5. faults' \in 0..MaxFaults /\ (faults' = 0 => faults = 0)
  BY FaultCount
<1>6. Becomes(r, q) /\ answer' \in [Requests -> Answers \cup {None}]
  BY <1>1, <1>2, <1>3, <1>5 DEF Becomes, Found, GatewayInv, TypeOK
<1>7. q.call \in Nat /\ Belief \in Nat /\ since[o] \in Nat
  BY <1>1, <1>4 DEF Served, GatewayConstants, Belief, GatewayInv, TypeOK
<1>8. /\ q.gw \in Gateways /\ q.handler \in Handlers /\ q.caller \in Callers /\ q.owner \in Callers
  BY <1>1, <1>4 DEF Fine
<1>9. /\ l = "send" /\ q.gw \notin Detached /\ faults' = 0 => since[o] <= Belief + q.call
      /\ l = "apply" => since[o] <= Belief + q.call
  BY <1>4, <1>7
<1>10. Fine(q)'
  BY <1>4, <1>8, <1>9 DEF Fine
<1>11. LetIn(q)'
  <2>1. LetIn(q)
    BY <1>1, <1>4 DEF LetIn
  <2>2. ServiceAccepts(q.caller) => ServiceAccepts(q.caller)'
    BY <1>8, AcceptedStays
  <2> QED BY <2>1, <2>2 DEF LetIn, Entitled
<1> QED BY <1>6, <1>10, <1>11, OneRequest

(* A region is not a gateway, so it never falls back to memory.            *)
LEMMA FenceIsShared ==
    ASSUME GatewayConstants, GatewayInv, NEW r \in Requests, req[r].pc = "fence"
    PROVE  req[r].role \in Roles /\ Replica(r) = req[r].role /\ Replica(r) \notin Detached
<1>1. Fine(req[r])
  BY ThisRequest
<1> QED BY <1>1 DEF Fine, Replica, GatewayConstants

(* The continuation of a lookup.                                           *)
LEMMA ResolveKeepsInv ==
    ASSUME GatewayConstants, GatewayInv, NEW r \in Requests, NEW t, Handed(r, t), Resolve(r, t),
           since' = since, switch' = switch, memory' = memory, failovers' = failovers,
           Grows, Fail \/ Ok, StoresOK'
    PROVE  GatewayInv'
<1>1. None \notin Roles /\ PRIMARY \in Roles
  BY DEF GatewayConstants, Roles
<1>2. PICK o : o = OrPrimary(t)
  OBVIOUS
<1>3. o \in Roles /\ (t # None => o = t)
  BY <1>1, <1>2 DEF Handed, OrPrimary
<1>4. t = None => faults' # 0
  BY FaultCount DEF Handed
<1>5. CASE req[r].pc = "probe" /\ Found(r, "ask", OrPrimary(t))
  BY <1>2, <1>3, <1>5, FoundKeepsInv
<1>6. CASE req[r].pc = "route" /\ Found(r, "send", OrPrimary(t))
  <2>1. Replica(r) = req[r].gw
    BY <1>6 DEF Replica
  <2>2. req[r].gw \notin Detached /\ faults' = 0 => since[o] <= Belief
    BY <1>3, <1>4, <2>1 DEF Handed
  <2> QED BY <1>2, <1>3, <1>6, <2>2, FoundKeepsInv
<1>7. CASE req[r].pc = "fence" /\ t = req[r].role /\ Found(r, "apply", t)
  <2>1. t \in Roles /\ Replica(r) \notin Detached
    BY <1>7, FenceIsShared
  <2>2. since[t] <= Belief
    BY <1>1, <2>1 DEF Handed
  <2> QED BY <1>7, <2>1, <2>2, FoundKeepsInv
<1>8. CASE req[r].pc = "fence" /\ t # req[r].role /\ Finish(r, "standby")
  <2>1. "standby" \in Answers /\ req[r].pc # "new"
    BY <1>8 DEF Answers
  <2> QED BY <1>8, <2>1, FinishKeepsInv
<1> QED BY <1>5, <1>6, <1>7, <1>8 DEF Resolve

(* A target from the cache, or from the coordinator in memory.             *)
LEMMA CachedIsHanded ==
    ASSUME GatewayConstants, GatewayInv, NEW r \in Requests, FromCache(r)
    PROVE  \E t : Handed(r, t) /\ Resolve(r, t)
<1>0. None \notin Roles /\ Replicas \cap Detached = {}
  BY DEF GatewayConstants, Replicas
<1>1. CASE Replica(r) \in Detached /\ Resolve(r, memory[Replica(r)])
  <2>1. memory[Replica(r)] \in Roles
    BY <1>1 DEF GatewayInv, TypeOK
  <2> QED BY <1>0, <1>1, <2>1 DEF Handed
<1>2. CASE /\ Replica(r) \in Replicas /\ coord[Replica(r)].left > 0
           /\ Resolve(r, coord[Replica(r)].val)
  <2>1. PICK c : c = coord[Replica(r)]
    OBVIOUS
  <2>2. c.val \in Roles /\ since[c.val] <= ReadTime + (TTL - c.left) /\ c.left > 0
    BY <1>2, <2>1 DEF GatewayInv, CoordFine
  <2>3. c.left \in 0..TTL /\ TTL \in Nat /\ ReadTime \in Nat /\ since[c.val] \in Nat
    BY <1>2, <2>1, <2>2 DEF GatewayInv, TypeOK, GatewayConstants
  <2>4. since[c.val] <= Belief
    BY <2>2, <2>3 DEF Belief
  <2>5. Handed(r, c.val)
    BY <1>0, <2>2, <2>4 DEF Handed
  <2> QED BY <1>2, <2>1, <2>5
<1> QED BY <1>1, <1>2 DEF FromCache

(* A lookup answered from the cache.                                       *)
LEMMA FromCacheKeepsInv ==
    ASSUME GatewayConstants, GatewayInv, NEW r \in Requests, FromCache(r)
    PROVE  GatewayInv'
<1>1. PICK t : Handed(r, t) /\ Resolve(r, t)
  BY CachedIsHanded
<1>2. UNCHANGED <<coordVars, owners, dataVars, failovers, faults>>
  BY DEF FromCache
<1>3. StoresOK'
  BY <1>2, StoresKept
<1>4. since' = since /\ switch' = switch /\ memory' = memory /\ failovers' = failovers /\ Ok /\ Grows
  BY <1>2 DEF coordVars, dataVars, Grows, Ok
<1> QED BY <1>1, <1>3, <1>4, ResolveKeepsInv

(* A lookup in the database.                                               *)
LEMMA FindKeepsInv ==
    ASSUME GatewayConstants, GatewayInv, NEW r \in Requests, Find(r)
    PROVE  GatewayInv'
<1>1. req[r] \in Served /\ Fine(req[r]) /\ LetIn(req[r]) /\ req \in [Requests -> Served]
  BY ThisRequest
<1>2. UNCHANGED <<coordVars, owners, dataVars, failovers>>
  BY DEF Find
<1>3. StoresOK'
  BY <1>2, StoresKept
<1>4. since' = since /\ switch' = switch /\ memory' = memory /\ failovers' = failovers /\ Grows
  BY <1>2 DEF coordVars, dataVars, Grows
<1>5. CASE /\ Ok /\ UNCHANGED answer
           /\ req' = [req EXCEPT ![r] = [@ EXCEPT !.found = Active, !.age = 0]]
  <2>0. Active \in Roles /\ since[Active] = 0
    BY DEF GatewayInv, TypeOK, Active, Roles, ActiveNow
  <2>1. PICK a \in Roles : a = Active
    BY <2>0
  <2>2. PICK q : q = [req[r] EXCEPT !.found = a, !.age = 0]
    OBVIOUS
  <2>3. q \in Served
    <3>1. 0 \in 0..ReadTime
      BY DEF GatewayConstants
    <3> QED BY <1>1, <2>2, <3>1 DEF Served
  <2>4. /\ q.pc = req[r].pc /\ q.role = req[r].role /\ q.found = a /\ q.age = 0 /\ q.call = req[r].call
        /\ q.gw = req[r].gw /\ q.handler = req[r].handler /\ q.caller = req[r].caller /\ q.owner = req[r].owner
    BY <1>1, <2>2 DEF Served
  <2>5. req' = [req EXCEPT ![r] = q]
    BY <1>1, <1>5, <2>1, <2>2
  <2>6. faults' \in 0..MaxFaults /\ (faults' = 0 => faults = 0)
    BY <1>5, FaultCount
  <2>7. Becomes(r, q)
    BY <1>4, <2>3, <2>5, <2>6 DEF Becomes
  <2>8. since[a] <= 0
    BY <2>0, <2>1
  <2>9. Fine(q)'
    BY <1>1, <1>4, <2>4, <2>6, <2>8 DEF Fine
  <2>10. answer' \in [Requests -> Answers \cup {None}]
    BY <1>5 DEF GatewayInv, TypeOK
  <2>11. LetIn(q)'
    <3>1. LetIn(q) /\ Fine(q)
      BY <1>1, <2>4, <2>8 DEF LetIn, Fine
    <3> QED BY <1>4, <3>1, LetInStays
  <2> QED BY <1>3, <2>7, <2>9, <2>10, <2>11, OneRequest
<1>6. CASE Fail /\ Resolve(r, None)
  <2>1. Handed(r, None)
    BY <1>6 DEF Handed
  <2> QED BY <1>3, <1>4, <1>6, <2>1, ResolveKeepsInv
<1> QED BY <1>5, <1>6 DEF Find

(* A cache takes over a target that was active when it was read or written.*)
LEMMA UpdateCacheIsFine ==
    ASSUME GatewayConstants, GatewayInv, NEW x, NEW t \in Roles, since[t] <= ReadTime, UpdateCache(x, t),
           since' = since
    PROVE  coord' \in [Replicas -> [val : Roles \cup {None}, left : 0..TTL]] /\ CoordFine'
<1>1. coord \in [Replicas -> [val : Roles \cup {None}, left : 0..TTL]] /\ CoordFine
  BY DEF GatewayInv, TypeOK
<1>2. PICK e : e = [val |-> t, left |-> TTL]
  OBVIOUS
<1>3. e \in [val : Roles \cup {None}, left : 0..TTL] /\ e.val = t /\ e.left = TTL
  BY <1>2 DEF GatewayConstants
<1>4. coord' = [coord EXCEPT ![x] = e]
  BY <1>2 DEF UpdateCache
<1>5. coord' \in [Replicas -> [val : Roles \cup {None}, left : 0..TTL]]
  BY <1>1, <1>3, <1>4
<1>6. ASSUME NEW y \in Replicas, coord'[y].left > 0
      PROVE  coord'[y].val \in Roles /\ since[coord'[y].val] <= ReadTime + (TTL - coord'[y].left)
  <2>1. CASE y = x
    <3>1. coord'[y] = e
      BY <1>1, <1>4, <2>1
    <3> QED BY <1>3, <3>1 DEF GatewayConstants
  <2>2. CASE y # x
    <3>1. coord'[y] = coord[y]
      BY <1>1, <1>4, <2>2
    <3> QED BY <1>1, <1>6, <3>1 DEF CoordFine
  <2> QED BY <2>1, <2>2
<1> QED BY <1>5, <1>6 DEF CoordFine

(* A target found in the database was active when it was read.             *)
LEMMA FoundIsHanded ==
    ASSUME GatewayConstants, GatewayInv, NEW r \in Requests, Store(r)
    PROVE  \E t \in Roles : t = req[r].found /\ since[t] <= ReadTime /\ Handed(r, t) /\ Resolve(r, t)
<1>1. req[r] \in Served /\ Fine(req[r])
  BY ThisRequest
<1>2. PICK t : t = req[r].found
  OBVIOUS
<1>3. t \in Roles /\ since[t] <= req[r].age /\ req[r].age \in 0..ReadTime
  BY <1>1, <1>2 DEF Store, Fine, Served
<1>4. since[t] \in Nat /\ ReadTime \in Nat /\ TTL \in Nat \ {0} /\ None \notin Roles
  BY <1>3 DEF GatewayInv, TypeOK, GatewayConstants
<1>5. since[t] <= ReadTime /\ since[t] <= Belief
  BY <1>3, <1>4 DEF Belief
<1>6. Handed(r, t) /\ Resolve(r, t)
  BY <1>2, <1>3, <1>4, <1>5 DEF Handed, Store
<1> QED BY <1>2, <1>3, <1>5, <1>6

(* A lookup puts what it found into the cache and goes on.                 *)
LEMMA StoreKeepsInv ==
    ASSUME GatewayConstants, GatewayInv, NEW r \in Requests, Store(r)
    PROVE  GatewayInv'
<1>1. StoresOK
  BY StoresAreOK
<1>2. PICK t \in Roles : t = req[r].found /\ since[t] <= ReadTime /\ Handed(r, t) /\ Resolve(r, t)
  BY FoundIsHanded
<1>3. /\ since' = since /\ switch' = switch /\ memory' = memory /\ failovers' = failovers
      /\ owners' = owners /\ walletID' = walletID /\ owner' = owner /\ Grows /\ Ok
      /\ UpdateCache(Replica(r), t) /\ target' = Active
  BY <1>2 DEF Store, dataVars, Grows, Ok
<1>4. target' \in Roles /\ Active' = target' /\ since[Active] = 0
  BY <1>1, <1>3 DEF Active, StoresOK, ActiveNow, Roles, GatewayConstants
<1>5. coord' \in [Replicas -> [val : Roles \cup {None}, left : 0..TTL]] /\ CoordFine'
  BY <1>2, <1>3, UpdateCacheIsFine
<1>6. ActiveNow' /\ OwnersFine'
  BY <1>1, <1>3, <1>4 DEF ActiveNow, StoresOK, OwnersFine, ServiceAccepts, Matches
<1>7. StoresOK'
  BY <1>1, <1>3, <1>4, <1>5, <1>6 DEF StoresOK
<1> QED BY <1>2, <1>3, <1>7, ResolveKeepsInv

(* The call reaches the wallet service or fails.                           *)
LEMMA SendKeepsInv ==
    ASSUME GatewayConstants, GatewayInv, NEW r \in Requests, Send(r)
    PROVE  GatewayInv'
<1>1. req[r] \in Served /\ Fine(req[r]) /\ LetIn(req[r]) /\ req \in [Requests -> Served] /\ req[r].pc = "send"
  BY ThisRequest DEF Send
<1>2. UNCHANGED <<coordVars, owners, dataVars, failovers>>
  BY DEF Send
<1>3. StoresOK'
  BY <1>2, StoresKept
<1>4. since' = since /\ switch' = switch /\ memory' = memory /\ failovers' = failovers /\ Grows
  BY <1>2 DEF coordVars, dataVars, Grows
<1>5. CASE /\ IF req[r].handler.checks = "before" THEN Admits(r) ELSE Ok
           /\ UNCHANGED answer
           /\ req' = [req EXCEPT ![r] = [@ EXCEPT !.pc = IF req[r].handler.fenced THEN "fence" ELSE "apply"]]
  <2>1. PICK l : l = IF req[r].handler.fenced THEN "fence" ELSE "apply"
    OBVIOUS
  <2>2. PICK q : q = [req[r] EXCEPT !.pc = l]
    OBVIOUS
  <2>3. q \in Served
    <3>1. l \in Labels
      BY <2>1 DEF Labels
    <3> QED BY <1>1, <2>2, <3>1 DEF Served
  <2>4. /\ q.pc = l /\ q.role = req[r].role /\ q.found = req[r].found /\ q.age = req[r].age /\ q.call = req[r].call
        /\ q.gw = req[r].gw /\ q.handler = req[r].handler /\ q.caller = req[r].caller /\ q.owner = req[r].owner
    BY <1>1, <2>2 DEF Served
  <2>5. req' = [req EXCEPT ![r] = q]
    BY <1>1, <1>5, <2>1, <2>2
  <2>6. faults' \in 0..MaxFaults /\ (faults' = 0 => faults = 0)
    <3>1. Ok
      BY <1>5 DEF Admits
    <3> QED BY <3>1, FaultCount
  <2>7. Becomes(r, q)
    BY <1>4, <2>3, <2>5, <2>6 DEF Becomes
  <2>8. Fine(q)'
    BY <1>1, <1>4, <2>1, <2>4, <2>6 DEF Fine
  <2>9. answer' \in [Requests -> Answers \cup {None}]
    BY <1>5 DEF GatewayInv, TypeOK
  <2>10. LetIn(q)'
    <3>1. req[r].handler.checks = "before" => ServiceAccepts(req[r].caller)
      BY <1>5 DEF Admits
    <3>2. LetIn(q)
      BY <1>1, <2>4, <3>1 DEF LetIn
    <3>3. q.caller \in Callers
      BY <1>1, <2>4 DEF Fine
    <3>4. ServiceAccepts(q.caller) => ServiceAccepts(q.caller)'
      BY <1>4, <3>3, AcceptedStays
    <3> QED BY <3>2, <3>4 DEF LetIn, Entitled
  <2> QED BY <1>3, <2>7, <2>8, <2>9, <2>10, OneRequest
<1>6. CASE Denies(r)
  <2>1. (Fail \/ Ok) /\ Finish(r, "forbidden")
    BY <1>6 DEF Denies
  <2>2. "forbidden" \in Answers /\ req[r].pc # "new"
    BY <1>1 DEF Answers
  <2> QED BY <1>3, <1>4, <2>1, <2>2, FinishKeepsInv
<1>7. CASE Fail /\ Finish(r, "error")
  <2>1. "error" \in Answers /\ req[r].pc # "new"
    BY <1>1 DEF Answers
  <2> QED BY <1>3, <1>4, <1>7, <2>1, FinishKeepsInv
<1> QED BY <1>5, <1>6, <1>7 DEF Send

(* The deadline of a call passes.                                          *)
LEMMA ExpireKeepsInv ==
    ASSUME GatewayConstants, GatewayInv, NEW r \in Requests, Expire(r)
    PROVE  GatewayInv'
<1>1. UNCHANGED <<coordVars, owners, dataVars, failovers, faults>>
  BY DEF Expire
<1>2. StoresOK'
  BY <1>1, StoresKept
<1>3. since' = since /\ switch' = switch /\ memory' = memory /\ failovers' = failovers /\ Ok /\ Grows
  BY <1>1 DEF coordVars, dataVars, Grows, Ok
<1>4. PICK a \in Answers : Finish(r, a)
  BY DEF Expire, Answers
<1>5. req[r].pc # "new"
  BY DEF Expire, Calling
<1> QED BY <1>2, <1>3, <1>4, <1>5, FinishKeepsInv

(* What the wallet service does to the stores: the wallet may get an owner,*)
(* and the gateway may remember one that the service accepts.              *)
LEMMA ApplyFacts ==
    ASSUME GatewayConstants, GatewayInv, NEW r \in Requests, Apply(r)
    PROVE  /\ Fail \/ Ok
           /\ \E a \in Answers : Finish(r, a)
           /\ walletID' = walletID
           /\ owner' = owner \/ (owner = None /\ owner' = req[r].owner)
           /\ \/ owners' = owners
              \/ \E c \in Callers : ServiceAccepts(c)' /\ owners' = [owners EXCEPT ![req[r].gw] = c]
<1>1. req[r] \in Served /\ Fine(req[r]) /\ LetIn(req[r]) /\ req[r].pc = "apply"
  BY ThisRequest DEF Apply
<1>2. req[r].handler \in Handlers /\ req[r].caller \in Callers /\ req[r].owner \in Callers
  BY <1>1 DEF Fine
<1>3. /\ req[r].handler.remembers => req[r].handler.access = "create" \/ req[r].handler.checks = "before"
  BY <1>2, HandlerFacts
<1>4. "success" \in Answers /\ "forbidden" \in Answers /\ "error" \in Answers /\ walletID' = walletID
  BY DEF Answers, Apply
<1> DEFINE creates == req[r].handler.access = "create"
           inserted == IF creates /\ owner = None THEN req[r].owner ELSE owner
<1>5. CASE /\ IF req[r].handler.checks = "after" THEN Admits(r) ELSE Ok
           /\ IF creates THEN owner = None ELSE req[r].handler.routed => owner # None
           /\ owner' = inserted
           /\ Finish(r, "success")
           /\ owners' = IF req[r].handler.remembers
                        THEN [owners EXCEPT ![req[r].gw] = IF creates THEN req[r].owner ELSE req[r].caller]
                        ELSE owners
  <2>1. Ok
    BY <1>5 DEF Admits
  <2>2. owner' = owner \/ (owner = None /\ owner' = req[r].owner)
    BY <1>5
  <2>3. CASE ~req[r].handler.remembers
    BY <1>4, <1>5, <2>1, <2>2, <2>3
  <2>4. CASE req[r].handler.remembers /\ creates
    <3>1. owner' = req[r].owner /\ owners' = [owners EXCEPT ![req[r].gw] = req[r].owner]
      BY <1>5, <2>4
    <3>2. PICK c \in Callers : c = req[r].owner
      BY <1>2
    <3>3. ServiceAccepts(c)'
      BY <3>1, <3>2 DEF ServiceAccepts
    <3> QED BY <1>4, <1>5, <2>1, <2>2, <3>1, <3>2, <3>3
  <2>5. CASE req[r].handler.remembers /\ ~creates
    <3>1. PICK c \in Callers : c = req[r].caller
      BY <1>2
    <3>2. ServiceAccepts(c)
      BY <1>1, <1>3, <2>5, <3>1 DEF LetIn
    <3>3. Grows
      BY <1>4, <2>2 DEF Grows
    <3>4. ServiceAccepts(c)'
      BY <3>2, <3>3, AcceptedStays
    <3>5. owners' = [owners EXCEPT ![req[r].gw] = c]
      BY <1>5, <2>5, <3>1
    <3> QED BY <1>4, <1>5, <2>1, <2>2, <3>4, <3>5
  <2> QED BY <2>3, <2>4, <2>5
<1>6. CASE req[r].handler.checks = "after" /\ Denies(r) /\ UNCHANGED <<owner, owners>>
  BY <1>4, <1>6 DEF Denies
<1>7. CASE /\ IF creates THEN owner # None ELSE req[r].handler.routed /\ owner = None
           /\ Ok /\ Finish(r, "error") /\ UNCHANGED <<owner, owners>>
  BY <1>4, <1>7
<1>8. CASE Fail /\ Finish(r, "error") /\ owner' \in {owner, inserted} /\ UNCHANGED owners
  BY <1>4, <1>8
<1> QED BY <1>5, <1>6, <1>7, <1>8 DEF Apply

(* The wallet service carries a request out.                               *)
LEMMA ApplyKeepsInv ==
    ASSUME GatewayConstants, GatewayInv, NEW r \in Requests, Apply(r)
    PROVE  GatewayInv'
<1>1. req[r] \in Served /\ Fine(req[r]) /\ req[r].pc = "apply" /\ StoresOK
  BY ThisRequest, StoresAreOK DEF Apply
<1>2. req[r].gw \in Gateways /\ req[r].owner \in Callers
  BY <1>1 DEF Fine
<1>3. /\ since' = since /\ switch' = switch /\ memory' = memory /\ failovers' = failovers
      /\ target' = target /\ coord' = coord
  BY DEF Apply, coordVars
<1>4. /\ Fail \/ Ok
      /\ walletID' = walletID /\ owner' \in Callers \cup {None} /\ Grows
  BY <1>1, <1>2, ApplyFacts DEF StoresOK, Grows
<1>5. owners' \in [Gateways -> Callers \cup {None}] /\ OwnersFine'
  <2>1. PICK W : W = {c \in Callers : c \in Admins \/ c \in walletID.subjects \/ owner' = c}
    OBVIOUS
  <2>2. \A g \in Gateways : owners[g] # None => owners[g] \in W
    BY <1>1, <1>4, <2>1 DEF StoresOK, OwnersFine, ServiceAccepts, Matches, Grows, GatewayConstants
  <2>3. owners' = owners \/ \E c \in W : owners' = [owners EXCEPT ![req[r].gw] = c]
    BY <1>4, <2>1, ApplyFacts DEF ServiceAccepts, Matches
  <2>4. /\ owners' \in [Gateways -> Callers \cup {None}]
        /\ \A g \in Gateways : owners'[g] # None => owners'[g] \in W
    BY <1>1, <1>2, <2>1, <2>2, <2>3 DEF StoresOK
  <2> QED BY <1>4, <2>1, <2>4 DEF OwnersFine, ServiceAccepts, Matches
<1>6. CoordFine' /\ ActiveNow'
  BY <1>1, <1>3 DEF StoresOK, CoordFine, ActiveNow, Active
<1>7. StoresOK'
  BY <1>1, <1>3, <1>4, <1>5, <1>6 DEF StoresOK
<1>8. PICK a \in Answers : Finish(r, a)
  BY ApplyFacts
<1> QED BY <1>1, <1>3, <1>4, <1>7, <1>8, FinishKeepsInv

(* A cached owner expires.                                                 *)
LEMMA ForgetOwnerKeepsInv ==
    ASSUME GatewayConstants, GatewayInv, NEW g \in Gateways, ForgetOwner(g)
    PROVE  GatewayInv'
<1>1. /\ UNCHANGED <<target, since, coord, memory, switch, req, answer, walletID, owner, failovers, faults>>
      /\ owners' = [owners EXCEPT ![g] = None]
  BY DEF ForgetOwner, coordVars, dataVars
<1>2. TypeOK /\ CoordFine /\ SwitchFine /\ ActiveNow /\ OwnersFine /\ AllLetIn /\ \A r \in Requests : Fine(req[r])
  BY DEF GatewayInv
<1>3. owners' \in [Gateways -> Callers \cup {None}] /\ OwnersFine'
  BY <1>1, <1>2 DEF TypeOK, OwnersFine, ServiceAccepts, Matches
<1>4. TypeOK'
  BY <1>1, <1>2, <1>3 DEF TypeOK
<1>5. CoordFine' /\ SwitchFine' /\ ActiveNow' /\ AllLetIn'
  BY <1>1, <1>2 DEF CoordFine, SwitchFine, ActiveNow, Active, AllLetIn, LetIn, Entitled, ServiceAccepts, Matches
<1>6. ASSUME NEW r \in Requests PROVE Fine(req[r])'
  BY <1>1, <1>2 DEF Fine
<1> QED BY <1>3, <1>4, <1>5, <1>6 DEF GatewayInv

(* An operator switches the active target.                                 *)
LEMMA FailoverKeepsInv ==
    ASSUME GatewayConstants, GatewayInv, NEW g \in Gateways, NEW t \in Roles, Failover(g, t)
    PROVE  GatewayInv'
<1>1. /\ UNCHANGED <<coord, req, answer, owners, walletID, owner, faults>>
      /\ failovers' \in 0..MaxFailovers /\ failovers + 1 \in 1..MaxFailovers
  BY DEF Failover, dataVars, GatewayInv, TypeOK, GatewayConstants
<1>2. TypeOK /\ CoordFine /\ SwitchFine /\ ActiveNow /\ OwnersFine /\ AllLetIn /\ \A r \in Requests : Fine(req[r])
  BY DEF GatewayInv
<1>3. OwnersFine' /\ AllLetIn'
  BY <1>1, <1>2 DEF OwnersFine, AllLetIn, LetIn, Entitled, ServiceAccepts, Matches
<1>4. CASE g \in Detached
  <2>1. memory' = [memory EXCEPT ![g] = t] /\ UNCHANGED <<target, since, switch>>
    BY <1>4 DEF Failover
  <2>2. TypeOK'
    BY <1>1, <1>2, <2>1 DEF TypeOK
  <2>3. CoordFine' /\ SwitchFine' /\ ActiveNow'
    BY <1>1, <1>2, <2>1 DEF CoordFine, SwitchFine, ActiveNow, Active
  <2>4. ASSUME NEW r \in Requests PROVE Fine(req[r])'
    BY <1>1, <1>2, <2>1 DEF Fine
  <2> QED BY <1>3, <2>2, <2>3, <2>4 DEF GatewayInv
<1>5. CASE g \notin Detached
  <2>1. PICK s : s = [gw |-> g, val |-> t, age |-> 0]
    OBVIOUS
  <2>0. PICK n \in 1..MaxFailovers : n = failovers + 1
    BY <1>1
  <2>2. /\ target' = t /\ since' = [since EXCEPT ![t] = 0]
        /\ switch' = [switch EXCEPT ![n] = s] /\ memory' = memory
    BY <1>5, <2>0, <2>1 DEF Failover
  <2>3. s \in Switches /\ s.val = t /\ s.age = 0
    BY <2>1 DEF Switches, GatewayConstants
  <2>4. /\ since \in [Roles -> 0..(Stale + 1)] /\ Stale \in Nat
        /\ since' \in [Roles -> 0..(Stale + 1)]
        /\ since'[t] = 0 /\ \A o \in Roles : since'[o] <= since[o] /\ since[o] \in Nat /\ since'[o] \in Nat
    BY <1>2, <2>2 DEF TypeOK, Stale, GatewayConstants
  <2>5. /\ switch' \in [1..MaxFailovers -> Switches \cup {None}] /\ switch'[n] = s
        /\ \A x \in 1..MaxFailovers : x # n => switch'[x] = switch[x]
    BY <1>2, <2>2, <2>3 DEF TypeOK
  <2>6. TypeOK'
    BY <1>1, <1>2, <2>2, <2>4, <2>5 DEF TypeOK
  <2>7. ActiveNow'
    BY <2>2, <2>4 DEF ActiveNow, Active, GatewayConstants
  <2>8. ASSUME NEW x \in Replicas, coord[x].left > 0
        PROVE  coord[x].val \in Roles /\ since'[coord[x].val] <= ReadTime + (TTL - coord[x].left)
    <3>1. coord[x].val \in Roles /\ since[coord[x].val] <= ReadTime + (TTL - coord[x].left) /\ coord[x].left \in Nat
      BY <1>2, <2>8 DEF CoordFine, TypeOK
    <3> QED BY <2>4, <3>1 DEF GatewayConstants
  <2>9. ASSUME NEW x \in 1..MaxFailovers, switch'[x] # None
        PROVE  since'[switch'[x].val] <= switch'[x].age
    <3>1. CASE x = n
      BY <2>3, <2>4, <2>5, <3>1
    <3>2. CASE x # n
      <4>1. since[switch[x].val] <= switch[x].age /\ switch'[x] = switch[x] /\ switch[x] \in Switches
        BY <1>2, <2>5, <2>9, <3>2 DEF SwitchFine, TypeOK
      <4>2. switch[x].val \in Roles /\ switch[x].age \in Nat
        BY <4>1 DEF Switches
      <4> QED BY <2>4, <4>1, <4>2
    <3> QED BY <3>1, <3>2
  <2>10. CoordFine' /\ SwitchFine'
    BY <1>1, <2>8, <2>9 DEF CoordFine, SwitchFine
  <2>11. ASSUME NEW r \in Requests PROVE Fine(req[r])'
    <3>1. PICK q \in Served : q = req[r] /\ Fine(q)
      BY <1>2, ThisRequest
    <3>2. /\ q.found \in Roles \cup {None} /\ q.age \in Nat /\ q.call \in Nat /\ Belief \in Nat
      BY <3>1 DEF Served, Belief, GatewayConstants
    <3>3. q.found # None => since'[q.found] <= q.age
      BY <2>4, <3>1, <3>2 DEF Fine
    <3>4. /\ q.pc \in {"send", "fence"} /\ q.gw \notin Detached /\ faults = 0 => since'[q.role] <= Belief + q.call
          /\ q.pc = "apply" /\ q.handler.fenced => q.role \in Roles /\ since'[q.role] <= Belief + q.call
      BY <2>4, <3>1, <3>2 DEF Fine
    <3>5. Fine(q)'
      BY <1>1, <3>1, <3>3, <3>4 DEF Fine
    <3> QED BY <1>1, <3>1, <3>5
  <2> QED BY <1>3, <2>6, <2>7, <2>10, <2>11 DEF GatewayInv
<1> QED BY <1>4, <1>5

(* SetActiveTarget returns and updates the cache of its gateway, or fails. *)
LEMMA FailoverDoneKeepsInv ==
    ASSUME GatewayConstants, NoneIsNothing, GatewayInv, NEW n \in 1..MaxFailovers, FailoverDone(n)
    PROVE  GatewayInv'
<1>1. /\ UNCHANGED <<target, since, memory, req, answer, owners, walletID, owner, failovers>>
      /\ switch' = [switch EXCEPT ![n] = None] /\ switch[n] # None
  BY DEF FailoverDone, dataVars
<1>2. TypeOK /\ CoordFine /\ SwitchFine /\ ActiveNow /\ OwnersFine /\ AllLetIn /\ \A r \in Requests : Fine(req[r])
  BY DEF GatewayInv
<1>3. faults' \in 0..MaxFaults /\ (faults' = 0 => faults = 0)
  <2>1. Fail \/ Ok
    BY DEF FailoverDone
  <2> QED BY <2>1, FaultCount
<1>4. coord' \in [Replicas -> [val : Roles \cup {None}, left : 0..TTL]] /\ CoordFine'
  <2>1. CASE Ok /\ UpdateCache(switch[n].gw, switch[n].val)
    <3>1. switch[n].val \in Roles /\ switch[n].age \in 0..ReadTime /\ since[switch[n].val] <= switch[n].age
      BY <1>1, <1>2 DEF TypeOK, Switches, SwitchFine
    <3>2. since[switch[n].val] <= ReadTime
      BY <1>2, <3>1 DEF TypeOK, GatewayConstants
    <3>3. PICK t \in Roles : t = switch[n].val
      BY <3>1
    <3>4. UpdateCache(switch[n].gw, t) /\ since[t] <= ReadTime
      BY <2>1, <3>2, <3>3
    <3> QED BY <1>1, <3>4, UpdateCacheIsFine
  <2>2. CASE Fail /\ UNCHANGED coord
    BY <1>1, <1>2, <2>2 DEF TypeOK, CoordFine
  <2> QED BY <2>1, <2>2 DEF FailoverDone
<1>5. /\ switch' \in [1..MaxFailovers -> Switches \cup {None}]
      /\ \A x \in 1..MaxFailovers : switch'[x] # None => switch'[x] = switch[x]
  BY <1>1, <1>2 DEF TypeOK
<1>6. TypeOK'
  BY <1>1, <1>2, <1>3, <1>4, <1>5 DEF TypeOK
<1>7. SwitchFine'
  BY <1>1, <1>2, <1>5 DEF SwitchFine
<1>8. ActiveNow' /\ OwnersFine' /\ AllLetIn'
  BY <1>1, <1>2 DEF ActiveNow, Active, OwnersFine, AllLetIn, LetIn, Entitled, ServiceAccepts, Matches
<1>9. ASSUME NEW r \in Requests PROVE Fine(req[r])'
  BY <1>1, <1>2, <1>3 DEF Fine
<1> QED BY <1>4, <1>6, <1>7, <1>8, <1>9 DEF GatewayInv

(* Time passes: every age grows by at most one, and so does the age of     *)
(* every belief.                                                           *)
LEMMA TickKeepsInv ==
    ASSUME GatewayConstants, NoneIsNothing, GatewayInv, Tick
    PROVE  GatewayInv'
<1>1. /\ UNCHANGED <<target, memory, answer, owners, walletID, owner, failovers, faults>>
      /\ coord' = [x \in Replicas |-> IF coord[x].left <= 1 THEN Empty ELSE [coord[x] EXCEPT !.left = @ - 1]]
      /\ since' = [o \in Roles |-> IF o = Active THEN 0 ELSE IF since[o] > Stale THEN since[o] ELSE since[o] + 1]
      /\ switch' = [n \in 1..MaxFailovers |-> IF switch[n] = None THEN None ELSE [switch[n] EXCEPT !.age = @ + 1]]
  BY DEF Tick, dataVars
<1>2. TypeOK /\ CoordFine /\ SwitchFine /\ OwnersFine /\ AllLetIn /\ \A r \in Requests : Fine(req[r])
  BY DEF GatewayInv
<1>3. /\ TTL \in Nat \ {0} /\ ReadTime \in Nat /\ CallTime \in Nat /\ Stale \in Nat /\ Belief \in Nat
      /\ None \notin Roles
  BY DEF GatewayConstants, Stale, Belief
<1>4. Active \in Roles /\ Active' = Active
  BY <1>1, <1>2 DEF Active, TypeOK, Roles
<1>5. \A o \in Roles : since[o] \in Nat /\ since[o] <= Stale + 1
  BY <1>2, <1>3 DEF TypeOK
<1>6. /\ since' \in [Roles -> 0..(Stale + 1)] /\ since'[Active] = 0
      /\ \A o \in Roles : since'[o] \in Nat /\ since'[o] <= since[o] + 1
  BY <1>1, <1>3, <1>4, <1>5
<1>7. ASSUME NEW x \in Replicas
      PROVE  /\ coord'[x] \in [val : Roles \cup {None}, left : 0..TTL]
             /\ coord'[x].left > 0 => /\ coord'[x].val \in Roles
                                      /\ since'[coord'[x].val] <= ReadTime + (TTL - coord'[x].left)
  <2>1. PICK c \in [val : Roles \cup {None}, left : 0..TTL] : c = coord[x]
    BY <1>2 DEF TypeOK
  <2>2. c.left \in 0..TTL /\ c.val \in Roles \cup {None}
    OBVIOUS
  <2>3. CASE c.left <= 1
    <3>1. coord'[x] = [val |-> None, left |-> 0]
      BY <1>1, <2>1, <2>3 DEF Empty
    <3> QED BY <1>3, <3>1
  <2>4. CASE ~(c.left <= 1)
    <3>1. PICK d : d = [c EXCEPT !.left = @ - 1]
      OBVIOUS
    <3>2. coord'[x] = d
      BY <1>1, <2>1, <2>4, <3>1
    <3>3. d.val = c.val /\ d.left = c.left - 1 /\ d \in [val : Roles \cup {None}, left : 0..TTL]
      <4>1. c.left - 1 \in 0..TTL
        BY <1>3, <2>2, <2>4
      <4> QED BY <2>1, <3>1, <4>1
    <3>4. c.val \in Roles /\ since[c.val] <= ReadTime + (TTL - c.left)
      BY <1>2, <1>3, <2>1, <2>2, <2>4 DEF CoordFine
    <3>5. since'[c.val] <= ReadTime + (TTL - (c.left - 1))
      BY <1>3, <1>5, <1>6, <2>2, <3>4
    <3> QED BY <3>2, <3>3, <3>4, <3>5
  <2> QED BY <2>3, <2>4
<1>8. coord' \in [Replicas -> [val : Roles \cup {None}, left : 0..TTL]] /\ CoordFine'
  <2>1. coord' \in [Replicas -> [val : Roles \cup {None}, left : 0..TTL]]
    BY <1>1, <1>7
  <2> QED BY <1>7, <2>1 DEF CoordFine
<1>9. ASSUME NEW g \in 1..MaxFailovers
      PROVE  /\ switch'[g] \in Switches \cup {None}
             /\ switch'[g] # None => since'[switch'[g].val] <= switch'[g].age
  <2>1. CASE switch[g] = None
    BY <1>1, <2>1
  <2>2. CASE switch[g] # None
    <3>1. PICK s \in Switches : s = switch[g]
      BY <1>2, <2>2 DEF TypeOK
    <3>2. s.val \in Roles /\ s.age \in 0..ReadTime /\ since[s.val] <= s.age /\ s.age < ReadTime
      BY <1>2, <2>2, <3>1 DEF Switches, SwitchFine, Tick
    <3>3. PICK n : n = [s EXCEPT !.age = @ + 1]
      OBVIOUS
    <3>4. switch'[g] = n
      BY <1>1, <2>2, <3>1, <3>3
    <3>5. n.val = s.val /\ n.age = s.age + 1 /\ n \in Switches
      <4>1. s.age + 1 \in 0..ReadTime
        BY <1>3, <3>2
      <4> QED BY <3>1, <3>3, <4>1 DEF Switches
    <3> QED BY <1>3, <1>5, <1>6, <3>2, <3>4, <3>5
  <2> QED BY <2>1, <2>2
<1>10. switch' \in [1..MaxFailovers -> Switches \cup {None}] /\ SwitchFine'
  <2>1. switch' \in [1..MaxFailovers -> Switches \cup {None}]
    BY <1>1, <1>9
  <2> QED BY <1>9, <2>1 DEF SwitchFine
<1>11. ASSUME NEW r \in Requests
       PROVE  /\ req'[r] \in Served /\ Fine(req[r])'
              /\ req'[r].pc = req[r].pc /\ req'[r].handler = req[r].handler /\ req'[r].caller = req[r].caller
  <2>1. PICK q \in Served : q = req[r]
    BY ThisRequest
  <2> DEFINE a == IF q.found # None THEN q.age + 1 ELSE q.age
             k == IF q.pc \in {"ask", "send", "fence", "apply"} THEN q.call + 1 ELSE q.call
  <2>2. q.found \in Roles \cup {None} /\ q.age \in 0..ReadTime /\ q.call \in 0..CallTime
    BY DEF Served
  <2>3. /\ q.found # None => q.age < ReadTime
        /\ q.pc \in {"ask", "send", "fence", "apply"} => q.call < CallTime
    BY <2>1 DEF Tick, Calling
  <2>4. a \in 0..ReadTime /\ k \in 0..CallTime /\ k >= q.call
    BY <1>3, <2>2, <2>3
  <2>5. PICK n : n = [q EXCEPT !.age = a, !.call = k]
    OBVIOUS
  <2>6. req'[r] = n
    BY <2>1, <2>5 DEF Tick, Calling
  <2>7. Fine(q)
    BY <1>2, <2>1
  <2>8. /\ q.found # None => a = q.age + 1
        /\ q.pc \in {"send", "fence", "apply"} => k = q.call + 1
    OBVIOUS
  <2> HIDE DEF a, k
  <2>9. n \in Served
    BY <2>4, <2>5 DEF Served
  <2>10. /\ n.pc = q.pc /\ n.role = q.role /\ n.found = q.found /\ n.age = a /\ n.call = k
         /\ n.gw = q.gw /\ n.handler = q.handler /\ n.caller = q.caller /\ n.owner = q.owner
    BY <2>5 DEF Served
  <2>11. q.found # None => since'[q.found] <= a
    <3>1. q.found # None => since[q.found] <= q.age
      BY <2>7 DEF Fine
    <3> QED BY <1>5, <1>6, <2>2, <2>8, <3>1
  <2>12. ASSUME q.pc \in {"send", "fence"}, q.gw \notin Detached, faults = 0
         PROVE  since'[q.role] <= Belief + k
    <3>1. q.role \in Roles /\ since[q.role] <= Belief + q.call
      BY <2>7, <2>12 DEF Fine
    <3> QED BY <1>3, <1>5, <1>6, <2>2, <2>8, <2>12, <3>1
  <2>13. ASSUME q.pc = "apply", q.handler.fenced
         PROVE  q.role \in Roles /\ since'[q.role] <= Belief + k
    <3>1. q.role \in Roles /\ since[q.role] <= Belief + q.call
      BY <2>7, <2>13 DEF Fine
    <3> QED BY <1>3, <1>5, <1>6, <2>2, <2>8, <2>13, <3>1
  <2>14. Fine(n)'
    BY <1>1, <2>7, <2>10, <2>11, <2>12, <2>13 DEF Fine
  <2> QED BY <2>1, <2>6, <2>9, <2>10, <2>14
<1>12. req' \in [Requests -> Served]
  BY <1>11 DEF Tick
<1>13. TypeOK'
  BY <1>1, <1>2, <1>6, <1>8, <1>10, <1>12 DEF TypeOK
<1>14. ActiveNow' /\ OwnersFine' /\ AllLetIn'
  <2>1. ActiveNow' /\ OwnersFine'
    BY <1>1, <1>2, <1>4, <1>6 DEF ActiveNow, OwnersFine, ServiceAccepts, Matches
  <2>2. ASSUME NEW r \in Requests PROVE LetIn(req[r])'
    BY <1>1, <1>2, <1>11 DEF AllLetIn, LetIn, Entitled, ServiceAccepts, Matches
  <2> QED BY <2>1, <2>2 DEF AllLetIn
<1> QED BY <1>8, <1>10, <1>11, <1>13, <1>14 DEF GatewayInv

(* The first state.                                                        *)
LEMMA InitFine ==
    ASSUME GatewayConstants, Init
    PROVE  GatewayInv
<1>1. Stale \in Nat /\ TTL \in Nat /\ ReadTime \in Nat /\ CallTime \in Nat /\ None \notin Roles
  BY DEF GatewayConstants, Stale
<1>2. Unsent \in Served
  BY <1>1 DEF Unsent, Served, Labels
<1>3. Empty \in [val : Roles \cup {None}, left : 0..TTL] /\ Empty.left = 0
  BY <1>1 DEF Empty
<1>4. Unsent.pc = "new" /\ Unsent.found = None
  BY DEF Unsent
<1>5. since \in [Roles -> 0..(Stale + 1)] /\ since[PRIMARY] = 0
  BY <1>1 DEF Init, Roles
<1>0. walletID \in IDs /\ owner \in Callers \cup {None}
  BY DEF Init, GatewayConstants
<1>6. TypeOK
  BY <1>0, <1>1, <1>2, <1>3, <1>5 DEF Init, TypeOK, Roles, GatewayConstants
<1>7. CoordFine /\ SwitchFine /\ OwnersFine /\ AllLetIn
  BY <1>1, <1>3, <1>4 DEF Init, CoordFine, SwitchFine, OwnersFine, AllLetIn, LetIn
<1>8. ActiveNow
  BY <1>5 DEF Init, ActiveNow, Active
<1>9. ASSUME NEW r \in Requests PROVE Fine(req[r])
  <2>1. req[r] = Unsent
    BY DEF Init
  <2> QED BY <1>4, <2>1 DEF Fine
<1> QED BY <1>6, <1>7, <1>8, <1>9 DEF GatewayInv

(* Every step keeps the invariant.                                         *)
LEMMA NextKeepsInv ==
    ASSUME GatewayConstants, NoneIsNothing, GatewayInv, [Next]_vars
    PROVE  GatewayInv'
<1>1. ASSUME NEW r \in Requests, RequestStep(r) PROVE GatewayInv'
  BY <1>1, ReceiveKeepsInv, AccessKeepsInv, ProbeKeepsInv, FromCacheKeepsInv, FindKeepsInv, StoreKeepsInv,
     SendKeepsInv, ApplyKeepsInv, ExpireKeepsInv DEF RequestStep
<1>2. ASSUME NEW g \in Gateways, (\E t \in Roles : Failover(g, t)) \/ ForgetOwner(g)
      PROVE  GatewayInv'
  BY <1>2, FailoverKeepsInv, ForgetOwnerKeepsInv
<1>4. ASSUME NEW n \in 1..MaxFailovers, FailoverDone(n) PROVE GatewayInv'
  BY <1>4, FailoverDoneKeepsInv
<1>3. CASE UNCHANGED vars
  <2>1. UNCHANGED <<target, since, coord, memory, switch, req, answer, owners, walletID, owner, failovers, faults>>
    BY <1>3 DEF vars, coordVars, dataVars
  <2>2. TypeOK /\ CoordFine /\ SwitchFine /\ ActiveNow /\ OwnersFine /\ AllLetIn /\ \A r \in Requests : Fine(req[r])
    BY DEF GatewayInv
  <2>3. TypeOK' /\ CoordFine' /\ SwitchFine' /\ ActiveNow' /\ OwnersFine' /\ AllLetIn'
    BY <2>1, <2>2 DEF TypeOK, CoordFine, SwitchFine, ActiveNow, Active, OwnersFine, AllLetIn, LetIn, Entitled,
                      ServiceAccepts, Matches
  <2>4. ASSUME NEW r \in Requests PROVE Fine(req[r])'
    BY <2>1, <2>2 DEF Fine
  <2> QED BY <2>3, <2>4 DEF GatewayInv
<1> QED BY <1>1, <1>2, <1>3, <1>4, TickKeepsInv DEF Next

-----------------------------------------------------------------------------
(* The invariant holds throughout.                                         *)
THEOREM GatewayInvariant == Spec => []GatewayInv
<1>1. Init => GatewayInv
  BY InitFine, GatewayAssumption
<1>2. GatewayInv /\ [Next]_vars => GatewayInv'
  BY NextKeepsInv, GatewayAssumption, NoneAssumption
<1> QED BY <1>1, <1>2, PTL DEF Spec

(* Requests, caches and switches keep their shape, and no cached target    *)
(* outlives its TTL (pkg/coordinator).                                     *)
THEOREM TypeCorrect == Spec => []TypeOK
<1>1. GatewayInv => TypeOK
  BY DEF GatewayInv
<1> QED BY <1>1, GatewayInvariant, PTL

(* A region carries out a fenced write only if it was the active target    *)
(* within Stale ticks: one slow lookup, the rest of a cached entry's life  *)
(* and the deadline of the call (isWritable, GetActiveTarget).             *)
THEOREM WritesAlwaysFollowTarget == Spec => []FencedWritesFollowTarget
<1>1. ASSUME GatewayInv PROVE FencedWritesFollowTarget
  <2> SUFFICES ASSUME NEW r \in Requests, req[r].pc = "apply", req[r].handler.fenced
               PROVE  since[req[r].role] <= Stale
    BY DEF FencedWritesFollowTarget
  <2>1. req[r].role \in Roles /\ since[req[r].role] <= Belief + req[r].call /\ req[r].call \in 0..CallTime
    BY <1>1, ThisRequest DEF Fine, Served
  <2>2. since[req[r].role] \in Nat /\ TTL \in Nat \ {0} /\ ReadTime \in Nat /\ CallTime \in Nat
    BY <1>1, <2>1, GatewayAssumption DEF GatewayInv, TypeOK, GatewayConstants
  <2> QED BY <2>1, <2>2 DEF Belief, Stale
<1> QED BY <1>1, GatewayInvariant, PTL

-----------------------------------------------------------------------------
(* What a step tells a client, by the code that tells it.                  *)
LEMMA WhoAnswers ==
    ASSUME GatewayInv, Next, NEW r \in Requests, answer[r] = None, answer'[r] # None
    PROVE  \/ Access(r) /\ ~MayAccess(r) /\ ~Probes(r) /\ answer'[r] = "forbidden"
           \/ /\ Probe(r) /\ answer'[r] = "forbidden"
              /\ IF ServiceAccepts(req[r].caller) /\ owner # None THEN Fail ELSE Ok
           \/ (FromCache(r) \/ Find(r) \/ Store(r)) /\ answer'[r] = "standby"
           \/ Send(r) /\ answer'[r] = "error"
           \/ /\ Send(r) \/ Apply(r)
              /\ answer'[r] = "forbidden" /\ (IF ServiceAccepts(req[r].caller) THEN Fail ELSE Ok)
           \/ Apply(r) /\ answer'[r] \in {"success", "error"}
           \/ Expire(r) /\ answer'[r] = IF req[r].pc = "ask" THEN "forbidden" ELSE "error"
<1>1. answer \in [Requests -> Answers \cup {None}]
  BY DEF GatewayInv, TypeOK
<1>2. ASSUME NEW s \in Requests, NEW a, Finish(s, a)
      PROVE  (s = r => answer'[r] = a) /\ (s # r => answer'[r] = answer[r])
  BY <1>1, <1>2 DEF Finish
<1>3. ASSUME NEW s \in Requests, NEW t, Resolve(s, t)
      PROVE  s = r /\ answer'[r] = "standby"
  BY <1>2, <1>3 DEF Resolve, Found
<1>4. answer' # answer
  OBVIOUS
<1>5. PICK s \in Requests : RequestStep(s)
  BY <1>4 DEF Next, Failover, FailoverDone, ForgetOwner, Tick
<1>6. ~(\E g \in Gateways, o \in Offered[s] : Receive(s, g, o))
  BY <1>4 DEF Receive
<1>7. CASE Access(s)
  BY <1>2, <1>4, <1>7 DEF Access
<1>8. CASE Probe(s)
  BY <1>2, <1>4, <1>8 DEF Probe
<1>9. CASE FromCache(s)
  BY <1>3, <1>9 DEF FromCache
<1>10. CASE Find(s)
  BY <1>3, <1>4, <1>10 DEF Find
<1>11. CASE Store(s)
  BY <1>3, <1>11 DEF Store
<1>12. CASE Send(s)
  BY <1>2, <1>4, <1>12 DEF Send, Denies
<1>13. CASE Apply(s)
  <2>1. \/ Finish(s, "success") \/ Finish(s, "error")
        \/ Finish(s, "forbidden") /\ (IF ServiceAccepts(req[s].caller) THEN Fail ELSE Ok)
    BY <1>13 DEF Apply, Denies
  <2> QED BY <1>2, <1>4, <1>13, <2>1
<1>14. CASE Expire(s)
  BY <1>2, <1>4, <1>14 DEF Expire
<1> QED BY <1>5, <1>6, <1>7, <1>8, <1>9, <1>10, <1>11, <1>12, <1>13, <1>14 DEF RequestStep

(* A region that refuses a write holds a target that was active recently,  *)
(* or its lookup failed.                                                   *)
LEMMA StandbyWasTold ==
    ASSUME GatewayConstants, NoneIsNothing, GatewayInv, NEW r \in Requests, FromCache(r) \/ Find(r) \/ Store(r),
           answer[r] = None, answer'[r] = "standby"
    PROVE  /\ req[r].pc = "fence"
           /\ Fail \/ \E t \in Roles : t # req[r].role /\ since[t] <= Belief
<1>1. answer' # answer /\ None \notin Roles
  BY DEF NoneIsNothing, Answers, GatewayConstants
<1>2. ASSUME NEW t, Handed(r, t), Resolve(r, t)
      PROVE  /\ req[r].pc = "fence"
             /\ Fail \/ \E o \in Roles : o # req[r].role /\ since[o] <= Belief
  <2>1. req[r].pc = "fence" /\ t # req[r].role
    BY <1>1, <1>2 DEF Resolve, Found
  <2>2. Replica(r) \notin Detached
    BY <2>1, FenceIsShared
  <2> QED BY <1>2, <2>1, <2>2 DEF Handed
<1>3. CASE FromCache(r)
  BY <1>2, <1>3, CachedIsHanded
<1>4. CASE Find(r)
  <2>1. Fail /\ Resolve(r, None)
    BY <1>1, <1>4 DEF Find
  <2> QED BY <1>2, <2>1 DEF Handed
<1>5. CASE Store(r)
  BY <1>2, <1>5, FoundIsHanded
<1> QED BY <1>3, <1>4, <1>5

(* A refusal as a standby is explained, step by step.                      *)
LEMMA RefusalStep ==
    ASSUME GatewayConstants, NoneIsNothing, GatewayInv, Next, NEW r \in Requests,
           answer[r] = None, answer'[r] = "standby", ~(faults' > 0), req[r].gw \notin Detached
    PROVE  RecentFailover
<1>1. FromCache(r) \/ Find(r) \/ Store(r)
  <2>1. None # "standby"
    BY DEF NoneIsNothing, Answers
  <2> QED BY <2>1, WhoAnswers
<1>2. Fail \/ Ok
  BY <1>1 DEF FromCache, Find, Store, Ok
<1>3. faults' \in 0..MaxFaults /\ (faults' = 0 => faults = 0) /\ (Fail => faults' # 0)
  BY <1>2, FaultCount
<1>4. faults' = 0 /\ faults = 0 /\ ~Fail
  BY <1>3 DEF GatewayConstants
<1>5. req[r].pc = "fence"
  BY <1>1, StandbyWasTold
<1>6. PICK t \in Roles : t # req[r].role /\ since[t] <= Belief
  BY <1>1, <1>4, StandbyWasTold
<1>7. req[r].role \in Roles /\ since[req[r].role] <= Belief + req[r].call /\ req[r].call \in 0..CallTime
  BY <1>4, <1>5, ThisRequest DEF Fine, Served
<1>8. \A o \in Roles : since[o] \in Nat
  BY DEF GatewayInv, TypeOK
<1>9. since[t] <= Stale /\ since[req[r].role] <= Stale
  BY <1>6, <1>7, <1>8 DEF Belief, Stale, GatewayConstants
<1>10. t # Active \/ req[r].role # Active
  BY <1>6
<1> QED BY <1>7, <1>9, <1>10 DEF RecentFailover

(* A write is refused as sent to a standby only within Stale ticks of a    *)
(* failover, after a fault, or through a gateway that has lost the shared  *)
(* coordinator (isWritable).                                               *)
THEOREM RefusalsAlwaysExplained == Spec => RefusalsExplained
<1>1. ASSUME GatewayInv, Next, NEW r \in Requests, answer[r] = None, answer'[r] = "standby"
      PROVE  RecentFailover \/ faults' > 0 \/ req[r].gw \in Detached
  BY <1>1, RefusalStep, GatewayAssumption, NoneAssumption
<1>2. GatewayInv /\ [Next]_vars =>
        [\A r \in Requests : answer[r] = None /\ answer'[r] = "standby" =>
            RecentFailover \/ faults' > 0 \/ req[r].gw \in Detached]_vars
  BY <1>1
<1> QED BY <1>2, GatewayInvariant, PTL DEF Spec, RefusalsExplained

(* Only the owner of a wallet, those its id begins with and administrators *)
(* get an answer about it, and the owner is refused only after a failed or *)
(* late lookup or because the id is in a foreign namespace                 *)
(* (verifyWalletAccess, the ownership cache, the wallet service).          *)
THEOREM AccessAlwaysMatches == Spec => AccessMatchesOwnership
<1> DEFINE Right(r) ==
             LET q == req[r] IN
             q.handler # None /\ q.handler.access = "wallet" /\ answer[r] = None =>
                 /\ answer'[r] = "success" => ServiceAccepts(q.caller) \/ q.caller \in WalletAdmins
                 /\ answer'[r] = "forbidden" /\ q.caller = owner =>
                       faults' > faults \/ q.call = CallTime \/ (walletID.kind = "named" /\ ~Matches(owner))
<1>1. ASSUME GatewayInv, Next, NEW r \in Requests PROVE Right(r)
  <2>0. None # "forbidden" /\ None # "success"
    BY NoneAssumption DEF NoneIsNothing, Answers
  <2>1. ASSUME answer[r] = None, answer'[r] = "forbidden", req[r].caller = owner, req[r].handler.access = "wallet"
        PROVE  faults' > faults \/ req[r].call = CallTime \/ (walletID.kind = "named" /\ ~Matches(owner))
    <3>1. \/ Access(r) /\ ~MayAccess(r) /\ ~Probes(r)
          \/ Probe(r) /\ (IF ServiceAccepts(req[r].caller) /\ owner # None THEN Fail ELSE Ok)
          \/ (Send(r) \/ Apply(r)) /\ (IF ServiceAccepts(req[r].caller) THEN Fail ELSE Ok)
          \/ Expire(r)
      BY <1>1, <2>0, <2>1, WhoAnswers
    <3>2. CASE Access(r) /\ ~MayAccess(r) /\ ~Probes(r)
      BY <2>1, <3>2 DEF MayAccess, Probes
    <3>3. ServiceAccepts(req[r].caller)
      BY <2>1 DEF ServiceAccepts
    <3>4. CASE Probe(r) /\ (IF ServiceAccepts(req[r].caller) /\ owner # None THEN Fail ELSE Ok)
      <4>1. req[r].caller \in Callers
        BY <1>1, <3>4, ThisRequest DEF Probe, Fine
      <4>2. owner # None
        BY <2>1, <4>1, GatewayAssumption DEF GatewayConstants
      <4>3. Fail
        BY <3>3, <3>4, <4>2
      <4> QED BY <1>1, <4>3, FaultCount, GatewayAssumption
    <3>5. CASE (Send(r) \/ Apply(r)) /\ (IF ServiceAccepts(req[r].caller) THEN Fail ELSE Ok)
      BY <1>1, <3>3, <3>5, FaultCount, GatewayAssumption
    <3>6. CASE Expire(r)
      BY <3>6 DEF Expire
    <3> QED BY <3>1, <3>2, <3>4, <3>5, <3>6
  <2>2. ASSUME answer[r] = None, answer'[r] = "success", req[r].handler.access = "wallet"
        PROVE  ServiceAccepts(req[r].caller) \/ req[r].caller \in WalletAdmins
    <3>1. Apply(r)
      BY <1>1, <2>0, <2>2, WhoAnswers
    <3> QED BY <1>1, <2>2, <3>1, ThisRequest DEF Apply, LetIn, Entitled
  <2> QED BY <2>1, <2>2
<1>2. GatewayInv /\ [Next]_vars => [\A r \in Requests : Right(r)]_vars
  BY <1>1
<1> QED BY <1>2, GatewayInvariant, PTL DEF Spec, AccessMatchesOwnership
=============================================================================
