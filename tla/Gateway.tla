------------------------------ MODULE Gateway ------------------------------
(***************************************************************************)
(* The API gateway between clients and the two regions of the wallet       *)
(* service, and the failover coordinator that all of them consult          *)
(* (cmd/api-gateway/main.go, middleware.go, pkg/coordinator).  The active  *)
(* target is a document in the database.  Every replica, gateway or wallet *)
(* service, caches it for a second; the gateway uses it to choose a region *)
(* and the wallet service to decide whether it may write (isWritable).     *)
(* Both regions write to the same database.                                *)
(*                                                                         *)
(* All requests are about one wallet; their tokens and bodies are valid.   *)
(* What matters of the wallet's id is whether it is opaque and which       *)
(* subjects it begins with.  Time is counted in ticks and kept as ages.    *)
(***************************************************************************)
EXTENDS Naturals, FiniteSets

CONSTANTS
    Gateways,
    Detached,      \* gateways that fell back to the in-memory coordinator
    Callers,       \* subjects of tokens
    Admins,        \* those with the role admin
    WalletAdmins,  \* those with a scope that verifyWalletAccess takes for it
    KYCAdmins,     \* those with the scope wallet:kyc:admin
    Wallets,       \* what the wallet may be at first: its id, see IDs, and its owner
    Requests,
    Offered,       \* request -> what it may be, see Offers
    TTL,           \* cacheTTL of the coordinator
    ReadTime,      \* bound on one operation of the coordinator on the database
    CallTime,      \* deadline of a call to the wallet service
    MaxFailovers,
    MaxFaults,     \* bound on failed lookups, calls and probes
    None

PRIMARY == "PRIMARY"
STANDBY == "STANDBY"
Roles == {PRIMARY, STANDBY}
Replicas == (Gateways \ Detached) \cup Roles

(* Ticks after which a replica may still act on a target it once read.     *)
Stale == ReadTime + TTL - 1 + CallTime

(* The handlers: whether they write, whether the wallet service checks     *)
(* isWritable first, whose token the gateway accepts, when the service     *)
(* checks it again (before isWritable or after), whether the gateway       *)
(* remembers an owner, and whether it calls the wallet service or the      *)
(* ledger service, which checks nothing.                                   *)
HandleCreateWallet    == [write |-> TRUE,  fenced |-> TRUE,  access |-> "create", checks |-> "never",  remembers |-> TRUE,  routed |-> TRUE]
HandleGetBalance      == [write |-> FALSE, fenced |-> FALSE, access |-> "wallet", checks |-> "before", remembers |-> TRUE,  routed |-> TRUE]
HandleTransfer        == [write |-> TRUE,  fenced |-> TRUE,  access |-> "wallet", checks |-> "after",  remembers |-> FALSE, routed |-> TRUE]
HandleWalletExchange  == [write |-> TRUE,  fenced |-> TRUE,  access |-> "wallet", checks |-> "before", remembers |-> FALSE, routed |-> TRUE]
ExecuteDeposit        == [write |-> TRUE,  fenced |-> TRUE,  access |-> "wallet", checks |-> "before", remembers |-> FALSE, routed |-> TRUE]
ExecuteWithdraw       == [write |-> TRUE,  fenced |-> TRUE,  access |-> "wallet", checks |-> "before", remembers |-> FALSE, routed |-> TRUE]
HandleUpdateWalletKYC == [write |-> TRUE,  fenced |-> FALSE, access |-> "kyc",    checks |-> "never",  remembers |-> FALSE, routed |-> TRUE]
HandleGetWalletLimits == [write |-> FALSE, fenced |-> FALSE, access |-> "wallet", checks |-> "before", remembers |-> FALSE, routed |-> TRUE]
HandleLedger          == [write |-> FALSE, fenced |-> FALSE, access |-> "wallet", checks |-> "never",  remembers |-> FALSE, routed |-> FALSE]

Handlers == {HandleCreateWallet, HandleGetBalance, HandleTransfer, HandleWalletExchange, ExecuteDeposit,
             ExecuteWithdraw, HandleUpdateWalletKYC, HandleGetWalletLimits, HandleLedger}

(* Ids: "named" ones are in the namespace of somebody, "opaque" ones begin *)
(* with wal_ or acc_ or are UUIDs, "system" ones begin with wal- or acc-.  *)
(* A subject that the id begins with, or is equal to, matches it; ids of   *)
(* every kind can have one, such as the subject wal.                       *)
IDs == [kind : {"named", "opaque", "system"}, subjects : SUBSET Callers]

(* A request has a handler, the caller's token, and for a new wallet the   *)
(* owner_id of its body, by default the caller.                            *)
Offers == [handler : Handlers, caller : Callers, owner : Callers]

GatewayConstants ==
    /\ Detached \subseteq Gateways /\ Gateways \cap Roles = {}
    /\ Admins \subseteq Callers /\ Wallets \subseteq IDs \X (Callers \cup {None})
    /\ \A r \in Requests : Offered[r] \subseteq Offers
    /\ TTL \in Nat \ {0} /\ ReadTime \in Nat /\ CallTime \in Nat
    /\ MaxFailovers \in Nat /\ MaxFaults \in Nat
    /\ None \notin Gateways \cup Roles \cup Callers
ASSUME GatewayAssumption == GatewayConstants

Labels == {"new", "access", "probe", "ask", "route", "send", "fence", "apply", "done"}
Served == [pc : Labels, gw : Gateways \cup {None}, role : Roles \cup {None},
           handler : Handlers \cup {None}, caller : Callers \cup {None}, owner : Callers \cup {None},
           found : Roles \cup {None}, age : 0..ReadTime, call : 0..CallTime]
Switches == [gw : Gateways, val : Roles, age : 0..ReadTime]
Answers == {"success", "forbidden", "standby", "error"}

(* None stands for "no switch under way" and "no answer": it is neither.   *)
NoneIsNothing == None \notin Switches \cup Answers
ASSUME NoneAssumption == NoneIsNothing

VARIABLES
    target,     \* the document cluster_routing, None before it exists
    since,      \* role -> ticks since it was the active target, up to Stale + 1
    coord,      \* replica -> its cached target and the ticks it stays valid
    memory,     \* detached gateway -> target of its own coordinator
    switch,     \* failover -> None, or its SetActiveTarget under way
    req,        \* the requests
    answer,     \* request -> what its client was told
    walletID,   \* the id of the wallet
    owner,      \* its owner_id in the database, None before it exists
    owners,     \* gateway -> cached owner of the wallet
    failovers,
    faults

coordVars == <<target, since, coord, memory, switch>>
dataVars == <<walletID, owner>>
vars == <<coordVars, req, answer, owners, dataVars, failovers, faults>>

Unsent == [pc |-> "new", gw |-> None, role |-> None, handler |-> None, caller |-> None, owner |-> None,
           found |-> None, age |-> 0, call |-> 0]
Empty == [val |-> None, left |-> 0]

Init ==
    /\ target = None
    /\ since = [r \in Roles |-> IF r = PRIMARY THEN 0 ELSE Stale + 1]
    /\ coord = [x \in Replicas |-> Empty]
    /\ memory = [g \in Detached |-> PRIMARY]
    /\ switch = [n \in 1..MaxFailovers |-> None]
    /\ req = [r \in Requests |-> Unsent]
    /\ answer = [r \in Requests |-> None]
    /\ owners = [g \in Gateways |-> None]
    /\ \E w \in Wallets : walletID = w[1] /\ owner = w[2]
    /\ failovers = 0 /\ faults = 0

Fail == faults < MaxFaults /\ faults' = faults + 1
Ok == UNCHANGED faults

(* GetActiveTarget takes a missing document for PRIMARY.                   *)
Active == IF target = None THEN PRIMARY ELSE target

-----------------------------------------------------------------------------
Receive(r, g, o) ==
    /\ req[r].pc = "new" /\ o \in Offered[r]
    /\ req' = [req EXCEPT ![r] = [Unsent EXCEPT !.pc = "access", !.gw = g, !.handler = o.handler, !.caller = o.caller,
                                                   !.owner = o.owner]]
    /\ UNCHANGED <<coordVars, answer, owners, dataVars, failovers, faults>>

Finish(r, what) ==
    /\ req' = [req EXCEPT ![r] = [@ EXCEPT !.pc = "done", !.found = None, !.age = 0, !.call = 0]]
    /\ answer' = [answer EXCEPT ![r] = what]

Proceed(r) ==
    req' = [req EXCEPT ![r] = [@ EXCEPT !.pc = IF req[r].handler.routed THEN "route" ELSE "apply", !.call = 0]]

(* The id matches the caller lexically, as the gateway and the wallet      *)
(* service both see it.                                                    *)
Matches(c) == c \in walletID.subjects

(* What the handlers find in the token, in the id and in the ownership     *)
(* cache: ValidateWalletCreationOwnership, verifyWalletAccess with         *)
(* ValidateWalletOwnership, and the check of the KYC handler.              *)
MayAccess(r) ==
    LET h == req[r].handler  c == req[r].caller IN
    \/ c \in Admins
    \/ h.access = "create" /\ req[r].owner = c /\ (Matches(c) \/ walletID.kind = "opaque")
    \/ h.access = "wallet" /\ (c \in WalletAdmins \/ Matches(c) \/ owners[req[r].gw] = c)
    \/ h.access = "kyc" /\ c \in KYCAdmins

(* Plausible error: a cached owner that is not the caller is final.        *)
ProbesUncached(r) ==
    req[r].handler.access = "wallet" /\ walletID.kind # "named" /\ owners[req[r].gw] = None

(* A wallet is looked up with the wallet service unless its id is in a     *)
(* namespace, which by now is a foreign one.                               *)
Probes(r) == req[r].handler.access = "wallet" /\ walletID.kind # "named"

(* verifyWalletAccessByWalletID of the wallet service.                     *)
ServiceAccepts(c) == c \in Admins \/ Matches(c) \/ owner = c

Access(r) ==
    /\ req[r].pc = "access"
    /\ IF MayAccess(r) THEN Proceed(r) /\ UNCHANGED answer
       ELSE IF Probes(r) THEN req' = [req EXCEPT ![r] = [@ EXCEPT !.pc = "probe"]] /\ UNCHANGED answer
       ELSE Finish(r, "forbidden")
    /\ UNCHANGED <<coordVars, owners, dataVars, failovers, faults>>

(* The probe, a GetBalance in the name of the caller.  Its success makes   *)
(* the caller the cached owner; any failure is a refusal.                  *)
Probe(r) ==
    /\ req[r].pc = "ask"
    /\ \/ /\ ServiceAccepts(req[r].caller) /\ owner # None /\ Ok
          /\ owners' = [owners EXCEPT ![req[r].gw] = req[r].caller]
          /\ Proceed(r) /\ UNCHANGED answer
       \/ /\ IF ServiceAccepts(req[r].caller) /\ owner # None THEN Fail ELSE Ok
          /\ Finish(r, "forbidden") /\ UNCHANGED owners
    /\ UNCHANGED <<coordVars, dataVars, failovers>>

(* Entries of the ownership cache expire after five minutes.               *)
ForgetOwner(g) ==
    /\ owners[g] # None
    /\ owners' = [owners EXCEPT ![g] = None]
    /\ UNCHANGED <<coordVars, req, answer, dataVars, failovers, faults>>

-----------------------------------------------------------------------------
(* GetActiveTarget, called by the gateway to choose a region for a probe   *)
(* or a request and by the wallet service from isWritable.                 *)
Looking(r) == req[r].pc \in {"probe", "route", "fence"}
Replica(r) == IF req[r].pc = "fence" THEN req[r].role ELSE req[r].gw

(* The continuation of a lookup.                                           *)
Found(r, pc, role) ==
    /\ req' = [req EXCEPT ![r] = [@ EXCEPT !.pc = pc, !.role = role, !.found = None, !.age = 0]]
    /\ UNCHANGED answer

OrPrimary(t) == IF t = None THEN PRIMARY ELSE t

(* Plausible error: isWritable only ever accepts the primary region.       *)
ResolvePrimaryOnly(r, t) ==
    \/ req[r].pc = "probe" /\ Found(r, "ask", OrPrimary(t))
    \/ req[r].pc = "route" /\ Found(r, "send", OrPrimary(t))
    \/ req[r].pc = "fence" /\ req[r].role = PRIMARY /\ t = PRIMARY /\ Found(r, "apply", t)
    \/ req[r].pc = "fence" /\ (req[r].role # PRIMARY \/ t # PRIMARY) /\ Finish(r, "standby")

(* What is done with the result, None for an error: getActiveWalletClient  *)
(* then takes PRIMARY, isWritable refuses.                                 *)
Resolve(r, t) ==
    \/ req[r].pc = "probe" /\ Found(r, "ask", OrPrimary(t))
    \/ req[r].pc = "route" /\ Found(r, "send", OrPrimary(t))
    \/ req[r].pc = "fence" /\ t = req[r].role /\ Found(r, "apply", t)
    \/ req[r].pc = "fence" /\ t # req[r].role /\ Finish(r, "standby")

FromCache(r) ==
    /\ Looking(r) /\ req[r].found = None
    /\ \/ /\ Replica(r) \in Detached
          /\ Resolve(r, memory[Replica(r)])
       \/ /\ Replica(r) \in Replicas
          /\ coord[Replica(r)].left > 0
          /\ Resolve(r, coord[Replica(r)].val)
    /\ UNCHANGED <<coordVars, owners, dataVars, failovers, faults>>

Find(r) ==
    /\ Looking(r) /\ req[r].found = None
    /\ Replica(r) \in Replicas /\ coord[Replica(r)].left = 0
    /\ \/ /\ Ok /\ UNCHANGED answer
          /\ req' = [req EXCEPT ![r] = [@ EXCEPT !.found = Active, !.age = 0]]
       \/ /\ Fail /\ Resolve(r, None)
    /\ UNCHANGED <<coordVars, owners, dataVars, failovers>>

(* Plausible error: the cache is renewed for twice its time.               *)
UpdateCacheTwice(x, t) == coord' = [coord EXCEPT ![x] = [val |-> t, left |-> 2 * TTL]]

UpdateCache(x, t) == coord' = [coord EXCEPT ![x] = [val |-> t, left |-> TTL]]

(* The value found goes to the cache, whatever was put there meanwhile; a  *)
(* document that was missing is created.                                   *)
Store(r) ==
    /\ Looking(r) /\ req[r].found # None
    /\ UpdateCache(Replica(r), req[r].found)
    /\ target' = Active
    /\ Resolve(r, req[r].found)
    /\ UNCHANGED <<since, memory, switch, owners, dataVars, failovers, faults>>

-----------------------------------------------------------------------------
(* The wallet service lets the caller in, or refuses; a failed lookup of   *)
(* the owner refuses as well.                                              *)
Admits(r) == ServiceAccepts(req[r].caller) /\ Ok
Denies(r) == (IF ServiceAccepts(req[r].caller) THEN Fail ELSE Ok) /\ Finish(r, "forbidden")

(* The call reaches the wallet service, or fails before (an open circuit   *)
(* breaker, no connection).                                                *)
Send(r) ==
    LET h == req[r].handler IN
    /\ req[r].pc = "send"
    /\ \/ /\ IF h.checks = "before" THEN Admits(r) ELSE Ok
          /\ req' = [req EXCEPT ![r] = [@ EXCEPT !.pc = IF h.fenced THEN "fence" ELSE "apply"]]
          /\ UNCHANGED answer
       \/ h.checks = "before" /\ Denies(r)
       \/ Fail /\ Finish(r, "error")
    /\ UNCHANGED <<coordVars, owners, dataVars, failovers>>

(* The service carries the request out: CreateWallet inserts the wallet,   *)
(* or finds that it exists; the others need one.  The ledger is read       *)
(* whether there is a wallet or not.  The answer may be an error or be     *)
(* lost, after CreateWallet has inserted or before.                        *)
Apply(r) ==
    LET h == req[r].handler
        creates == h.access = "create"
        inserted == IF creates /\ owner = None THEN req[r].owner ELSE owner
    IN
    /\ req[r].pc = "apply"
    /\ \/ /\ IF h.checks = "after" THEN Admits(r) ELSE Ok
          /\ IF creates THEN owner = None ELSE h.routed => owner # None
          /\ owner' = inserted
          /\ Finish(r, "success")
          /\ owners' = IF h.remembers
                       THEN [owners EXCEPT ![req[r].gw] = IF creates THEN req[r].owner ELSE req[r].caller]
                       ELSE owners
       \/ /\ h.checks = "after" /\ Denies(r) /\ UNCHANGED <<owner, owners>>
       \/ /\ IF creates THEN owner # None ELSE h.routed /\ owner = None
          /\ Ok /\ Finish(r, "error") /\ UNCHANGED <<owner, owners>>
       \/ /\ Fail /\ Finish(r, "error") /\ owner' \in {owner, inserted} /\ UNCHANGED owners
    /\ UNCHANGED <<coordVars, walletID, failovers>>

Calling(r) == req[r].pc \in {"ask", "send", "fence", "apply"}

(* The deadline of the call, which the wallet service shares.              *)
Expire(r) ==
    /\ Calling(r) /\ req[r].call = CallTime
    /\ Finish(r, IF req[r].pc = "ask" THEN "forbidden" ELSE "error")
    /\ UNCHANGED <<coordVars, owners, dataVars, failovers, faults>>

-----------------------------------------------------------------------------
(* handleFailover: SetActiveTarget writes the document and then the cache. *)
(* The target is the one asked for, or the other one than the gateway      *)
(* believes active, which may be either.  Several may be under way.        *)
Failover(g, t) ==
    /\ failovers < MaxFailovers /\ failovers' = failovers + 1
    /\ IF g \in Detached
       THEN memory' = [memory EXCEPT ![g] = t] /\ UNCHANGED <<target, since, switch>>
       ELSE /\ target' = t
            /\ since' = [since EXCEPT ![t] = 0]
            /\ switch' = [switch EXCEPT ![failovers + 1] = [gw |-> g, val |-> t, age |-> 0]]
            /\ UNCHANGED memory
    /\ UNCHANGED <<coord, req, answer, owners, dataVars, faults>>

(* An error of the update, whose effect is then unknown, skips the cache.  *)
FailoverDone(n) ==
    /\ switch[n] # None
    /\ switch' = [switch EXCEPT ![n] = None]
    /\ \/ Ok /\ UpdateCache(switch[n].gw, switch[n].val)
       \/ Fail /\ UNCHANGED coord
    /\ UNCHANGED <<target, since, memory, req, answer, owners, dataVars, failovers>>

Tick ==
    /\ \A r \in Requests : (req[r].found # None => req[r].age < ReadTime) /\ (Calling(r) => req[r].call < CallTime)
    /\ \A n \in 1..MaxFailovers : switch[n] # None => switch[n].age < ReadTime
    /\ coord' = [x \in Replicas |-> IF coord[x].left <= 1 THEN Empty ELSE [coord[x] EXCEPT !.left = @ - 1]]
    /\ since' = [o \in Roles |-> IF o = Active THEN 0 ELSE IF since[o] > Stale THEN since[o] ELSE since[o] + 1]
    /\ switch' = [n \in 1..MaxFailovers |-> IF switch[n] = None THEN None ELSE [switch[n] EXCEPT !.age = @ + 1]]
    /\ req' = [r \in Requests |-> [req[r] EXCEPT
                  !.age = IF req[r].found # None THEN @ + 1 ELSE @,
                  !.call = IF Calling(r) THEN @ + 1 ELSE @]]
    /\ UNCHANGED <<target, memory, answer, owners, dataVars, failovers, faults>>

RequestStep(r) ==
    \/ \E g \in Gateways, o \in Offered[r] : Receive(r, g, o)
    \/ Access(r) \/ Probe(r) \/ FromCache(r) \/ Find(r) \/ Store(r) \/ Send(r) \/ Apply(r) \/ Expire(r)

Next ==
    \/ \E r \in Requests : RequestStep(r)
    \/ \E g \in Gateways : (\E t \in Roles : Failover(g, t)) \/ ForgetOwner(g)
    \/ \E n \in 1..MaxFailovers : FailoverDone(n)
    \/ Tick

Spec == Init /\ [][Next]_vars

-----------------------------------------------------------------------------
(* Requests, caches and the switch have the shape the code gives them, and *)
(* no cached target outlives its TTL.                                      *)
TypeOK ==
    /\ target \in Roles \cup {None}
    /\ since \in [Roles -> 0..(Stale + 1)]
    /\ coord \in [Replicas -> [val : Roles \cup {None}, left : 0..TTL]]
    /\ memory \in [Detached -> Roles]
    /\ switch \in [1..MaxFailovers -> Switches \cup {None}]
    /\ req \in [Requests -> Served]
    /\ answer \in [Requests -> Answers \cup {None}]
    /\ owners \in [Gateways -> Callers \cup {None}]
    /\ walletID \in IDs /\ owner \in Callers \cup {None}
    /\ failovers \in 0..MaxFailovers /\ faults \in 0..MaxFaults

(* The handlers that check isWritable (every one that writes but the one   *)
(* for the KYC tier) write in a region only for a bounded time after it    *)
(* was the active target: the slow lookup that fills the cache, the life   *)
(* of the entry, and the deadline of the call.  It holds although a slow   *)
(* GetActiveTarget overwrites what a later SetActiveTarget cached,         *)
(* gateways fall back to PRIMARY or to a coordinator of their own, and     *)
(* lookups fail.                                                           *)
FencedWritesFollowTarget ==
    \A r \in Requests :
        req[r].pc = "apply" /\ req[r].handler.fenced => since[req[r].role] <= Stale

RecentFailover == \E o \in Roles : o # Active /\ since[o] <= Stale

(* A write is refused as sent to a standby only while a failover is recent,*)
(* unless a lookup failed or the gateway has lost the shared coordinator.  *)
RefusalsExplained ==
    [][\A r \in Requests :
          answer[r] = None /\ answer'[r] = "standby" =>
              RecentFailover \/ faults' > 0 \/ req[r].gw \in Detached]_vars

(* The ownership cache never decides wrongly, although a balance that an   *)
(* administrator reads makes the administrator the cached owner.  Nobody   *)
(* gets through to the wallet but its owner, those its id begins with and  *)
(* administrators, not even to the ledger, where the gateway's check is    *)
(* the only one.  The owner is refused only after a failed or late lookup, *)
(* or because the id is in somebody else's namespace.                      *)
AccessMatchesOwnership ==
    [][\A r \in Requests :
          LET q == req[r] IN
          q.handler # None /\ q.handler.access = "wallet" /\ answer[r] = None =>
              /\ answer'[r] = "success" => ServiceAccepts(q.caller) \/ q.caller \in WalletAdmins
              /\ answer'[r] = "forbidden" /\ q.caller = owner =>
                    faults' > faults \/ q.call = CallTime \/ (walletID.kind = "named" /\ ~Matches(owner))]_vars

-----------------------------------------------------------------------------
(* Claims of the documentation that the code does not keep; no run expects *)
(* them to hold (README, section 4).                                       *)

(* "Exhaustive Standby Write Fencing": UpdateWalletKYC too "must also      *)
(* strictly verify writability".                                           *)
EveryWriteIsFenced ==
    \A r \in Requests :
        req[r].pc = "apply" /\ req[r].handler.write => since[req[r].role] <= Stale

(* "all gateway replicas immediately synchronize", "ensuring only the      *)
(* promoted active node can execute balance modifications".                *)
OnlyActiveWrites ==
    \A r \in Requests :
        req[r].pc = "apply" /\ req[r].handler.fenced => req[r].role = Active

(* "A subject owns a wallet if" it is an administrator, the id matches it, *)
(* or it is the cached owner: an owner of a wallet is not refused while    *)
(* nothing fails.                                                          *)
OwnersAreAdmitted ==
    [][\A r \in Requests :
          req[r].handler # None /\ req[r].handler.access = "wallet" /\ answer[r] = None
          /\ req[r].caller = owner /\ answer'[r] = "forbidden" =>
              faults' > faults \/ req[r].call = CallTime]_vars
=============================================================================
