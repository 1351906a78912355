---------------------------- MODULE BalanceCache ----------------------------
(***************************************************************************)
(* Cached balances of the wallet service (cmd/wallet-service/cache.go,     *)
(* pkg/cache): every pod has a map in memory (L1), all share Redis (L2),   *)
(* and a fanout exchange tells the pods which wallets to forget.           *)
(* GetBalance reads L1, L2, then MongoDB, filling what it passed on the    *)
(* way back; a movement commits and then invalidates L1, L2 and, over the  *)
(* bus, the other pods.  Nothing orders one against the other.             *)
(*                                                                         *)
(* A balance is the number of movements the wallet has seen.  Times are    *)
(* kept relative to the present: how long an entry has left, how long a    *)
(* call has held a balance, how long ago a balance was replaced.           *)
(***************************************************************************)
EXTENDS Integers, Sequences, FiniteSets

CONSTANTS
    Pods, Wallets, Calls,
    Requests,    \* call -> the set of [op, pod, w] it may be
    MaxEntries,  \* capacity of L1
    TTL,         \* life of an entry, in L1 and in L2
    Pause,       \* longest time a call keeps a balance before it stores it
    MaxFaults,   \* bound on failures of Redis and of the bus, and on restarts
    None

CacheConstants ==
    /\ MaxEntries \in Nat \ {0} /\ TTL \in Nat /\ Pause \in Nat
    /\ MaxFaults \in Nat
    /\ IsFiniteSet(Calls) /\ IsFiniteSet(Wallets)
    /\ \A c \in Calls : \A r \in Requests[c] : r.op \in {"READ", "WRITE"} /\ r.pod \in Pods /\ r.w \in Wallets

ASSUME CacheAssumption == CacheConstants

Versions == 0..Cardinality(Calls)
Bound == 2 * TTL + 2 * Pause    \* see StalenessBounded
CacheEntries == [v : Versions, left : -1..TTL]

(* None is nothing else.                                                   *)
NoneIsNothing ==
    /\ None \notin Nat /\ None \notin CacheEntries
    /\ \A c \in Calls : None \notin Requests[c]

ASSUME NoneAssumption == NoneIsNothing

VARIABLES
    version,     \* the balance in MongoDB
    replaced,    \* wallet -> version -> ticks since the next one was committed
    l1,          \* pod -> wallet -> None or [v, left]; left = -1 has expired
    l2,          \* wallet -> None or [v, left]
    queue,       \* pod -> undelivered messages [w, origin]
    subscribed,  \* pod -> is its consumer running?
    call,
    raced,       \* wallets that were read while they were being invalidated
    faults

dbVars == <<version, replaced>>
busVars == <<queue, subscribed>>
vars == <<dbVars, l1, l2, busVars, call, raced, faults>>

Idle == [pc |-> "idle", req |-> None, v |-> None, held |-> 0]

Init ==
    /\ version = [w \in Wallets |-> 0]
    /\ replaced = [w \in Wallets |-> [v \in Versions |-> 0]]
    /\ l1 = [p \in Pods |-> [w \in Wallets |-> None]]
    /\ l2 = [w \in Wallets |-> None]
    /\ queue = [p \in Pods |-> << >>]
    /\ subscribed = [p \in Pods |-> TRUE]
    /\ call = [c \in Calls |-> Idle]
    /\ raced = {}
    /\ faults = 0

Fail == faults < MaxFaults /\ faults' = faults + 1
Ok == UNCHANGED faults
P(c) == call[c].req.pod
W(c) == call[c].req.w
Goto(c, l) == call' = [call EXCEPT ![c] = [@ EXCEPT !.pc = l]]
Got(c, v, l) == call' = [call EXCEPT ![c] = [@ EXCEPT !.v = v, !.held = 0, !.pc = l]]
Finished == [Idle EXCEPT !.pc = "done"]
Return(c) == call' = [call EXCEPT ![c] = Finished]
Valid(e) == e # None /\ e.left >= 0

Reading(w) == {c \in Calls : call[c].req # None /\ W(c) = w /\ call[c].pc \in {"l2", "backfill", "db", "set1", "set2"}}
Invalidating(w) ==
    \/ \E c \in Calls : call[c].req # None /\ W(c) = w /\ call[c].pc \in {"local", "redis", "publish"}
    \/ \E p \in Pods : \E i \in 1..Len(queue[p]) : queue[p][i].w = w

Begin(c, r) ==
    /\ call[c].pc = "idle"
    /\ call' = [call EXCEPT ![c] = [@ EXCEPT !.req = r, !.pc = IF r.op = "READ" THEN "l1" ELSE "commit"]]
    /\ UNCHANGED <<dbVars, l1, l2, busVars, raced, faults>>

-----------------------------------------------------------------------------
(* BalanceCache.Get and GetBalance.  A read is noted as raced when the     *)
(* wallet is being invalidated anywhere.                                   *)
NoteRead(c) == raced' = raced \cup (IF Invalidating(W(c)) THEN {W(c)} ELSE {})

GetL1(c) ==
    LET e == l1[P(c)][W(c)] IN
    /\ call[c].pc = "l1"
    /\ IF Valid(e)
       THEN Return(c) /\ UNCHANGED <<l1, raced>>
       ELSE /\ l1' = [l1 EXCEPT ![P(c)] = [@ EXCEPT ![W(c)] = None]]     \* pruned lazily
            /\ Goto(c, "l2")
            /\ NoteRead(c)
    /\ UNCHANGED <<dbVars, l2, busVars, faults>>

GetL2(c) ==
    /\ call[c].pc = "l2"
    /\ \/ Ok /\ Valid(l2[W(c)]) /\ Got(c, l2[W(c)].v, "backfill")
       \/ (IF Valid(l2[W(c)]) THEN Fail ELSE Ok) /\ Goto(c, "db")
    /\ UNCHANGED <<dbVars, l1, l2, busVars, raced>>

ReadDB(c) ==
    /\ call[c].pc = "db"
    /\ Got(c, version[W(c)], "set1")
    /\ UNCHANGED <<dbVars, l1, l2, busVars, raced, faults>>

(* A failed read is answered with an error and caches nothing.             *)
ReadDBFails(c) ==
    /\ call[c].pc = "db" /\ Fail
    /\ Return(c)
    /\ UNCHANGED <<dbVars, l1, l2, busVars, raced>>

(* evictOneLocked: an expired entry if there is one, else any.             *)
Evictable(m) ==
    LET held == {w \in Wallets : m[w] # None}
        old == {w \in held : ~Valid(m[w])}
    IN IF old # {} THEN old ELSE held

(* Plausible errors: capacity is not looked at; a unit slip in the TTL.    *)
FullNever(m, w) == FALSE
EntryDoubled(v) == [v |-> v, left |-> 2 * TTL]

(* A full L1 makes room for a wallet it does not hold; the new entry gets  *)
(* a full TTL, also when the balance comes from L2.                        *)
Full(m, w) == m[w] = None /\ Cardinality({x \in Wallets : m[x] # None}) >= MaxEntries
Entry(v) == [v |-> v, left |-> TTL]

SetLocal(c) ==
    LET m == l1[P(c)]
        room == IF Full(m, W(c)) THEN {[m EXCEPT ![x] = None] : x \in Evictable(m)} ELSE {m}
    IN
    /\ call[c].pc \in {"backfill", "set1"}
    /\ \E f \in room : l1' = [l1 EXCEPT ![P(c)] = [f EXCEPT ![W(c)] = Entry(call[c].v)]]
    /\ IF call[c].pc = "backfill" THEN Return(c) ELSE Goto(c, "set2")
    /\ UNCHANGED <<dbVars, l2, busVars, raced, faults>>

SetL2(c) ==
    /\ call[c].pc = "set2"
    /\ \/ Ok /\ l2' = [l2 EXCEPT ![W(c)] = Entry(call[c].v)]
       \/ Fail /\ UNCHANGED l2
    /\ Return(c)
    /\ UNCHANGED <<dbVars, l1, busVars, raced>>

-----------------------------------------------------------------------------
(* A movement commits and then calls Invalidate.                           *)
Commit(c) ==
    LET w == W(c) IN
    /\ call[c].pc = "commit"
    /\ version' = [version EXCEPT ![w] = @ + 1]
    /\ replaced' = [replaced EXCEPT ![w] = [@ EXCEPT ![version[w]] = 0]]
    /\ raced' = raced \cup (IF Reading(w) # {} \/ Invalidating(w) THEN {w} ELSE {})
    /\ Goto(c, "local")
    /\ UNCHANGED <<l1, l2, busVars, faults>>

InvalidateLocal(c) ==
    /\ call[c].pc = "local"
    /\ l1' = [l1 EXCEPT ![P(c)] = [@ EXCEPT ![W(c)] = None]]
    /\ Goto(c, "redis")
    /\ UNCHANGED <<dbVars, l2, busVars, raced, faults>>

InvalidateL2(c) ==
    /\ call[c].pc = "redis"
    /\ \/ Ok /\ l2' = [l2 EXCEPT ![W(c)] = None]
       \/ Fail /\ UNCHANGED l2
    /\ Goto(c, "publish")
    /\ UNCHANGED <<dbVars, l1, busVars, raced>>

(* The exchange copies the message to the queue of every pod that is       *)
(* subscribed, the sender's own included.                                  *)
PublishInvalidation(c) ==
    /\ call[c].pc = "publish"
    /\ \/ /\ Ok
          /\ queue' = [p \in Pods |->
                IF subscribed[p] THEN Append(queue[p], [w |-> W(c), origin |-> P(c)]) ELSE queue[p]]
       \/ Fail /\ UNCHANGED queue
    /\ Return(c)
    /\ UNCHANGED <<dbVars, l1, l2, subscribed, raced>>

(* Plausible error: echo suppression the wrong way round.                  *)
DeliverOwnOnly(p) ==
    /\ subscribed[p] /\ queue[p] # << >>
    /\ LET m == Head(queue[p]) IN
       l1' = IF m.origin # p THEN l1 ELSE [l1 EXCEPT ![p] = [@ EXCEPT ![m.w] = None]]
    /\ queue' = [queue EXCEPT ![p] = Tail(@)]
    /\ UNCHANGED <<dbVars, l2, subscribed, call, raced, faults>>

(* The consumer of Subscribe; echo suppression drops a pod's own message.  *)
Deliver(p) ==
    /\ subscribed[p] /\ queue[p] # << >>
    /\ LET m == Head(queue[p]) IN
       l1' = IF m.origin = p THEN l1 ELSE [l1 EXCEPT ![p] = [@ EXCEPT ![m.w] = None]]
    /\ queue' = [queue EXCEPT ![p] = Tail(@)]
    /\ UNCHANGED <<dbVars, l2, subscribed, call, raced, faults>>

(* The connection drops: the exclusive queue goes with it, the consumer    *)
(* returns and nobody subscribes again.                                    *)
LoseSubscription(p) ==
    /\ subscribed[p] /\ Fail
    /\ subscribed' = [subscribed EXCEPT ![p] = FALSE]
    /\ queue' = [queue EXCEPT ![p] = << >>]
    /\ UNCHANGED <<dbVars, l1, l2, call, raced>>

(* A pod restarts with an empty L1 and a new subscription; the calls it    *)
(* served are gone, possibly between commit and invalidation.              *)
Restart(p) ==
    /\ Fail
    /\ l1' = [l1 EXCEPT ![p] = [w \in Wallets |-> None]]
    /\ subscribed' = [subscribed EXCEPT ![p] = TRUE]
    /\ queue' = [queue EXCEPT ![p] = << >>]
    /\ call' = [c \in Calls |-> IF call[c].pc \notin {"idle", "done"} /\ P(c) = p
                                THEN Finished ELSE call[c]]
    /\ UNCHANGED <<dbVars, l2, raced>>

Cleanup(p) ==
    LET old == {w \in Wallets : l1[p][w] # None /\ ~Valid(l1[p][w])} IN
    /\ old # {}
    /\ l1' = [l1 EXCEPT ![p] = [w \in Wallets |-> IF w \in old THEN None ELSE @[w]]]
    /\ UNCHANGED <<dbVars, l2, busVars, call, raced, faults>>

(* One tick: entries age, Redis drops what has expired (external), and no  *)
(* call holds a balance for longer than Pause.                             *)
Aged(e) == IF e = None \/ e.left < 0 THEN e ELSE [e EXCEPT !.left = @ - 1]
Holding == {c \in Calls : call[c].pc \in {"backfill", "set1", "set2"}}

Tick ==
    /\ \A c \in Holding : call[c].held < Pause
    /\ l1' = [p \in Pods |-> [w \in Wallets |-> Aged(l1[p][w])]]
    /\ l2' = [w \in Wallets |-> IF Valid(Aged(l2[w])) THEN Aged(l2[w]) ELSE None]
    /\ call' = [c \in Calls |-> IF c \in Holding THEN [call[c] EXCEPT !.held = @ + 1] ELSE call[c]]
    /\ replaced' = [w \in Wallets |-> [v \in Versions |->
                       IF v < version[w] /\ replaced[w][v] <= Bound THEN replaced[w][v] + 1
                       ELSE replaced[w][v]]]
    /\ UNCHANGED <<version, busVars, raced, faults>>

CallStep(c) ==
    \/ GetL1(c) \/ GetL2(c) \/ ReadDB(c) \/ ReadDBFails(c) \/ SetLocal(c) \/ SetL2(c)
    \/ Commit(c) \/ InvalidateLocal(c) \/ InvalidateL2(c) \/ PublishInvalidation(c)

Next ==
    \/ Tick
    \/ \E c \in Calls : CallStep(c) \/ \E r \in Requests[c] : Begin(c, r)
    \/ \E p \in Pods : Deliver(p) \/ LoseSubscription(p) \/ Restart(p) \/ Cleanup(p)

Spec == Init /\ [][Next]_vars

-----------------------------------------------------------------------------
Entries == CacheEntries \cup {None}
Labels == {"idle", "l1", "l2", "backfill", "db", "set1", "set2", "commit", "local", "redis", "publish", "done"}
CallStates == [pc : Labels, req : (UNION {Requests[c] : c \in Calls}) \cup {None},
               v : Versions \cup {None}, held : 0..Pause]

(* Entries, messages and calls have the shape the code gives them, and an  *)
(* L1 never holds more than MaxEntries wallets.                            *)
TypeOK ==
    /\ faults \in 0..MaxFaults
    /\ version \in [Wallets -> Versions]
    /\ replaced \in [Wallets -> [Versions -> 0..(Bound + 1)]]
    /\ l1 \in [Pods -> [Wallets -> Entries]] /\ l2 \in [Wallets -> Entries]
    /\ \A p \in Pods : Cardinality({w \in Wallets : l1[p][w] # None}) <= MaxEntries
    /\ queue \in [Pods -> Seq([w : Wallets, origin : Pods])]
    /\ call \in [Calls -> CallStates]
    /\ subscribed \in [Pods -> BOOLEAN]
    /\ raced \subseteq Wallets

(* What GetBalance of wallet w may answer at once: the copies in the pods  *)
(* and what running calls are about to return.                             *)
Served(w) ==
    {l1[p][w].v : p \in {q \in Pods : Valid(l1[q][w])}} \cup
    {call[c].v : c \in {d \in Holding : W(d) = w}}

(* GetBalance never reports a balance that was replaced longer ago than    *)
(* two TTLs and two pauses, whatever fails and whoever races: an old value *)
(* can live a TTL in Redis and, copied from there, another one in a pod.   *)
StalenessBounded ==
    \A w \in Wallets : \A v \in Served(w) : v < version[w] => replaced[w][v] <= Bound

(* Invalidate reaches every copy: without a fault, and unless a read was   *)
(* under way while the wallet was committed or invalidated, no cache keeps *)
(* an old balance once the bus is drained.                                 *)
CoherentWithoutRaces ==
    \A w \in Wallets :
        (faults = 0 /\ w \notin raced /\ ~Invalidating(w)) =>
            /\ Valid(l2[w]) => l2[w].v = version[w]
            /\ \A p \in Pods : Valid(l1[p][w]) => l1[p][w].v = version[w]
=============================================================================
