------------------------ MODULE BalanceCache_proofs ------------------------
(***************************************************************************)
(* Proofs about BalanceCache, for any finite sets of calls and wallets,    *)
(* any pods, TTL, pause and capacity.                                      *)
(*                                                                         *)
(* CacheInv says what a call holds at each step.  AgeInv bounds how old a  *)
(* balance can be where it is kept: in the hands of a call, in Redis, in a *)
(* pod.  CoherenceInv says who will remove a copy that is out of date.     *)
(***************************************************************************)
EXTENDS BalanceCache, FiniteSetTheorems, TLAPS

(* A call under way has a request; one that is about to store a balance    *)
(* has read one, which is not ahead of the database.                       *)
Stage(q) ==
    /\ q.pc = "idle" => q.req = None
    /\ q.pc \notin {"idle", "done"} => q.req # None
    /\ q.pc \in {"backfill", "set1", "set2"} => q.v \in Versions

(* A movement commits once.                                                *)
Past == {c \in Calls : call[c].pc \notin {"idle", "commit"}}
CommitsCounted == \A w \in Wallets : version[w] <= Cardinality(Past)

CacheInv == TypeOK /\ CommitsCounted /\ \A c \in Calls : Stage(call[c])

-----------------------------------------------------------------------------
(* Version v of wallet w was current until at most a ticks ago.            *)
NotOlder(w, v, a) == v <= version[w] /\ (v < version[w] => replaced[w][v] <= a)

(* From the database: as old as it is held; from Redis: what it was there, *)
(* and the time it is held.                                                *)
CallAge(c) ==
    /\ call[c].pc \in {"set1", "set2"} => NotOlder(W(c), call[c].v, call[c].held)
    /\ call[c].pc = "backfill" => NotOlder(W(c), call[c].v, Pause + TTL + call[c].held)

(* In Redis for the part of its TTL that has passed; in a pod, perhaps     *)
(* copied from Redis at its end.                                           *)
L2Age(w) == Valid(l2[w]) => NotOlder(w, l2[w].v, Pause + TTL - l2[w].left)
L1Age(p, w) == Valid(l1[p][w]) => NotOlder(w, l1[p][w].v, 2 * Pause + TTL + TTL - l1[p][w].left)

AgeInv ==
    /\ \A c \in Calls : CallAge(c)
    /\ \A w \in Wallets : L2Age(w)
    /\ \A p \in Pods : \A w \in Wallets : L1Age(p, w)

-----------------------------------------------------------------------------
Stale(e, w) == Valid(e) /\ e.v # version[w]
Writer(c, w) == call[c].req # None /\ W(c) = w

(* Without faults, and as long as no read of w ran into an invalidation,   *)
(* somebody is on the way to every stale copy, and calls hold no stale     *)
(* balance.                                                                *)
WillForget(p, w) ==
    \/ \E c \in Calls : Writer(c, w) /\ call[c].pc = "local"
    \/ \E c \in Calls : Writer(c, w) /\ call[c].pc \in {"redis", "publish"} /\ P(c) # p
    \/ \E i \in 1..Len(queue[p]) : queue[p][i].w = w /\ queue[p][i].origin # p

Coherent(w) ==
    /\ \A p \in Pods : Stale(l1[p][w], w) => WillForget(p, w)
    /\ Stale(l2[w], w) => \E c \in Calls : Writer(c, w) /\ call[c].pc \in {"local", "redis"}
    /\ \A c \in Holding : Writer(c, w) => call[c].v = version[w]
    /\ Reading(w) = {} \/ ~Invalidating(w)

CoherenceInv ==
    faults = 0 => /\ \A p \in Pods : subscribed[p]
                  /\ \A w \in Wallets : w \notin raced => Coherent(w)

-----------------------------------------------------------------------------
(* The state that is not a call's own.                                     *)
StoresOK ==
    /\ version \in [Wallets -> Versions]
    /\ replaced \in [Wallets -> [Versions -> 0..(Bound + 1)]]
    /\ l1 \in [Pods -> [Wallets -> Entries]] /\ l2 \in [Wallets -> Entries]
    /\ \A p \in Pods : Cardinality({w \in Wallets : l1[p][w] # None}) <= MaxEntries
    /\ queue \in [Pods -> Seq([w : Wallets, origin : Pods])]
    /\ subscribed \in [Pods -> BOOLEAN]
    /\ raced \subseteq Wallets

(* The invariant gives it.                                                 *)
LEMMA StoresAreOK ==
    ASSUME CacheInv
    PROVE  StoresOK
BY DEF CacheInv, TypeOK, StoresOK

(* Subsets of the calls, and of the wallets, can be counted.               *)
LEMMA CountCalls ==
    ASSUME NEW S, NEW T, S \subseteq T, T \subseteq Calls
    PROVE  Cardinality(S) \in Nat /\ Cardinality(T) \in Nat /\ Cardinality(S) <= Cardinality(T)
<1>1. IsFiniteSet(T)
  BY CacheAssumption, FS_Subset DEF CacheConstants
<1> QED BY <1>1, FS_Subset, FS_CardinalityType

(* The same for wallets.                                                   *)
LEMMA CountWallets ==
    ASSUME NEW S, NEW T, S \subseteq T, T \subseteq Wallets
    PROVE  /\ Cardinality(S) \in Nat /\ Cardinality(T) \in Nat /\ Cardinality(S) <= Cardinality(T)
           /\ IsFiniteSet(S) /\ IsFiniteSet(T)
<1>1. IsFiniteSet(T)
  BY CacheAssumption, FS_Subset DEF CacheConstants
<1> QED BY <1>1, FS_Subset, FS_CardinalityType

(* What a call is, and the request it serves.                              *)
LEMMA CallFacts ==
    ASSUME CacheInv, NEW c \in Calls
    PROVE  /\ call[c] \in CallStates /\ call \in [Calls -> CallStates] /\ Stage(call[c])
           /\ call[c].req # None => P(c) \in Pods /\ W(c) \in Wallets
           /\ call[c].pc \notin {"idle", "done"} => call[c].req # None /\ P(c) \in Pods /\ W(c) \in Wallets
<1>1. call[c] \in CallStates /\ call \in [Calls -> CallStates] /\ Stage(call[c])
  BY DEF CacheInv, TypeOK
<1>2. ASSUME call[c].req # None
      PROVE  P(c) \in Pods /\ W(c) \in Wallets
  <2>1. call[c].req \in UNION {Requests[d] : d \in Calls}
    BY <1>1, <1>2 DEF CallStates
  <2>2. PICK d \in Calls : call[c].req \in Requests[d]
    BY <2>1
  <2> QED BY <2>2, CacheAssumption DEF CacheConstants, P, W
<1>3. call[c].pc \notin {"idle", "done"} => call[c].req # None
  BY <1>1 DEF Stage
<1> QED BY <1>1, <1>2, <1>3

(* A step of one call that commits nothing.                                *)
LEMMA OneCall ==
    ASSUME CacheInv, NEW c \in Calls, NEW q, q \in CallStates, Stage(q),
           call' = [call EXCEPT ![c] = q], StoresOK', faults' \in 0..MaxFaults, version' = version,
           q.pc \notin {"idle", "commit"} \/ call[c].pc = "idle"
    PROVE  CacheInv'
<1>1. call \in [Calls -> CallStates]
  BY DEF CacheInv, TypeOK
<1>2. /\ call' \in [Calls -> CallStates] /\ call'[c] = q
      /\ \A d \in Calls : d # c => call'[d] = call[d]
  BY <1>1
<1>3. TypeOK'
  BY <1>2 DEF TypeOK, StoresOK
<1>4. CommitsCounted'
  <2>1. Past \subseteq Past' /\ Past' \subseteq Calls
    BY <1>2 DEF Past
  <2>2. Cardinality(Past) \in Nat /\ Cardinality(Past') \in Nat /\ Cardinality(Past) <= Cardinality(Past')
    BY <2>1, CountCalls
  <2>3. \A w \in Wallets : version[w] \in Nat /\ version[w] <= Cardinality(Past)
    <3>1. version \in [Wallets -> Versions] /\ Cardinality(Calls) \in Nat
      BY CountCalls DEF CacheInv, TypeOK
    <3> QED BY <3>1 DEF CacheInv, CommitsCounted, Versions
  <2> QED BY <2>2, <2>3 DEF CommitsCounted
<1>5. ASSUME NEW d \in Calls PROVE Stage(call[d])'
  <2>1. CASE d = c
    BY <1>2, <2>1 DEF Stage
  <2>2. CASE d # c
    BY <1>2, <2>2 DEF Stage, CacheInv
  <2> QED BY <2>1, <2>2
<1> QED BY <1>3, <1>4, <1>5 DEF CacheInv

(* The forms a step takes: moving on, taking a balance, returning.         *)
LEMMA GotoFacts ==
    ASSUME CacheInv, NEW c \in Calls, NEW l \in Labels, Goto(c, l), call[c].pc \notin {"idle", "done"},
           l \notin {"idle"}, l \in {"backfill", "set1", "set2"} => call[c].v \in Versions
    PROVE  /\ \A d \in Calls : d # c => call'[d] = call[d]
           /\ call'[c].pc = l /\ call'[c].req = call[c].req /\ call'[c].v = call[c].v
           /\ call'[c].held = call[c].held /\ call'[c] \in CallStates /\ Stage(call'[c])
           /\ call' = [call EXCEPT ![c] = call'[c]]
<1>1. call[c] \in CallStates /\ call \in [Calls -> CallStates] /\ Stage(call[c])
  BY CallFacts
<1>2. PICK q : q = [call[c] EXCEPT !.pc = l]
  OBVIOUS
<1>3. q \in CallStates /\ q.pc = l /\ q.req = call[c].req /\ q.v = call[c].v /\ q.held = call[c].held
  BY <1>1, <1>2 DEF CallStates
<1>4. call' = [call EXCEPT ![c] = q]
  BY <1>2 DEF Goto
<1>5. Stage(q)
  BY <1>1, <1>3 DEF Stage
<1>6. call'[c] = q
  BY <1>1, <1>4
<1> QED BY <1>1, <1>3, <1>4, <1>5, <1>6

(* A balance taken.                                                        *)
LEMMA GotFacts ==
    ASSUME CacheInv, NEW c \in Calls, NEW l \in {"backfill", "set1"}, NEW v \in Versions, Got(c, v, l),
           call[c].pc \notin {"idle", "done"}
    PROVE  /\ \A d \in Calls : d # c => call'[d] = call[d]
           /\ call'[c].pc = l /\ call'[c].req = call[c].req /\ call'[c].v = v
           /\ call'[c].held = 0 /\ call'[c] \in CallStates /\ Stage(call'[c])
           /\ call' = [call EXCEPT ![c] = call'[c]]
<1>1. call[c] \in CallStates /\ call \in [Calls -> CallStates] /\ Stage(call[c])
  BY CallFacts
<1>2. PICK q : q = [call[c] EXCEPT !.v = v, !.held = 0, !.pc = l]
  OBVIOUS
<1>3. 0 \in 0..Pause /\ l \in Labels
  BY CacheAssumption DEF CacheConstants, Labels
<1>4. q \in CallStates /\ q.pc = l /\ q.req = call[c].req /\ q.v = v /\ q.held = 0
  BY <1>1, <1>2, <1>3 DEF CallStates
<1>5. call' = [call EXCEPT ![c] = q]
  BY <1>2 DEF Got
<1>6. Stage(q)
  BY <1>1, <1>4 DEF Stage
<1>7. call'[c] = q
  BY <1>1, <1>5
<1> QED BY <1>1, <1>4, <1>5, <1>6, <1>7

(* A call that is over.                                                    *)
LEMMA FinishedFacts ==
    /\ Finished \in CallStates /\ Finished.pc = "done" /\ Finished.req = None /\ Stage(Finished)
<1>1. 0 \in 0..Pause /\ "idle" \in Labels /\ "done" \in Labels
  BY CacheAssumption DEF CacheConstants, Labels
<1>2. Idle \in CallStates /\ Idle.req = None
  BY <1>1 DEF Idle, CallStates
<1>3. Finished \in CallStates /\ Finished.pc = "done" /\ Finished.req = None
  BY <1>1, <1>2 DEF Finished, CallStates
<1> QED BY <1>3 DEF Stage

(* A call that returns.                                                    *)
LEMMA ReturnFacts ==
    ASSUME CacheInv, NEW c \in Calls, Return(c)
    PROVE  /\ \A d \in Calls : d # c => call'[d] = call[d]
           /\ call'[c] = Finished /\ call' = [call EXCEPT ![c] = Finished]
BY CallFacts DEF Return

(* The fault counter.                                                      *)
LEMMA FaultCount ==
    ASSUME CacheInv, Fail \/ Ok
    PROVE  faults' \in 0..MaxFaults /\ (faults' = 0 => faults = 0) /\ (Fail => faults' # 0)
<1>1. faults \in 0..MaxFaults /\ MaxFaults \in Nat
  BY CacheAssumption DEF CacheInv, TypeOK, CacheConstants
<1> QED BY <1>1 DEF Fail, Ok

-----------------------------------------------------------------------------
(* An L1 whose entries are among those of another is not larger.           *)
LEMMA FewerEntries ==
    ASSUME NEW M, NEW N, Cardinality({w \in Wallets : M[w] # None}) <= MaxEntries,
           \A w \in Wallets : N[w] # None => M[w] # None
    PROVE  Cardinality({w \in Wallets : N[w] # None}) <= MaxEntries
<1> DEFINE S == {w \in Wallets : N[w] # None}
           T == {w \in Wallets : M[w] # None}
<1>1. S \subseteq T /\ T \subseteq Wallets
  OBVIOUS
<1>2. Cardinality(S) \in Nat /\ Cardinality(T) \in Nat /\ Cardinality(S) <= Cardinality(T)
  BY <1>1, CountWallets
<1>3. MaxEntries \in Nat
  BY CacheAssumption DEF CacheConstants
<1> HIDE DEF S, T
<1>4. Cardinality(T) <= MaxEntries
  BY DEF T
<1>5. Cardinality(S) <= MaxEntries
  BY <1>2, <1>3, <1>4
<1> QED BY <1>5 DEF S

(* A step that only removes entries from L1s and changes no version.       *)
LEMMA L1Shrinks ==
    ASSUME CacheInv, l1' \in [Pods -> [Wallets -> Entries]],
           \A p \in Pods : \A w \in Wallets : l1'[p][w] # None => l1[p][w] # None,
           version' = version, replaced' \in [Wallets -> [Versions -> 0..(Bound + 1)]],
           l2' \in [Wallets -> Entries], queue' \in [Pods -> Seq([w : Wallets, origin : Pods])],
           subscribed' \in [Pods -> BOOLEAN], raced' \subseteq Wallets
    PROVE  StoresOK'
<1>1. StoresOK
  BY StoresAreOK
<1>2. ASSUME NEW p \in Pods PROVE Cardinality({w \in Wallets : l1'[p][w] # None}) <= MaxEntries
  <2>1. Cardinality({w \in Wallets : l1[p][w] # None}) <= MaxEntries
    BY <1>1 DEF StoresOK
  <2>2. PICK M : M = l1[p]
    OBVIOUS
  <2>3. PICK N : N = l1'[p]
    OBVIOUS
  <2>4. \A w \in Wallets : N[w] # None => M[w] # None
    BY <2>2, <2>3
  <2>5. Cardinality({w \in Wallets : M[w] # None}) <= MaxEntries
    BY <2>1, <2>2
  <2>6. Cardinality({w \in Wallets : N[w] # None}) <= MaxEntries
    BY <2>4, <2>5, FewerEntries
  <2> QED BY <2>3, <2>6
<1> QED BY <1>1, <1>2 DEF StoresOK

(* One entry forgotten.                                                    *)
LEMMA L1Cleared ==
    ASSUME NEW K, K \in [Pods -> [Wallets -> Entries]], NEW p \in Pods, NEW x \in Wallets, NEW L,
           L = [K EXCEPT ![p] = [@ EXCEPT ![x] = None]]
    PROVE  /\ L \in [Pods -> [Wallets -> Entries]] /\ L[p][x] = None
           /\ \A r \in Pods : \A w \in Wallets : L[r][w] \in {K[r][w], None}
           /\ \A r \in Pods : r # p => L[r] = K[r]
           /\ \A w \in Wallets : w # x => L[p][w] = K[p][w]
<1>1. PICK m : m = [K[p] EXCEPT ![x] = None]
  OBVIOUS
<1>2. m \in [Wallets -> Entries] /\ m[x] = None /\ \A w \in Wallets : w # x => m[w] = K[p][w]
  BY <1>1 DEF Entries
<1>3. L = [K EXCEPT ![p] = m]
  BY <1>1
<1>4. L[p] = m /\ \A r \in Pods : r # p => L[r] = K[r]
  BY <1>3
<1> QED BY <1>2, <1>3, <1>4

(* A full L1 makes room, so it never holds more than MaxEntries.           *)
LEMMA L1Filled ==
    ASSUME NEW m, m \in [Wallets -> Entries], NEW x \in Wallets, NEW e \in CacheEntries,
           Cardinality({w \in Wallets : m[w] # None}) <= MaxEntries,
           NEW f \in (IF Full(m, x) THEN {[m EXCEPT ![y] = None] : y \in Evictable(m)} ELSE {m}),
           NEW n, n = [f EXCEPT ![x] = e]
    PROVE  /\ n \in [Wallets -> Entries] /\ n[x] = e
           /\ \A w \in Wallets : w # x => n[w] \in {m[w], None}
           /\ Cardinality({w \in Wallets : n[w] # None}) <= MaxEntries
<1> DEFINE T == {w \in Wallets : m[w] # None}
           S == {w \in Wallets : n[w] # None}
<1>1. /\ f \in [Wallets -> Entries] /\ \A w \in Wallets : f[w] \in {m[w], None}
      /\ Full(m, x) => \E y \in T : f = [m EXCEPT ![y] = None]
      /\ ~Full(m, x) => f = m
  <2>1. CASE Full(m, x)
    <3>1. PICK y \in Evictable(m) : f = [m EXCEPT ![y] = None]
      BY <2>1
    <3>2. y \in T
      BY <3>1 DEF Evictable
    <3> QED BY <2>1, <3>1, <3>2 DEF Entries
  <2>2. CASE ~Full(m, x)
    BY <2>2
  <2> QED BY <2>1, <2>2
<1>2. /\ n \in [Wallets -> Entries] /\ n[x] = e /\ \A w \in Wallets : w # x => n[w] = f[w]
  BY <1>1 DEF Entries
<1>3. T \subseteq Wallets /\ IsFiniteSet(T) /\ Cardinality(T) \in Nat /\ IsFiniteSet(T \cup {x}) /\ MaxEntries \in Nat
  BY CountWallets, CacheAssumption, FS_AddElement DEF CacheConstants
<1>4. e # None
  BY NoneAssumption DEF NoneIsNothing
<1>5. Cardinality(S) <= MaxEntries
  <2>1. CASE Full(m, x)
    <3>1. PICK y \in T : f = [m EXCEPT ![y] = None]
      BY <1>1, <2>1
    <3>2. x \notin T /\ x # y
      BY <2>1, <3>1 DEF Full
    <3>3. S = (T \ {y}) \cup {x}
      BY <1>2, <1>4, <3>1, <3>2
    <3>4. IsFiniteSet(T \ {y}) /\ Cardinality(T \ {y}) = Cardinality(T) - 1
      BY <1>3, <3>1, FS_RemoveElement
    <3>5. x \notin T \ {y}
      BY <3>2
    <3>6. Cardinality((T \ {y}) \cup {x}) = Cardinality(T \ {y}) + 1
      BY <3>4, <3>5, FS_AddElement
    <3>7. Cardinality(T) <= MaxEntries
      OBVIOUS
    <3> HIDE DEF S, T
    <3> QED BY <1>3, <3>3, <3>4, <3>6, <3>7
  <2>2. CASE ~Full(m, x) /\ x \in T
    <3>1. S = T
      BY <1>1, <1>2, <1>4, <2>2
    <3> QED BY <3>1
  <2>3. CASE ~Full(m, x) /\ x \notin T
    <3>1. S = T \cup {x}
      BY <1>1, <1>2, <1>4, <2>3
    <3>2. ~(Cardinality(T) >= MaxEntries)
      BY <2>3 DEF Full
    <3>3. Cardinality(T \cup {x}) = Cardinality(T) + 1
      BY <1>3, <2>3, FS_AddElement
    <3> HIDE DEF S, T
    <3> QED BY <1>3, <3>1, <3>2, <3>3
  <2> QED BY <2>1, <2>2, <2>3
<1> QED BY <1>1, <1>2, <1>5

-----------------------------------------------------------------------------
(* CacheInv is inductive: one lemma per action.                            *)

(* A step that leaves the stores alone.                                    *)
LEMMA StoresKept ==
    ASSUME CacheInv, UNCHANGED <<dbVars, l1, l2, busVars>>, raced' \subseteq Wallets
    PROVE  StoresOK' /\ version' = version
<1>1. StoresOK /\ UNCHANGED <<version, replaced, l1, l2, queue, subscribed>>
  BY StoresAreOK DEF dbVars, busVars
<1> QED BY <1>1 DEF StoresOK

(* A request arrives.                                                      *)
LEMMA BeginKeeps ==
    ASSUME CacheInv, NEW c \in Calls, NEW r \in Requests[c], Begin(c, r)
    PROVE  CacheInv'
<1>1. call[c].pc = "idle" /\ UNCHANGED <<dbVars, l1, l2, busVars, raced, faults>>
  BY DEF Begin
<1>2. StoresOK' /\ version' = version /\ faults' \in 0..MaxFaults
  BY <1>1, StoresKept DEF CacheInv, TypeOK
<1>3. call[c] \in CallStates /\ call \in [Calls -> CallStates]
  BY CallFacts
<1>4. PICK l \in {"l1", "commit"} : l = IF r.op = "READ" THEN "l1" ELSE "commit"
  OBVIOUS
<1>5. PICK q : q = [call[c] EXCEPT !.req = r, !.pc = l]
  OBVIOUS
<1>6. call' = [call EXCEPT ![c] = q]
  BY <1>4, <1>5 DEF Begin
<1>7. r \in (UNION {Requests[d] : d \in Calls}) \cup {None} /\ l \in Labels
  BY <1>4 DEF Labels
<1>8. q \in CallStates /\ q.pc = l /\ q.req = r
  BY <1>3, <1>5, <1>7 DEF CallStates
<1>9. r # None
  BY NoneAssumption DEF NoneIsNothing
<1>10. Stage(q)
  BY <1>4, <1>8, <1>9 DEF Stage
<1> QED BY <1>1, <1>2, <1>6, <1>8, <1>10, OneCall

(* A call that returns, with the stores in order.                          *)
LEMMA ReturnKeeps ==
    ASSUME CacheInv, NEW c \in Calls, Return(c), StoresOK', faults' \in 0..MaxFaults, version' = version
    PROVE  CacheInv'
BY ReturnFacts, FinishedFacts, OneCall

(* A call that moves on, with the stores in order.                         *)
LEMMA GotoKeeps ==
    ASSUME CacheInv, NEW c \in Calls, NEW l \in Labels \ {"idle", "commit"}, Goto(c, l),
           call[c].pc \notin {"idle", "done"},
           l \in {"backfill", "set1", "set2"} => call[c].v \in Versions,
           StoresOK', faults' \in 0..MaxFaults, version' = version
    PROVE  CacheInv'
<1>1. /\ call'[c] \in CallStates /\ Stage(call'[c]) /\ call'[c].pc = l
      /\ call' = [call EXCEPT ![c] = call'[c]]
  BY GotoFacts
<1>2. PICK q : q = call'[c]
  OBVIOUS
<1> QED BY <1>1, <1>2, OneCall

(* A call that takes a balance.                                            *)
LEMMA GotKeeps ==
    ASSUME CacheInv, NEW c \in Calls, NEW l \in {"backfill", "set1"}, NEW v \in Versions, Got(c, v, l),
           call[c].pc \notin {"idle", "done"}, StoresOK', faults' \in 0..MaxFaults, version' = version
    PROVE  CacheInv'
<1>1. /\ call'[c] \in CallStates /\ Stage(call'[c]) /\ call'[c].pc = l
      /\ call' = [call EXCEPT ![c] = call'[c]]
  BY GotFacts
<1>2. PICK q : q = call'[c]
  OBVIOUS
<1> QED BY <1>1, <1>2, OneCall

(* The look into L1.                                                       *)
LEMMA GetL1Keeps ==
    ASSUME CacheInv, NEW c \in Calls, GetL1(c)
    PROVE  CacheInv'
<1>1. call[c].pc = "l1" /\ UNCHANGED <<dbVars, l2, busVars, faults>>
  BY DEF GetL1
<1>2. faults' \in 0..MaxFaults
  BY <1>1 DEF CacheInv, TypeOK
<1>3. P(c) \in Pods /\ W(c) \in Wallets
  BY <1>1, CallFacts
<1>4. CASE Return(c) /\ UNCHANGED <<l1, raced>>
  <2>1. StoresOK' /\ version' = version
    BY <1>1, <1>4, StoresKept DEF CacheInv, TypeOK
  <2> QED BY <1>2, <1>4, <2>1, ReturnKeeps
<1>5. CASE l1' = [l1 EXCEPT ![P(c)] = [@ EXCEPT ![W(c)] = None]] /\ Goto(c, "l2") /\ NoteRead(c)
  <2>1. StoresOK /\ UNCHANGED <<version, replaced, queue, subscribed>>
    BY <1>1, StoresAreOK DEF dbVars, busVars
  <2>2. /\ l1' \in [Pods -> [Wallets -> Entries]]
        /\ \A p \in Pods : \A w \in Wallets : l1'[p][w] \in {l1[p][w], None}
    BY <1>3, <1>5, <2>1, L1Cleared DEF StoresOK
  <2>3. raced' \subseteq Wallets
    BY <1>3, <1>5, <2>1 DEF NoteRead, StoresOK
  <2>4. \A p \in Pods : \A w \in Wallets : l1'[p][w] # None => l1[p][w] # None
    BY <2>2
  <2>5. StoresOK'
    BY <1>1, <2>1, <2>2, <2>3, <2>4, L1Shrinks DEF StoresOK
  <2>6. "l2" \in Labels
    BY DEF Labels
  <2> QED BY <1>1, <1>2, <1>5, <2>1, <2>5, <2>6, GotoKeeps
<1> QED BY <1>4, <1>5 DEF GetL1

(* The look into Redis.                                                    *)
LEMMA GetL2Keeps ==
    ASSUME CacheInv, NEW c \in Calls, GetL2(c)
    PROVE  CacheInv'
<1>1. call[c].pc = "l2" /\ UNCHANGED <<dbVars, l1, l2, busVars, raced>>
  BY DEF GetL2
<1>2. faults' \in 0..MaxFaults
  BY FaultCount DEF GetL2
<1>3. W(c) \in Wallets
  BY <1>1, CallFacts
<1>4. StoresOK' /\ version' = version
  BY <1>1, StoresKept DEF CacheInv, TypeOK
<1>5. CASE Valid(l2[W(c)]) /\ Got(c, l2[W(c)].v, "backfill")
  <2>1. l2[W(c)] \in CacheEntries
    BY <1>3, <1>5 DEF CacheInv, TypeOK, Entries, Valid
  <2>2. l2[W(c)].v \in Versions
    BY <2>1 DEF CacheEntries
  <2> QED BY <1>1, <1>2, <1>4, <1>5, <2>2, GotKeeps
<1>6. CASE Goto(c, "db")
  <2>1. "db" \in Labels
    BY DEF Labels
  <2> QED BY <1>1, <1>2, <1>4, <1>6, <2>1, GotoKeeps
<1> QED BY <1>5, <1>6 DEF GetL2

(* The read of the database.                                               *)
LEMMA ReadDBKeeps ==
    ASSUME CacheInv, NEW c \in Calls, ReadDB(c)
    PROVE  CacheInv'
<1>1. call[c].pc = "db" /\ UNCHANGED <<dbVars, l1, l2, busVars, raced, faults>> /\ Got(c, version[W(c)], "set1")
  BY DEF ReadDB
<1>2. StoresOK' /\ version' = version /\ faults' \in 0..MaxFaults
  BY <1>1, StoresKept DEF CacheInv, TypeOK
<1>3. version[W(c)] \in Versions
  BY <1>1, CallFacts DEF CacheInv, TypeOK
<1> QED BY <1>1, <1>2, <1>3, GotKeeps

(* The read of the database that fails.                                    *)
LEMMA ReadDBFailsKeeps ==
    ASSUME CacheInv, NEW c \in Calls, ReadDBFails(c)
    PROVE  CacheInv'
<1>1. Fail /\ Return(c) /\ UNCHANGED <<dbVars, l1, l2, busVars, raced>>
  BY DEF ReadDBFails
<1>2. faults' \in 0..MaxFaults
  BY <1>1, CacheAssumption DEF CacheInv, TypeOK, Fail, CacheConstants
<1>3. StoresOK' /\ version' = version
  BY <1>1, StoresKept DEF CacheInv, TypeOK, dbVars
<1> QED BY <1>1, <1>2, <1>3, ReturnKeeps

(* A new entry is an entry.                                                *)
LEMMA EntryFacts ==
    ASSUME NEW v \in Versions
    PROVE  Entry(v) \in CacheEntries /\ Entry(v).v = v /\ Entry(v).left = TTL /\ Valid(Entry(v))
<1>1. TTL \in -1..TTL /\ TTL >= 0
  BY CacheAssumption DEF CacheConstants
<1>2. Entry(v) \in CacheEntries /\ Entry(v).v = v /\ Entry(v).left = TTL
  BY <1>1 DEF Entry, CacheEntries
<1> QED BY <1>1, <1>2, NoneAssumption DEF NoneIsNothing, Valid

(* What storing into L1 does to the pod's entries.                         *)
LEMMA SetLocalFacts ==
    ASSUME CacheInv, NEW c \in Calls, SetLocal(c)
    PROVE  /\ call[c].pc \in {"backfill", "set1"} /\ call[c].v \in Versions /\ P(c) \in Pods /\ W(c) \in Wallets
           /\ UNCHANGED <<version, replaced, l2, queue, subscribed, raced, faults>>
           /\ l1' \in [Pods -> [Wallets -> Entries]] /\ l1'[P(c)][W(c)] = Entry(call[c].v)
           /\ \A p \in Pods : p # P(c) => l1'[p] = l1[p]
           /\ \A w \in Wallets : w # W(c) => l1'[P(c)][w] \in {l1[P(c)][w], None}
           /\ \A p \in Pods : Cardinality({w \in Wallets : l1'[p][w] # None}) <= MaxEntries
<1>1. /\ call[c].pc \in {"backfill", "set1"} /\ UNCHANGED <<version, replaced, l2, queue, subscribed, raced, faults>>
  BY DEF SetLocal, dbVars, busVars
<1>2. call[c].v \in Versions /\ P(c) \in Pods /\ W(c) \in Wallets
  BY <1>1, CallFacts DEF Stage
<1>3. StoresOK
  BY StoresAreOK
<1>4. PICK m : m = l1[P(c)]
  OBVIOUS
<1>5. m \in [Wallets -> Entries] /\ Cardinality({w \in Wallets : m[w] # None}) <= MaxEntries
  BY <1>2, <1>3, <1>4 DEF StoresOK
<1>6. PICK f \in (IF Full(m, W(c)) THEN {[m EXCEPT ![x] = None] : x \in Evictable(m)} ELSE {m}) :
        l1' = [l1 EXCEPT ![P(c)] = [f EXCEPT ![W(c)] = Entry(call[c].v)]]
  BY <1>4 DEF SetLocal
<1>7. PICK n : n = [f EXCEPT ![W(c)] = Entry(call[c].v)]
  OBVIOUS
<1>8. Entry(call[c].v) \in CacheEntries
  BY <1>2, EntryFacts
<1>9. /\ n \in [Wallets -> Entries] /\ n[W(c)] = Entry(call[c].v)
      /\ \A w \in Wallets : w # W(c) => n[w] \in {m[w], None}
      /\ Cardinality({w \in Wallets : n[w] # None}) <= MaxEntries
  BY <1>2, <1>5, <1>6, <1>7, <1>8, L1Filled, SMTT(30)
<1>10. l1' = [l1 EXCEPT ![P(c)] = n]
  BY <1>6, <1>7
<1>11. l1' \in [Pods -> [Wallets -> Entries]] /\ l1'[P(c)] = n /\ \A p \in Pods : p # P(c) => l1'[p] = l1[p]
  BY <1>2, <1>3, <1>9, <1>10 DEF StoresOK
<1>12. ASSUME NEW p \in Pods PROVE Cardinality({w \in Wallets : l1'[p][w] # None}) <= MaxEntries
  <2>1. CASE p = P(c)
    BY <1>9, <1>11, <2>1
  <2>2. CASE p # P(c)
    BY <1>3, <1>11, <2>2 DEF StoresOK
  <2> QED BY <2>1, <2>2
<1> QED BY <1>1, <1>2, <1>4, <1>9, <1>11, <1>12

(* Storing into L1.                                                        *)
LEMMA SetLocalKeeps ==
    ASSUME CacheInv, NEW c \in Calls, SetLocal(c)
    PROVE  CacheInv'
<1>1. StoresOK' /\ version' = version
  BY SetLocalFacts, StoresAreOK DEF StoresOK
<1>2. faults' \in 0..MaxFaults /\ call[c].pc \in {"backfill", "set1"} /\ call[c].v \in Versions
  BY SetLocalFacts DEF CacheInv, TypeOK
<1>3. CASE Return(c)
  BY <1>1, <1>2, <1>3, ReturnKeeps
<1>4. CASE Goto(c, "set2")
  <2>1. "set2" \in Labels
    BY DEF Labels
  <2> QED BY <1>1, <1>2, <1>4, <2>1, GotoKeeps
<1> QED BY <1>3, <1>4 DEF SetLocal

(* Storing into Redis.                                                     *)
LEMMA SetL2Keeps ==
    ASSUME CacheInv, NEW c \in Calls, SetL2(c)
    PROVE  CacheInv'
<1>1. call[c].pc = "set2" /\ UNCHANGED <<dbVars, l1, busVars, raced>> /\ Return(c)
  BY DEF SetL2
<1>2. faults' \in 0..MaxFaults
  BY FaultCount DEF SetL2
<1>3. call[c].v \in Versions /\ W(c) \in Wallets
  BY <1>1, CallFacts DEF Stage
<1>4. StoresOK
  BY StoresAreOK
<1>5. Entry(call[c].v) \in Entries
  BY <1>3, EntryFacts DEF Entries
<1>6. l2' \in [Wallets -> Entries]
  BY <1>3, <1>4, <1>5 DEF SetL2, StoresOK
<1>7. StoresOK' /\ version' = version
  BY <1>1, <1>4, <1>6 DEF StoresOK, dbVars, busVars
<1> QED BY <1>1, <1>2, <1>7, ReturnKeeps

(* A movement commits: the wallet's version goes up by one, and the one    *)
(* before has just been replaced.                                          *)
LEMMA CommitFacts ==
    ASSUME CacheInv, NEW c \in Calls, Commit(c)
    PROVE  /\ call[c].pc = "commit" /\ P(c) \in Pods /\ W(c) \in Wallets /\ call[c].req # None
           /\ UNCHANGED <<l1, l2, queue, subscribed, faults>>
           /\ raced' = raced \cup (IF Reading(W(c)) # {} \/ Invalidating(W(c)) THEN {W(c)} ELSE {})
           /\ version' \in [Wallets -> Versions] /\ version'[W(c)] = version[W(c)] + 1
           /\ version[W(c)] + 1 <= Cardinality(Past) + 1
           /\ \A w \in Wallets : w # W(c) => version'[w] = version[w]
           /\ replaced' \in [Wallets -> [Versions -> 0..(Bound + 1)]] /\ replaced'[W(c)][version[W(c)]] = 0
           /\ \A w \in Wallets : \A v \in Versions : w # W(c) \/ v # version[w] => replaced'[w][v] = replaced[w][v]
           /\ Goto(c, "local")
<1>1. /\ call[c].pc = "commit" /\ UNCHANGED <<l1, l2, queue, subscribed, faults>> /\ Goto(c, "local")
      /\ raced' = raced \cup (IF Reading(W(c)) # {} \/ Invalidating(W(c)) THEN {W(c)} ELSE {})
      /\ version' = [version EXCEPT ![W(c)] = @ + 1]
      /\ replaced' = [replaced EXCEPT ![W(c)] = [@ EXCEPT ![version[W(c)]] = 0]]
  BY DEF Commit, busVars
<1>2. P(c) \in Pods /\ W(c) \in Wallets /\ call[c].req # None
  BY <1>1, CallFacts
<1>3. /\ version \in [Wallets -> Versions] /\ replaced \in [Wallets -> [Versions -> 0..(Bound + 1)]]
      /\ \A w \in Wallets : version[w] <= Cardinality(Past)
  BY DEF CacheInv, TypeOK, CommitsCounted
<1>4. c \notin Past /\ Past \cup {c} \subseteq Calls /\ Past \subseteq Calls
  BY <1>1 DEF Past
<1>5. Cardinality(Past \cup {c}) = Cardinality(Past) + 1
  <2>1. IsFiniteSet(Past)
    BY <1>4, CacheAssumption, FS_Subset DEF CacheConstants
  <2> QED BY <1>4, <2>1, FS_AddElement
<1>6. Cardinality(Past) \in Nat /\ Cardinality(Calls) \in Nat /\ Cardinality(Past) + 1 <= Cardinality(Calls)
  BY <1>4, <1>5, CountCalls
<1>7. PICK v : v = version[W(c)]
  OBVIOUS
<1>8. v \in Versions /\ v <= Cardinality(Past)
  BY <1>2, <1>3, <1>7
<1>9. v + 1 \in Versions /\ v + 1 <= Cardinality(Past) + 1
  BY <1>6, <1>8 DEF Versions
<1>10. /\ version' \in [Wallets -> Versions] /\ version'[W(c)] = v + 1
       /\ \A w \in Wallets : w # W(c) => version'[w] = version[w]
  BY <1>1, <1>2, <1>3, <1>7, <1>9
<1>11. PICK m : m = [replaced[W(c)] EXCEPT ![v] = 0]
  OBVIOUS
<1>12. 0 \in 0..(Bound + 1)
  BY CacheAssumption DEF CacheConstants, Bound
<1>13. m \in [Versions -> 0..(Bound + 1)] /\ m[v] = 0 /\ \A x \in Versions : x # v => m[x] = replaced[W(c)][x]
  BY <1>2, <1>3, <1>8, <1>11, <1>12
<1>14. replaced' = [replaced EXCEPT ![W(c)] = m]
  BY <1>1, <1>7, <1>11
<1>15. /\ replaced' \in [Wallets -> [Versions -> 0..(Bound + 1)]] /\ replaced'[W(c)] = m
       /\ \A w \in Wallets : w # W(c) => replaced'[w] = replaced[w]
  BY <1>2, <1>3, <1>13, <1>14
<1>16. ASSUME NEW w \in Wallets, NEW x \in Versions, w # W(c) \/ x # version[w]
       PROVE  replaced'[w][x] = replaced[w][x]
  BY <1>7, <1>13, <1>15, <1>16
<1> QED BY <1>1, <1>2, <1>7, <1>9, <1>10, <1>13, <1>15, <1>16

(* The commit of a movement.                                               *)
LEMMA CommitKeeps ==
    ASSUME CacheInv, NEW c \in Calls, Commit(c)
    PROVE  CacheInv'
<1>1. "local" \in Labels
  BY DEF Labels
<1>2. call[c].pc = "commit" /\ Goto(c, "local")
  BY CommitFacts
<1>3. /\ \A d \in Calls : d # c => call'[d] = call[d]
      /\ call'[c].pc = "local" /\ call'[c] \in CallStates /\ Stage(call'[c])
      /\ call' = [call EXCEPT ![c] = call'[c]]
  BY <1>1, <1>2, GotoFacts
<1>4. call' \in [Calls -> CallStates]
  BY <1>3, CallFacts
<1>5. TypeOK'
  <2>1. StoresOK
    BY StoresAreOK
  <2>2. /\ version' \in [Wallets -> Versions] /\ replaced' \in [Wallets -> [Versions -> 0..(Bound + 1)]]
        /\ UNCHANGED <<l1, l2, queue, subscribed, faults>>
    BY CommitFacts
  <2>3. raced' \subseteq Wallets
    BY <2>1, CommitFacts DEF StoresOK
  <2>4. faults' \in 0..MaxFaults
    BY <2>2 DEF CacheInv, TypeOK
  <2> QED BY <1>4, <2>1, <2>2, <2>3, <2>4 DEF StoresOK, TypeOK
<1>6. CommitsCounted'
  <2>1. Past' = Past \cup {c} /\ c \notin Past /\ Past \subseteq Calls
    BY <1>2, <1>3 DEF Past
  <2>2. IsFiniteSet(Past)
    BY <2>1, CacheAssumption, FS_Subset DEF CacheConstants
  <2>3. Cardinality(Past') = Cardinality(Past) + 1 /\ Cardinality(Past) \in Nat
    BY <2>1, <2>2, FS_AddElement, FS_CardinalityType
  <2>4. ASSUME NEW w \in Wallets PROVE version'[w] <= Cardinality(Past')
    <3>1. CASE w = W(c)
      BY <2>3, <3>1, CommitFacts
    <3>2. CASE w # W(c)
      <4>1. version'[w] = version[w]
        BY <3>2, CommitFacts
      <4>2. version[w] <= Cardinality(Past) /\ version[w] \in Versions /\ Cardinality(Calls) \in Nat
        BY CountCalls DEF CacheInv, CommitsCounted, TypeOK
      <4>3. version[w] \in Nat
        BY <4>2 DEF Versions
      <4> QED BY <2>3, <4>1, <4>2, <4>3
    <3> QED BY <3>1, <3>2
  <2> QED BY <2>4 DEF CommitsCounted
<1>7. ASSUME NEW d \in Calls PROVE Stage(call[d])'
  <2>1. CASE d = c
    BY <1>3, <2>1 DEF Stage
  <2>2. CASE d # c
    BY <1>3, <2>2 DEF Stage, CacheInv
  <2> QED BY <2>1, <2>2
<1> QED BY <1>5, <1>6, <1>7 DEF CacheInv

(* A step that forgets one entry.                                          *)
LEMMA OneForgotten ==
    ASSUME CacheInv, NEW p \in Pods, NEW x \in Wallets, l1' = [l1 EXCEPT ![p] = [@ EXCEPT ![x] = None]]
    PROVE  /\ l1' \in [Pods -> [Wallets -> Entries]] /\ l1'[p][x] = None
           /\ \A r \in Pods : \A w \in Wallets : l1'[r][w] \in {l1[r][w], None}
<1>1. l1 \in [Pods -> [Wallets -> Entries]]
  BY DEF CacheInv, TypeOK
<1>2. PICK L : L = l1'
  OBVIOUS
<1>3. L = [l1 EXCEPT ![p] = [@ EXCEPT ![x] = None]]
  BY <1>2
<1>4. /\ L \in [Pods -> [Wallets -> Entries]] /\ L[p][x] = None
      /\ \A r \in Pods : \A w \in Wallets : L[r][w] \in {l1[r][w], None}
  BY <1>1, <1>3, L1Cleared
<1> QED BY <1>2, <1>4

(* What forgetting the local copy does.                                    *)
LEMMA InvalidateLocalFacts ==
    ASSUME CacheInv, NEW c \in Calls, InvalidateLocal(c)
    PROVE  /\ call[c].pc = "local" /\ P(c) \in Pods /\ W(c) \in Wallets /\ Goto(c, "redis")
           /\ UNCHANGED <<version, replaced, l2, queue, subscribed, raced, faults>>
           /\ l1' \in [Pods -> [Wallets -> Entries]] /\ l1'[P(c)][W(c)] = None
           /\ \A p \in Pods : \A w \in Wallets : l1'[p][w] \in {l1[p][w], None}
<1>1. /\ call[c].pc = "local" /\ UNCHANGED <<version, replaced, l2, queue, subscribed, raced, faults>> /\ Goto(c, "redis")
      /\ l1' = [l1 EXCEPT ![P(c)] = [@ EXCEPT ![W(c)] = None]]
  BY DEF InvalidateLocal, dbVars, busVars
<1>2. P(c) \in Pods /\ W(c) \in Wallets
  BY <1>1, CallFacts
<1>3. l1 \in [Pods -> [Wallets -> Entries]]
  BY DEF CacheInv, TypeOK
<1>4. /\ l1' \in [Pods -> [Wallets -> Entries]] /\ l1'[P(c)][W(c)] = None
      /\ \A p \in Pods : \A w \in Wallets : l1'[p][w] \in {l1[p][w], None}
  <2>1. PICK r \in Pods, x \in Wallets : r = P(c) /\ x = W(c)
    BY <1>2
  <2>2. l1' = [l1 EXCEPT ![r] = [@ EXCEPT ![x] = None]]
    BY <1>1, <2>1
  <2> QED BY <2>1, <2>2, OneForgotten
<1> QED BY <1>1, <1>2, <1>4

(* Forgetting the local copy.                                              *)
LEMMA InvalidateLocalKeeps ==
    ASSUME CacheInv, NEW c \in Calls, InvalidateLocal(c)
    PROVE  CacheInv'
<1>1. /\ call[c].pc = "local" /\ Goto(c, "redis") /\ version' = version
      /\ UNCHANGED <<version, replaced, l2, queue, subscribed, raced, faults>>
      /\ l1' \in [Pods -> [Wallets -> Entries]]
      /\ \A p \in Pods : \A w \in Wallets : l1'[p][w] # None => l1[p][w] # None
  BY InvalidateLocalFacts
<1>2. StoresOK /\ faults' \in 0..MaxFaults
  BY <1>1, StoresAreOK DEF CacheInv, TypeOK
<1>3. StoresOK'
  BY <1>1, <1>2, L1Shrinks DEF StoresOK
<1>4. "redis" \in Labels
  BY DEF Labels
<1> QED BY <1>1, <1>2, <1>3, <1>4, GotoKeeps

(* Forgetting the copy in Redis.                                           *)
LEMMA InvalidateL2Keeps ==
    ASSUME CacheInv, NEW c \in Calls, InvalidateL2(c)
    PROVE  CacheInv'
<1>1. call[c].pc = "redis" /\ UNCHANGED <<dbVars, l1, busVars, raced>> /\ Goto(c, "publish")
  BY DEF InvalidateL2
<1>2. faults' \in 0..MaxFaults
  BY FaultCount DEF InvalidateL2
<1>3. StoresOK
  BY StoresAreOK
<1>4. l2' \in [Wallets -> Entries]
  BY <1>3 DEF InvalidateL2, StoresOK, Entries
<1>5. StoresOK' /\ version' = version
  BY <1>1, <1>3, <1>4 DEF StoresOK, dbVars, busVars
<1>6. "publish" \in Labels
  BY DEF Labels
<1> QED BY <1>1, <1>2, <1>5, <1>6, GotoKeeps

(* Publishing: the queues stay queues of messages.                         *)
LEMMA PublishInvalidationKeeps ==
    ASSUME CacheInv, NEW c \in Calls, PublishInvalidation(c)
    PROVE  CacheInv'
<1>1. call[c].pc = "publish" /\ UNCHANGED <<version, replaced, l1, l2, subscribed, raced>> /\ Return(c)
  BY DEF PublishInvalidation, dbVars
<1>2. faults' \in 0..MaxFaults
  BY FaultCount DEF PublishInvalidation
<1>3. StoresOK /\ P(c) \in Pods /\ W(c) \in Wallets
  BY <1>1, StoresAreOK, CallFacts
<1>4. queue' \in [Pods -> Seq([w : Wallets, origin : Pods])]
  <2>1. PICK m \in [w : Wallets, origin : Pods] : m = [w |-> W(c), origin |-> P(c)]
    BY <1>3
  <2>2. PICK M : M = [w : Wallets, origin : Pods]
    OBVIOUS
  <2>3. m \in M /\ queue \in [Pods -> Seq(M)]
    BY <1>3, <2>1, <2>2 DEF StoresOK
  <2>4. \A p \in Pods : queue[p] \in Seq(M) /\ Append(queue[p], m) \in Seq(M)
    BY <2>3
  <2>5. \/ queue' = [p \in Pods |-> IF subscribed[p] THEN Append(queue[p], m) ELSE queue[p]]
        \/ queue' = queue
    BY <2>1 DEF PublishInvalidation
  <2>6. queue' \in [Pods -> Seq(M)]
    BY <2>3, <2>4, <2>5
  <2> QED BY <2>2, <2>6
<1>5. StoresOK' /\ version' = version
  BY <1>1, <1>3, <1>4 DEF StoresOK
<1> QED BY <1>1, <1>2, <1>5, ReturnKeeps

-----------------------------------------------------------------------------
(* A step of the pods or of time: any calls may change, none commits.      *)
LEMMA ManyCalls ==
    ASSUME CacheInv, StoresOK', faults' \in 0..MaxFaults, version' = version,
           call' \in [Calls -> CallStates],
           \A d \in Calls : Stage(call'[d]) /\ (call'[d].pc \in {"idle", "commit"} => call'[d].pc = call[d].pc)
    PROVE  CacheInv'
<1>1. TypeOK'
  BY DEF TypeOK, StoresOK
<1>2. CommitsCounted'
  <2>1. Past \subseteq Past' /\ Past' \subseteq Calls
    BY DEF Past
  <2>2. Cardinality(Past) \in Nat /\ Cardinality(Past') \in Nat /\ Cardinality(Past) <= Cardinality(Past')
    BY <2>1, CountCalls
  <2>3. \A w \in Wallets : version[w] \in Nat /\ version[w] <= Cardinality(Past)
    <3>1. version \in [Wallets -> Versions] /\ Cardinality(Calls) \in Nat
      BY CountCalls DEF CacheInv, TypeOK
    <3> QED BY <3>1 DEF CacheInv, CommitsCounted, Versions
  <2> QED BY <2>2, <2>3 DEF CommitsCounted
<1>3. \A d \in Calls : Stage(call[d])'
  BY DEF Stage
<1> QED BY <1>1, <1>2, <1>3 DEF CacheInv

(* A step that no call notices.                                            *)
LEMMA NoCall ==
    ASSUME CacheInv, StoresOK', faults' \in 0..MaxFaults, version' = version, call' = call
    PROVE  CacheInv'
<1>1. call' \in [Calls -> CallStates]
  BY DEF CacheInv, TypeOK
<1>2. \A d \in Calls : Stage(call'[d]) /\ (call'[d].pc \in {"idle", "commit"} => call'[d].pc = call[d].pc)
  BY DEF CacheInv, Stage
<1> QED BY <1>1, <1>2, ManyCalls

(* What a message taken from the bus does.                                 *)
LEMMA DeliverFacts ==
    ASSUME CacheInv, NEW p \in Pods, Deliver(p)
    PROVE  /\ UNCHANGED <<version, replaced, l2, subscribed, call, raced, faults>>
           /\ queue[p] \in Seq([w : Wallets, origin : Pods]) /\ queue[p] # << >>
           /\ Head(queue[p]).w \in Wallets
           /\ queue'[p] = Tail(queue[p]) /\ \A r \in Pods : r # p => queue'[r] = queue[r]
           /\ queue' \in [Pods -> Seq([w : Wallets, origin : Pods])]
           /\ l1' \in [Pods -> [Wallets -> Entries]]
           /\ \A r \in Pods : \A w \in Wallets : l1'[r][w] \in {l1[r][w], None}
           /\ Head(queue[p]).origin # p => l1'[p][Head(queue[p]).w] = None
<1>1. /\ UNCHANGED <<version, replaced, l2, subscribed, call, raced, faults>> /\ queue[p] # << >>
      /\ queue' = [queue EXCEPT ![p] = Tail(@)]
  BY DEF Deliver, dbVars
<1>2. queue \in [Pods -> Seq([w : Wallets, origin : Pods])] /\ l1 \in [Pods -> [Wallets -> Entries]]
  BY DEF CacheInv, TypeOK
<1>3. PICK M : M = [w : Wallets, origin : Pods]
  OBVIOUS
<1>4. PICK q : q \in Seq(M) /\ q = queue[p]
  BY <1>2, <1>3
<1>5. q # << >> /\ Head(q) \in M /\ Tail(q) \in Seq(M)
  BY <1>1, <1>4
<1>6. PICK m : m = Head(q)
  OBVIOUS
<1>7. m.w \in Wallets /\ m.origin \in Pods
  BY <1>3, <1>5, <1>6
<1>8. queue' \in [Pods -> Seq(M)] /\ queue'[p] = Tail(q) /\ \A r \in Pods : r # p => queue'[r] = queue[r]
  BY <1>1, <1>2, <1>3, <1>4, <1>5
<1>9. \/ m.origin = p /\ l1' = l1
      \/ m.origin # p /\ l1' = [l1 EXCEPT ![p] = [@ EXCEPT ![m.w] = None]]
  BY <1>4, <1>6 DEF Deliver
<1>10. /\ l1' \in [Pods -> [Wallets -> Entries]]
       /\ \A r \in Pods : \A w \in Wallets : l1'[r][w] \in {l1[r][w], None}
       /\ m.origin # p => l1'[p][m.w] = None
  <2>1. CASE m.origin = p /\ l1' = l1
    BY <1>2, <2>1
  <2>2. CASE m.origin # p /\ l1' = [l1 EXCEPT ![p] = [@ EXCEPT ![m.w] = None]]
    <3>1. PICK x \in Wallets : x = m.w
      BY <1>7
    <3>2. l1' = [l1 EXCEPT ![p] = [@ EXCEPT ![x] = None]]
      BY <2>2, <3>1
    <3> QED BY <3>1, <3>2, OneForgotten
  <2> QED BY <1>9, <2>1, <2>2
<1> QED BY <1>1, <1>3, <1>4, <1>6, <1>7, <1>8, <1>10

(* A message taken from the bus.                                           *)
LEMMA DeliverKeeps ==
    ASSUME CacheInv, NEW p \in Pods, Deliver(p)
    PROVE  CacheInv'
<1>1. /\ UNCHANGED <<version, replaced, l2, subscribed, call, raced, faults>>
      /\ queue' \in [Pods -> Seq([w : Wallets, origin : Pods])] /\ l1' \in [Pods -> [Wallets -> Entries]]
      /\ \A r \in Pods : \A w \in Wallets : l1'[r][w] # None => l1[r][w] # None
  BY DeliverFacts
<1>2. StoresOK /\ faults' \in 0..MaxFaults
  BY <1>1, StoresAreOK DEF CacheInv, TypeOK
<1>3. StoresOK'
  BY <1>1, <1>2, L1Shrinks DEF StoresOK
<1> QED BY <1>1, <1>2, <1>3, NoCall

(* A lost subscription.                                                    *)
LEMMA LoseSubscriptionKeeps ==
    ASSUME CacheInv, NEW p \in Pods, LoseSubscription(p)
    PROVE  CacheInv'
<1>1. UNCHANGED <<version, replaced, l1, l2, call, raced>> /\ faults' \in 0..MaxFaults
  BY FaultCount DEF LoseSubscription, dbVars
<1>2. StoresOK
  BY StoresAreOK
<1>3. queue' \in [Pods -> Seq([w : Wallets, origin : Pods])] /\ subscribed' \in [Pods -> BOOLEAN]
  <2>1. PICK M : M = [w : Wallets, origin : Pods]
    OBVIOUS
  <2>2. << >> \in Seq(M) /\ queue \in [Pods -> Seq(M)]
    <3>1. queue \in [Pods -> Seq(M)]
      BY <1>2, <2>1 DEF StoresOK
    <3> QED BY <3>1
  <2>3. queue' \in [Pods -> Seq(M)]
    BY <2>2 DEF LoseSubscription
  <2> QED BY <1>2, <2>1, <2>3 DEF StoresOK, LoseSubscription
<1>4. StoresOK'
  BY <1>1, <1>2, <1>3 DEF StoresOK
<1> QED BY <1>1, <1>4, NoCall

(* What a restart does.                                                    *)
LEMMA RestartFacts ==
    ASSUME CacheInv, NEW p \in Pods, Restart(p)
    PROVE  /\ UNCHANGED <<version, replaced, l2, raced>> /\ faults' \in 0..MaxFaults /\ faults' # 0
           /\ l1' \in [Pods -> [Wallets -> Entries]]
           /\ \A r \in Pods : \A w \in Wallets : l1'[r][w] \in {l1[r][w], None}
           /\ \A d \in Calls : call'[d] \in {call[d], Finished}
           /\ call' \in [Calls -> CallStates]
<1>1. UNCHANGED <<version, replaced, l2, raced>> /\ faults' \in 0..MaxFaults /\ faults' # 0
  BY FaultCount DEF Restart, dbVars
<1>2. l1 \in [Pods -> [Wallets -> Entries]] /\ call \in [Calls -> CallStates]
  BY DEF CacheInv, TypeOK
<1>3. PICK m \in [Wallets -> Entries] : m = [w \in Wallets |-> None]
  BY DEF Entries
<1>4. l1' = [l1 EXCEPT ![p] = m] /\ \A w \in Wallets : m[w] = None
  BY <1>3 DEF Restart
<1>5. /\ l1' \in [Pods -> [Wallets -> Entries]]
      /\ \A r \in Pods : \A w \in Wallets : l1'[r][w] \in {l1[r][w], None}
  BY <1>2, <1>4
<1>6. (\A d \in Calls : call'[d] \in {call[d], Finished}) /\ call' \in [Calls -> CallStates]
  BY <1>2, FinishedFacts DEF Restart
<1> QED BY <1>1, <1>5, <1>6

(* A restart.                                                              *)
LEMMA RestartKeeps ==
    ASSUME CacheInv, NEW p \in Pods, Restart(p)
    PROVE  CacheInv'
<1>1. /\ UNCHANGED <<version, replaced, l2, raced>> /\ faults' \in 0..MaxFaults
      /\ l1' \in [Pods -> [Wallets -> Entries]] /\ call' \in [Calls -> CallStates]
      /\ \A r \in Pods : \A w \in Wallets : l1'[r][w] # None => l1[r][w] # None
      /\ \A d \in Calls : call'[d] \in {call[d], Finished}
  BY RestartFacts
<1>2. StoresOK
  BY StoresAreOK
<1>3. queue' \in [Pods -> Seq([w : Wallets, origin : Pods])] /\ subscribed' \in [Pods -> BOOLEAN]
  <2>1. PICK M : M = [w : Wallets, origin : Pods]
    OBVIOUS
  <2>2. << >> \in Seq(M) /\ queue \in [Pods -> Seq(M)]
    <3>1. queue \in [Pods -> Seq(M)]
      BY <1>2, <2>1 DEF StoresOK
    <3> QED BY <3>1
  <2>3. queue' \in [Pods -> Seq(M)]
    BY <2>2 DEF Restart
  <2> QED BY <1>2, <2>1, <2>3 DEF StoresOK, Restart
<1>4. StoresOK'
  BY <1>1, <1>2, <1>3, L1Shrinks DEF StoresOK
<1>5. \A d \in Calls : Stage(call'[d]) /\ (call'[d].pc \in {"idle", "commit"} => call'[d].pc = call[d].pc)
  BY <1>1, FinishedFacts DEF CacheInv
<1> QED BY <1>1, <1>4, <1>5, ManyCalls

(* What the sweep of expired entries does.                                 *)
LEMMA CleanupFacts ==
    ASSUME CacheInv, NEW p \in Pods, Cleanup(p)
    PROVE  /\ UNCHANGED <<version, replaced, l2, queue, subscribed, call, raced, faults>>
           /\ l1' \in [Pods -> [Wallets -> Entries]]
           /\ \A r \in Pods : \A w \in Wallets : l1'[r][w] \in {l1[r][w], None}
<1>1. UNCHANGED <<version, replaced, l2, queue, subscribed, call, raced, faults>>
  BY DEF Cleanup, dbVars, busVars
<1>2. l1 \in [Pods -> [Wallets -> Entries]]
  BY DEF CacheInv, TypeOK
<1>3. PICK old : l1' = [l1 EXCEPT ![p] = [w \in Wallets |-> IF w \in old THEN None ELSE l1[p][w]]]
  BY DEF Cleanup
<1>4. PICK m : m = [w \in Wallets |-> IF w \in old THEN None ELSE l1[p][w]]
  OBVIOUS
<1>5. m \in [Wallets -> Entries] /\ \A w \in Wallets : m[w] \in {l1[p][w], None}
  BY <1>2, <1>4 DEF Entries
<1>6. l1' = [l1 EXCEPT ![p] = m]
  BY <1>3, <1>4
<1> QED BY <1>1, <1>2, <1>5, <1>6

(* The sweep of expired entries.                                           *)
LEMMA CleanupKeeps ==
    ASSUME CacheInv, NEW p \in Pods, Cleanup(p)
    PROVE  CacheInv'
<1>1. /\ UNCHANGED <<version, replaced, l2, queue, subscribed, call, raced, faults>>
      /\ l1' \in [Pods -> [Wallets -> Entries]]
      /\ \A r \in Pods : \A w \in Wallets : l1'[r][w] # None => l1[r][w] # None
  BY CleanupFacts
<1>2. StoresOK /\ faults' \in 0..MaxFaults
  BY <1>1, StoresAreOK DEF CacheInv, TypeOK
<1>3. StoresOK'
  BY <1>1, <1>2, L1Shrinks DEF StoresOK
<1> QED BY <1>1, <1>2, <1>3, NoCall

(* An entry one tick later.                                                *)
LEMMA AgedFacts ==
    ASSUME NEW e \in Entries
    PROVE  /\ Aged(e) \in Entries /\ (Aged(e) # None => e # None)
           /\ Valid(Aged(e)) => Valid(e) /\ Aged(e).v = e.v /\ Aged(e).left = e.left - 1
<1>1. CASE e = None
  BY <1>1 DEF Aged, Valid
<1>2. CASE e # None
  <2>1. e \in CacheEntries /\ e.left \in -1..TTL /\ TTL \in Nat
    BY <1>2, CacheAssumption DEF Entries, CacheEntries, CacheConstants
  <2>2. CASE e.left < 0
    <3>1. Aged(e) = e
      BY <2>2 DEF Aged
    <3> QED BY <2>1, <2>2, <3>1 DEF Valid, Entries
  <2>3. CASE ~(e.left < 0)
    <3>1. PICK f : f = [e EXCEPT !.left = @ - 1]
      OBVIOUS
    <3>2. Aged(e) = f
      BY <1>2, <2>3, <3>1 DEF Aged
    <3>3. e.left - 1 \in -1..TTL
      BY <2>1, <2>3
    <3>4. f \in CacheEntries /\ f.v = e.v /\ f.left = e.left - 1
      BY <2>1, <3>1, <3>3 DEF CacheEntries
    <3> QED BY <1>2, <2>1, <2>3, <3>2, <3>4 DEF Valid, Entries
  <2> QED BY <2>2, <2>3
<1> QED BY <1>1, <1>2

(* What one tick does: everything that is kept ages by one.                *)
LEMMA TickFacts ==
    ASSUME CacheInv, Tick
    PROVE  /\ UNCHANGED <<version, queue, subscribed, raced, faults>>
           /\ l1' \in [Pods -> [Wallets -> Entries]] /\ l2' \in [Wallets -> Entries]
           /\ \A p \in Pods : \A w \in Wallets : l1'[p][w] = Aged(l1[p][w])
           /\ \A w \in Wallets : l2'[w] \in {Aged(l2[w]), None}
           /\ replaced' \in [Wallets -> [Versions -> 0..(Bound + 1)]]
           /\ \A w \in Wallets : \A v \in Versions : replaced'[w][v] \in {replaced[w][v], replaced[w][v] + 1}
           /\ call' \in [Calls -> CallStates]
           /\ \A c \in Calls : /\ call'[c].pc = call[c].pc /\ call'[c].req = call[c].req /\ call'[c].v = call[c].v
                               /\ call[c].pc \in {"backfill", "set1", "set2"} => call'[c].held = call[c].held + 1
<1>1. UNCHANGED <<version, queue, subscribed, raced, faults>>
  BY DEF Tick, busVars
<1>2. l1 \in [Pods -> [Wallets -> Entries]] /\ l2 \in [Wallets -> Entries]
  BY DEF CacheInv, TypeOK
<1>3. /\ l1' \in [Pods -> [Wallets -> Entries]]
      /\ \A p \in Pods : \A w \in Wallets : l1'[p][w] = Aged(l1[p][w])
  <2>1. \A p \in Pods : \A w \in Wallets : Aged(l1[p][w]) \in Entries
    BY <1>2, AgedFacts
  <2> QED BY <2>1 DEF Tick
<1>4. l2' \in [Wallets -> Entries] /\ \A w \in Wallets : l2'[w] \in {Aged(l2[w]), None}
  <2>1. \A w \in Wallets : Aged(l2[w]) \in Entries
    BY <1>2, AgedFacts
  <2>2. None \in Entries
    BY DEF Entries
  <2>3. l2' = [w \in Wallets |-> IF Valid(Aged(l2[w])) THEN Aged(l2[w]) ELSE None]
    BY DEF Tick
  <2> QED BY <2>1, <2>2, <2>3
<1>5. /\ replaced' \in [Wallets -> [Versions -> 0..(Bound + 1)]]
      /\ \A w \in Wallets : \A v \in Versions : replaced'[w][v] \in {replaced[w][v], replaced[w][v] + 1}
  <2>1. replaced \in [Wallets -> [Versions -> 0..(Bound + 1)]]
    BY DEF CacheInv, TypeOK
  <2>2. Bound \in Nat
    BY CacheAssumption DEF CacheConstants, Bound
  <2>3. replaced' = [w \in Wallets |-> [v \in Versions |->
                       IF v < version[w] /\ replaced[w][v] <= Bound THEN replaced[w][v] + 1
                       ELSE replaced[w][v]]]
    BY DEF Tick
  <2>4. ASSUME NEW w \in Wallets, NEW v \in Versions
        PROVE  (replaced[w][v] <= Bound => replaced[w][v] + 1 \in 0..(Bound + 1)) /\ replaced[w][v] \in 0..(Bound + 1)
    <3>1. replaced[w][v] \in 0..(Bound + 1)
      BY <2>1
    <3> QED BY <2>2, <3>1
  <2> QED BY <2>3, <2>4
<1>6. ASSUME NEW c \in Calls
      PROVE  /\ call'[c] \in CallStates /\ call'[c].pc = call[c].pc /\ call'[c].req = call[c].req
             /\ call'[c].v = call[c].v
             /\ call[c].pc \in {"backfill", "set1", "set2"} => call'[c].held = call[c].held + 1
  <2>1. call[c] \in CallStates
    BY DEF CacheInv, TypeOK
  <2>2. CASE c \in Holding
    <3>1. call[c].held < Pause /\ call[c].held \in 0..Pause /\ Pause \in Nat
      BY <2>1, <2>2, CacheAssumption DEF Tick, CallStates, CacheConstants
    <3>2. call[c].held + 1 \in 0..Pause
      BY <3>1
    <3>3. PICK q : q = [call[c] EXCEPT !.held = @ + 1]
      OBVIOUS
    <3>4. call'[c] = q
      BY <2>2, <3>3 DEF Tick
    <3>5. q \in CallStates /\ q.pc = call[c].pc /\ q.req = call[c].req /\ q.v = call[c].v /\ q.held = call[c].held + 1
      BY <2>1, <3>2, <3>3 DEF CallStates
    <3> QED BY <3>4, <3>5
  <2>3. CASE c \notin Holding
    <3>1. call'[c] = call[c] /\ call[c].pc \notin {"backfill", "set1", "set2"}
      BY <2>3 DEF Tick, Holding
    <3> QED BY <2>1, <3>1
  <2> QED BY <2>2, <2>3
<1>7. call' \in [Calls -> CallStates]
  <2>1. call' = [c \in Calls |-> call'[c]]
    BY DEF Tick
  <2> QED BY <1>6, <2>1
<1> QED BY <1>1, <1>3, <1>4, <1>5, <1>6, <1>7

(* One tick.                                                               *)
LEMMA TickKeeps ==
    ASSUME CacheInv, Tick
    PROVE  CacheInv'
<1>1. UNCHANGED <<version, queue, subscribed, raced, faults>>
  BY TickFacts
<1>2. StoresOK /\ faults' \in 0..MaxFaults
  BY <1>1, StoresAreOK DEF CacheInv, TypeOK
<1>3. \A r \in Pods : \A w \in Wallets : l1'[r][w] # None => l1[r][w] # None
  <2>1. ASSUME NEW r \in Pods, NEW w \in Wallets, l1'[r][w] # None PROVE l1[r][w] # None
    <3>1. l1[r][w] \in Entries
      BY <1>2 DEF StoresOK
    <3> QED BY <2>1, <3>1, TickFacts, AgedFacts
  <2> QED BY <2>1
<1>4. /\ l1' \in [Pods -> [Wallets -> Entries]] /\ l2' \in [Wallets -> Entries]
      /\ replaced' \in [Wallets -> [Versions -> 0..(Bound + 1)]] /\ call' \in [Calls -> CallStates]
  BY TickFacts
<1>5. StoresOK'
  BY <1>1, <1>2, <1>3, <1>4, L1Shrinks DEF StoresOK
<1>6. ASSUME NEW d \in Calls
      PROVE Stage(call'[d]) /\ (call'[d].pc \in {"idle", "commit"} => call'[d].pc = call[d].pc)
  <2>1. Stage(call[d]) /\ call'[d].pc = call[d].pc /\ call'[d].req = call[d].req /\ call'[d].v = call[d].v
    BY TickFacts DEF CacheInv
  <2> QED BY <2>1 DEF Stage
<1> QED BY <1>1, <1>2, <1>4, <1>5, <1>6, ManyCalls

(* The initial states.                                                     *)
LEMMA InitHolds ==
    ASSUME Init
    PROVE  CacheInv
<1>1. /\ Cardinality(Calls) \in Nat /\ Bound \in Nat /\ MaxFaults \in Nat /\ MaxEntries \in Nat
  BY CountCalls, CacheAssumption DEF CacheConstants, Bound
<1>2. version \in [Wallets -> Versions] /\ \A w \in Wallets : version[w] = 0
  BY <1>1 DEF Init, Versions
<1>3. replaced \in [Wallets -> [Versions -> 0..(Bound + 1)]]
  BY <1>1 DEF Init
<1>4. l1 \in [Pods -> [Wallets -> Entries]] /\ l2 \in [Wallets -> Entries]
  BY DEF Init, Entries
<1>5. ASSUME NEW p \in Pods PROVE Cardinality({w \in Wallets : l1[p][w] # None}) <= MaxEntries
  <2>1. {w \in Wallets : l1[p][w] # None} = {}
    BY DEF Init
  <2> QED BY <1>1, <2>1, FS_EmptySet
<1>6. queue \in [Pods -> Seq([w : Wallets, origin : Pods])]
  <2>1. PICK M : M = [w : Wallets, origin : Pods]
    OBVIOUS
  <2>2. << >> \in Seq(M)
    OBVIOUS
  <2>3. queue \in [Pods -> Seq(M)]
    BY <2>2 DEF Init
  <2> QED BY <2>1, <2>3
<1>7. Idle \in CallStates /\ Idle.pc = "idle" /\ Idle.req = None
  <2>1. 0 \in 0..Pause /\ "idle" \in Labels
    BY CacheAssumption DEF CacheConstants, Labels
  <2> QED BY <2>1 DEF Idle, CallStates
<1>8. call \in [Calls -> CallStates] /\ \A c \in Calls : Stage(call[c])
  BY <1>7 DEF Init, Stage
<1>9. TypeOK
  BY <1>1, <1>2, <1>3, <1>4, <1>5, <1>6, <1>8 DEF TypeOK, Init
<1>10. CommitsCounted
  <2>1. Past \subseteq Calls
    BY DEF Past
  <2>2. Cardinality(Past) \in Nat
    BY <2>1, CountCalls
  <2> QED BY <1>2, <2>2 DEF CommitsCounted
<1> QED BY <1>8, <1>9, <1>10 DEF CacheInv

(* Every step.                                                             *)
LEMMA NextKeeps ==
    ASSUME CacheInv, [Next]_vars
    PROVE  CacheInv'
<1>1. CASE Tick
  BY <1>1, TickKeeps
<1>2. ASSUME NEW c \in Calls, CallStep(c) PROVE CacheInv'
  BY <1>2, GetL1Keeps, GetL2Keeps, ReadDBKeeps, ReadDBFailsKeeps, SetLocalKeeps, SetL2Keeps, CommitKeeps,
     InvalidateLocalKeeps, InvalidateL2Keeps, PublishInvalidationKeeps DEF CallStep
<1>3. ASSUME NEW c \in Calls, NEW r \in Requests[c], Begin(c, r) PROVE CacheInv'
  BY <1>3, BeginKeeps
<1>4. ASSUME NEW p \in Pods, Deliver(p) \/ LoseSubscription(p) \/ Restart(p) \/ Cleanup(p) PROVE CacheInv'
  BY <1>4, DeliverKeeps, LoseSubscriptionKeeps, RestartKeeps, CleanupKeeps
<1>5. CASE UNCHANGED vars
  <2>1. UNCHANGED <<dbVars, l1, l2, busVars>> /\ raced' = raced /\ faults' = faults /\ call' = call
    BY <1>5 DEF vars
  <2>2. StoresOK' /\ version' = version /\ faults' \in 0..MaxFaults
    BY <2>1, StoresKept DEF CacheInv, TypeOK
  <2> QED BY <2>1, <2>2, NoCall
<1> QED BY <1>1, <1>2, <1>3, <1>4, <1>5 DEF Next

(* CacheInv holds in every reachable state.                                *)
THEOREM CacheInvariant == Spec => []CacheInv
<1>1. Init => CacheInv
  BY InitHolds
<1>2. CacheInv /\ [Next]_vars => CacheInv'
  BY NextKeeps
<1> QED BY <1>1, <1>2, PTL DEF Spec

(* Entries, messages and calls keep their shape and no L1 outgrows its     *)
(* capacity, for any sets and bounds.                                      *)
THEOREM TypeCorrect == Spec => []TypeOK
<1>1. CacheInv => TypeOK
  BY DEF CacheInv
<1> QED BY <1>1, CacheInvariant, PTL

-----------------------------------------------------------------------------
(* Ages.  An older bound is a weaker one.                                  *)
LEMMA AgeMonotone ==
    ASSUME CacheInv, NEW w \in Wallets, NEW v \in Versions, NEW a \in Int, NEW b \in Int, a <= b, NotOlder(w, v, a)
    PROVE  NotOlder(w, v, b)
<1>1. replaced[w][v] \in 0..(Bound + 1) /\ Bound \in Nat
  BY CacheAssumption DEF CacheInv, TypeOK, CacheConstants, Bound
<1> QED BY <1>1 DEF NotOlder

(* What a valid entry holds.                                               *)
LEMMA ValidEntry ==
    ASSUME NEW e \in Entries, Valid(e)
    PROVE  e.v \in Versions /\ e.left \in 0..TTL /\ TTL \in Nat /\ Pause \in Nat
<1>1. e \in CacheEntries /\ e.left >= 0
  BY DEF Entries, Valid
<1> QED BY <1>1, CacheAssumption DEF CacheEntries, CacheConstants

(* A call that holds a balance.                                            *)
LEMMA HoldingFacts ==
    ASSUME CacheInv, NEW c \in Calls, call[c].pc \in {"backfill", "set1", "set2"}
    PROVE  call[c].v \in Versions /\ W(c) \in Wallets /\ P(c) \in Pods /\ call[c].held \in 0..Pause
           /\ TTL \in Nat /\ Pause \in Nat /\ call[c].req # None
<1>1. call[c] \in CallStates /\ Stage(call[c]) /\ call[c].req # None /\ W(c) \in Wallets /\ P(c) \in Pods
  BY CallFacts
<1> QED BY <1>1, CacheAssumption DEF CallStates, Stage, CacheConstants

(* A step that replaces nothing: what is new must be young enough.         *)
LEMMA AgeKept ==
    ASSUME AgeInv, version' = version, replaced' = replaced,
           \A c \in Calls : call'[c] = call[c] \/ CallAge(c)',
           \A w \in Wallets : l2'[w] \in {l2[w], None} \/ L2Age(w)',
           \A p \in Pods : \A w \in Wallets : l1'[p][w] \in {l1[p][w], None} \/ L1Age(p, w)'
    PROVE  AgeInv'
<1>1. ASSUME NEW c \in Calls, call'[c] = call[c] PROVE CallAge(c)'
  <2>1. CallAge(c)
    BY DEF AgeInv
  <2> QED BY <1>1, <2>1 DEF CallAge, NotOlder, W
<1>2. ASSUME NEW w \in Wallets, l2'[w] \in {l2[w], None} PROVE L2Age(w)'
  <2>1. L2Age(w)
    BY DEF AgeInv
  <2> QED BY <1>2, <2>1 DEF L2Age, NotOlder, Valid
<1>3. ASSUME NEW p \in Pods, NEW w \in Wallets, l1'[p][w] \in {l1[p][w], None} PROVE L1Age(p, w)'
  <2>1. L1Age(p, w)
    BY DEF AgeInv
  <2> QED BY <1>3, <2>1 DEF L1Age, NotOlder, Valid
<1>4. \A c \in Calls : CallAge(c)'
  BY <1>1
<1>5. \A w \in Wallets : L2Age(w)'
  BY <1>2
<1>6. \A p \in Pods : \A w \in Wallets : L1Age(p, w)'
  BY <1>3
<1> QED BY <1>4, <1>5, <1>6 DEF AgeInv

(* A call that holds no balance has no age.                                *)
LEMMA NoAge ==
    ASSUME NEW c \in Calls, call'[c].pc \notin {"backfill", "set1", "set2"}
    PROVE  CallAge(c)'
BY DEF CallAge

(* A step of call c that leaves it without a balance and stores none.      *)
LEMMA AgeCallStep ==
    ASSUME AgeInv, NEW c \in Calls, version' = version, replaced' = replaced,
           \A d \in Calls : d # c => call'[d] = call[d], call'[c].pc \notin {"backfill", "set1", "set2"},
           \A w \in Wallets : l2'[w] \in {l2[w], None},
           \A p \in Pods : \A w \in Wallets : l1'[p][w] \in {l1[p][w], None}
    PROVE  AgeInv'
<1>1. \A d \in Calls : call'[d] = call[d] \/ CallAge(d)'
  BY NoAge
<1> QED BY <1>1, AgeKept

(* A request, the look into L1, and the steps of Invalidate store nothing. *)
LEMMA AgeQuiet ==
    ASSUME CacheInv, AgeInv, NEW c \in Calls,
           \/ \E r \in Requests[c] : Begin(c, r)
           \/ GetL1(c) \/ ReadDBFails(c) \/ InvalidateLocal(c) \/ InvalidateL2(c) \/ PublishInvalidation(c)
    PROVE  AgeInv'
<1>1. "l2" \in Labels /\ "redis" \in Labels /\ "publish" \in Labels
  BY DEF Labels
<1>2. ASSUME NEW r \in Requests[c], Begin(c, r) PROVE AgeInv'
  <2>1. UNCHANGED <<version, replaced, l1, l2>>
    BY <1>2 DEF Begin, dbVars
  <2>2. call[c] \in CallStates /\ call \in [Calls -> CallStates]
    BY CallFacts
  <2>3. PICK l \in {"l1", "commit"} : l = IF r.op = "READ" THEN "l1" ELSE "commit"
    OBVIOUS
  <2>4. PICK q : q = [call[c] EXCEPT !.req = r, !.pc = l]
    OBVIOUS
  <2>5. call' = [call EXCEPT ![c] = q]
    BY <1>2, <2>3, <2>4 DEF Begin
  <2>6. q.pc = l
    BY <2>2, <2>4 DEF CallStates
  <2>7. call'[c].pc = l /\ \A d \in Calls : d # c => call'[d] = call[d]
    BY <2>2, <2>5, <2>6
  <2> QED BY <2>1, <2>3, <2>7, AgeCallStep
<1>3. CASE GetL1(c)
  <2>1. call[c].pc = "l1" /\ UNCHANGED <<version, replaced, l2>> /\ P(c) \in Pods /\ W(c) \in Wallets
    BY <1>3, CallFacts DEF GetL1, dbVars
  <2>2. CASE Return(c) /\ UNCHANGED l1
    <3>1. call'[c].pc = "done" /\ \A d \in Calls : d # c => call'[d] = call[d]
      BY <2>2, ReturnFacts, FinishedFacts
    <3> QED BY <2>1, <2>2, <3>1, AgeCallStep
  <2>3. CASE Goto(c, "l2") /\ l1' = [l1 EXCEPT ![P(c)] = [@ EXCEPT ![W(c)] = None]]
    <3>1. call'[c].pc = "l2" /\ \A d \in Calls : d # c => call'[d] = call[d]
      BY <1>1, <2>1, <2>3, GotoFacts
    <3>2. \A p \in Pods : \A w \in Wallets : l1'[p][w] \in {l1[p][w], None}
      BY <2>1, <2>3, OneForgotten
    <3> QED BY <2>1, <3>1, <3>2, AgeCallStep
  <2> QED BY <1>3, <2>2, <2>3 DEF GetL1
<1>4. CASE InvalidateLocal(c)
  <2>1. /\ call[c].pc = "local" /\ UNCHANGED <<version, replaced, l2>> /\ Goto(c, "redis")
        /\ \A p \in Pods : \A w \in Wallets : l1'[p][w] \in {l1[p][w], None}
    BY <1>4, InvalidateLocalFacts
  <2>2. call'[c].pc = "redis" /\ \A d \in Calls : d # c => call'[d] = call[d]
    BY <1>1, <2>1, GotoFacts
  <2> QED BY <2>1, <2>2, AgeCallStep
<1>5. CASE InvalidateL2(c)
  <2>1. /\ call[c].pc = "redis" /\ UNCHANGED <<version, replaced, l1>> /\ Goto(c, "publish")
    BY <1>5 DEF InvalidateL2, dbVars
  <2>2. call'[c].pc = "publish" /\ \A d \in Calls : d # c => call'[d] = call[d]
    BY <1>1, <2>1, GotoFacts
  <2>3. l2 \in [Wallets -> Entries]
    BY DEF CacheInv, TypeOK
  <2>4. \A w \in Wallets : l2'[w] \in {l2[w], None}
    BY <1>5, <2>3 DEF InvalidateL2
  <2> QED BY <2>1, <2>2, <2>4, AgeCallStep
<1>6. CASE PublishInvalidation(c) \/ ReadDBFails(c)
  <2>1. UNCHANGED <<version, replaced, l1, l2>> /\ Return(c)
    BY <1>6 DEF PublishInvalidation, ReadDBFails, dbVars
  <2>2. call'[c].pc = "done" /\ \A d \in Calls : d # c => call'[d] = call[d]
    BY <2>1, ReturnFacts, FinishedFacts
  <2> QED BY <2>1, <2>2, AgeCallStep
<1> QED BY <1>2, <1>3, <1>4, <1>5, <1>6

(* From Redis a balance comes with the age it had there.                   *)
LEMMA AgeGetL2 ==
    ASSUME CacheInv, AgeInv, NEW c \in Calls, GetL2(c)
    PROVE  AgeInv'
<1>1. call[c].pc = "l2" /\ UNCHANGED <<version, replaced, l1, l2>> /\ W(c) \in Wallets
  BY CallFacts DEF GetL2, dbVars
<1>2. CASE Goto(c, "db")
  <2>1. "db" \in Labels
    BY DEF Labels
  <2>2. call'[c].pc = "db" /\ \A d \in Calls : d # c => call'[d] = call[d]
    BY <1>1, <1>2, <2>1, GotoFacts
  <2> QED BY <1>1, <2>2, AgeCallStep
<1>3. CASE Valid(l2[W(c)]) /\ Got(c, l2[W(c)].v, "backfill")
  <2>1. PICK x \in Wallets : x = W(c)
    BY <1>1
  <2>2. PICK e : e = l2[x]
    OBVIOUS
  <2>3. e \in Entries /\ Valid(e) /\ Got(c, e.v, "backfill")
    BY <1>3, <2>1, <2>2 DEF CacheInv, TypeOK
  <2>4. e.v \in Versions /\ e.left \in 0..TTL /\ TTL \in Nat /\ Pause \in Nat
    BY <2>3, ValidEntry
  <2>5. /\ \A d \in Calls : d # c => call'[d] = call[d]
        /\ call'[c].pc = "backfill" /\ call'[c].req = call[c].req /\ call'[c].v = e.v /\ call'[c].held = 0
    BY <1>1, <2>3, <2>4, GotFacts
  <2>6. NotOlder(x, e.v, Pause + TTL - e.left)
    BY <2>2, <2>3 DEF AgeInv, L2Age
  <2>7. NotOlder(x, e.v, Pause + TTL + 0)
    <3>1. Pause + TTL - e.left \in Int /\ Pause + TTL + 0 \in Int /\ Pause + TTL - e.left <= Pause + TTL + 0
      BY <2>4
    <3> QED BY <2>4, <2>6, <3>1, AgeMonotone
  <2>8. CallAge(c)'
    BY <1>1, <2>1, <2>5, <2>7 DEF CallAge, NotOlder, W
  <2> QED BY <1>1, <2>5, <2>8, AgeKept
<1> QED BY <1>2, <1>3 DEF GetL2

(* From the database it comes with none.                                   *)
LEMMA AgeReadDB ==
    ASSUME CacheInv, AgeInv, NEW c \in Calls, ReadDB(c)
    PROVE  AgeInv'
<1>1. /\ call[c].pc = "db" /\ UNCHANGED <<version, replaced, l1, l2>> /\ W(c) \in Wallets
      /\ Got(c, version[W(c)], "set1")
  BY CallFacts DEF ReadDB, dbVars
<1>2. PICK v : v = version[W(c)]
  OBVIOUS
<1>3. v \in Versions /\ Cardinality(Calls) \in Nat
  BY <1>1, <1>2, CountCalls DEF CacheInv, TypeOK
<1>4. /\ \A d \in Calls : d # c => call'[d] = call[d]
      /\ call'[c].pc = "set1" /\ call'[c].req = call[c].req /\ call'[c].v = v /\ call'[c].held = 0
  BY <1>1, <1>2, <1>3, GotFacts
<1>5. v <= v /\ ~(v < v)
  BY <1>3 DEF Versions
<1>6. CallAge(c)'
  BY <1>1, <1>2, <1>4, <1>5 DEF CallAge, NotOlder, W
<1> QED BY <1>1, <1>4, <1>6, AgeKept

(* Stored into L1, it is at most two pauses and a TTL old.                 *)
LEMMA AgeSetLocal ==
    ASSUME CacheInv, AgeInv, NEW c \in Calls, SetLocal(c)
    PROVE  AgeInv'
<1>1. /\ call[c].pc \in {"backfill", "set1"} /\ UNCHANGED <<version, replaced, l2>>
      /\ l1'[P(c)][W(c)] = Entry(call[c].v)
      /\ \A p \in Pods : p # P(c) => l1'[p] = l1[p]
      /\ \A w \in Wallets : w # W(c) => l1'[P(c)][w] \in {l1[P(c)][w], None}
  BY SetLocalFacts
<1>2. /\ call[c].v \in Versions /\ W(c) \in Wallets /\ P(c) \in Pods /\ call[c].held \in 0..Pause
      /\ TTL \in Nat /\ Pause \in Nat
  BY <1>1, HoldingFacts
<1>3. PICK v \in Versions, x \in Wallets, h \in 0..Pause : v = call[c].v /\ x = W(c) /\ h = call[c].held
  BY <1>2
<1>4. NotOlder(x, v, h) \/ NotOlder(x, v, Pause + TTL + h)
  BY <1>1, <1>3 DEF AgeInv, CallAge
<1>5. NotOlder(x, v, 2 * Pause + TTL + TTL - TTL)
  <2>1. /\ 2 * Pause + TTL + TTL - TTL \in Int /\ h \in Int /\ Pause + TTL + h \in Int
        /\ h <= 2 * Pause + TTL + TTL - TTL /\ Pause + TTL + h <= 2 * Pause + TTL + TTL - TTL
    BY <1>2
  <2>2. PICK b \in Int : b = 2 * Pause + TTL + TTL - TTL
    BY <2>1
  <2>3. h <= b /\ Pause + TTL + h <= b
    BY <2>1, <2>2
  <2>4. NotOlder(x, v, b)
    BY <1>4, <2>1, <2>3, AgeMonotone
  <2> QED BY <2>2, <2>4
<1>6. Entry(v).v = v /\ Entry(v).left = TTL
  BY EntryFacts
<1>7. ASSUME NEW p \in Pods, NEW w \in Wallets PROVE l1'[p][w] \in {l1[p][w], None} \/ L1Age(p, w)'
  <2>1. CASE p = P(c) /\ w = W(c)
    <3>1. l1'[p][w] = Entry(v) /\ w = x
      BY <1>1, <1>3, <2>1
    <3> QED BY <1>1, <1>5, <1>6, <3>1 DEF L1Age, NotOlder
  <2>2. CASE p # P(c)
    BY <1>1, <2>2
  <2>3. CASE p = P(c) /\ w # W(c)
    BY <1>1, <2>3
  <2> QED BY <2>1, <2>2, <2>3
<1>8. ASSUME NEW d \in Calls PROVE call'[d] = call[d] \/ CallAge(d)'
  <2>1. CASE Return(c)
    BY <2>1, ReturnFacts, FinishedFacts, NoAge
  <2>2. CASE Goto(c, "set2") /\ call[c].pc = "set1"
    <3>1. "set2" \in Labels
      BY DEF Labels
    <3>2. /\ \A e \in Calls : e # c => call'[e] = call[e]
          /\ call'[c].pc = "set2" /\ call'[c].req = call[c].req /\ call'[c].v = call[c].v
          /\ call'[c].held = call[c].held
      BY <1>2, <2>2, <3>1, GotoFacts
    <3>3. CallAge(c)
      BY DEF AgeInv
    <3>4. CallAge(c)'
      BY <1>1, <2>2, <3>2, <3>3 DEF CallAge, NotOlder, W
    <3> QED BY <3>2, <3>4
  <2> QED BY <1>1, <2>1, <2>2 DEF SetLocal
<1> QED BY <1>1, <1>7, <1>8, AgeKept

(* Stored into Redis, it is at most a pause old.                           *)
LEMMA AgeSetL2 ==
    ASSUME CacheInv, AgeInv, NEW c \in Calls, SetL2(c)
    PROVE  AgeInv'
<1>1. call[c].pc = "set2" /\ UNCHANGED <<version, replaced, l1>> /\ Return(c)
  BY DEF SetL2, dbVars
<1>2. /\ call[c].v \in Versions /\ W(c) \in Wallets /\ call[c].held \in 0..Pause
      /\ TTL \in Nat /\ Pause \in Nat
  BY <1>1, HoldingFacts
<1>3. PICK v \in Versions, x \in Wallets, h \in 0..Pause : v = call[c].v /\ x = W(c) /\ h = call[c].held
  BY <1>2
<1>4. NotOlder(x, v, h)
  BY <1>1, <1>3 DEF AgeInv, CallAge
<1>5. NotOlder(x, v, Pause + TTL - TTL)
  <2>1. Pause + TTL - TTL \in Int /\ h \in Int /\ h <= Pause + TTL - TTL
    BY <1>2
  <2> QED BY <1>4, <2>1, AgeMonotone
<1>6. Entry(v).v = v /\ Entry(v).left = TTL
  BY EntryFacts
<1>7. ASSUME NEW w \in Wallets PROVE l2'[w] \in {l2[w], None} \/ L2Age(w)'
  <2>1. l2 \in [Wallets -> Entries]
    BY DEF CacheInv, TypeOK
  <2>2. l2'[w] = l2[w] \/ (w = x /\ l2'[w] = Entry(v))
    BY <1>3, <2>1 DEF SetL2
  <2>3. CASE w = x /\ l2'[w] = Entry(v)
    BY <1>1, <1>5, <1>6, <2>3 DEF L2Age, NotOlder
  <2> QED BY <2>2, <2>3
<1>8. \A d \in Calls : call'[d] = call[d] \/ CallAge(d)'
  BY <1>1, ReturnFacts, FinishedFacts, NoAge
<1> QED BY <1>1, <1>7, <1>8, AgeKept

(* A commit ages no balance that was old before, and the one it replaces   *)
(* starts at zero.                                                         *)
LEMMA CommitAges ==
    ASSUME CacheInv, NEW c \in Calls, Commit(c), NEW w \in Wallets, NEW v \in Versions, NEW a \in Nat, NotOlder(w, v, a)
    PROVE  v <= version'[w] /\ (v < version'[w] => replaced'[w][v] <= a)
<1>1. version[w] \in Nat /\ v \in Nat
  <2>1. Cardinality(Calls) \in Nat /\ version[w] \in Versions
    BY CountCalls DEF CacheInv, TypeOK
  <2> QED BY <2>1 DEF Versions
<1>2. CASE w # W(c)
  <2>1. version'[w] = version[w] /\ replaced'[w][v] = replaced[w][v]
    BY <1>2, CommitFacts
  <2> QED BY <2>1 DEF NotOlder
<1>3. CASE w = W(c)
  <2>1. version'[w] = version[w] + 1 /\ (v = version[w] => replaced'[w][v] = 0)
    BY <1>3, CommitFacts
  <2>2. v # version[w] => replaced'[w][v] = replaced[w][v]
    BY CommitFacts
  <2> QED BY <1>1, <2>1, <2>2 DEF NotOlder
<1> QED BY <1>2, <1>3

(* The commit of a movement.                                               *)
LEMMA AgeCommit ==
    ASSUME CacheInv, AgeInv, NEW c \in Calls, Commit(c)
    PROVE  AgeInv'
<1>1. call[c].pc = "commit" /\ UNCHANGED <<l1, l2>> /\ Goto(c, "local")
  BY CommitFacts
<1>2. "local" \in Labels
  BY DEF Labels
<1>3. call'[c].pc = "local" /\ \A d \in Calls : d # c => call'[d] = call[d]
  BY <1>1, <1>2, GotoFacts
<1>4. ASSUME NEW d \in Calls PROVE CallAge(d)'
  <2>1. CASE call'[d].pc \notin {"backfill", "set1", "set2"}
    BY <2>1, NoAge
  <2>2. CASE call'[d].pc \in {"backfill", "set1", "set2"}
    <3>1. call'[d] = call[d] /\ call[d].pc \in {"backfill", "set1", "set2"}
      BY <1>3, <2>2
    <3>2. call[d].v \in Versions /\ W(d) \in Wallets /\ call[d].held \in 0..Pause /\ TTL \in Nat /\ Pause \in Nat
      BY <3>1, HoldingFacts
    <3>3. PICK v \in Versions, x \in Wallets, h \in 0..Pause : v = call[d].v /\ x = W(d) /\ h = call[d].held
      BY <3>2
    <3>4. h \in Nat /\ Pause + TTL + h \in Nat
      BY <3>2
    <3>5. CASE call[d].pc \in {"set1", "set2"}
      <4>1. NotOlder(x, v, h)
        BY <3>3, <3>5 DEF AgeInv, CallAge
      <4>2. v <= version'[x] /\ (v < version'[x] => replaced'[x][v] <= h)
        BY <3>4, <4>1, CommitAges
      <4> QED BY <3>1, <3>3, <3>5, <4>2 DEF CallAge, NotOlder, W
    <3>6. CASE call[d].pc = "backfill"
      <4>1. NotOlder(x, v, Pause + TTL + h)
        BY <3>3, <3>6 DEF AgeInv, CallAge
      <4>2. v <= version'[x] /\ (v < version'[x] => replaced'[x][v] <= Pause + TTL + h)
        BY <3>4, <4>1, CommitAges
      <4> QED BY <3>1, <3>3, <3>6, <4>2 DEF CallAge, NotOlder, W
    <3> QED BY <3>1, <3>5, <3>6
  <2> QED BY <2>1, <2>2
<1>5. ASSUME NEW w \in Wallets PROVE L2Age(w)'
  <2>1. SUFFICES ASSUME Valid(l2[w]) PROVE L2Age(w)'
    BY <1>1 DEF L2Age, Valid
  <2>2. PICK e \in Entries : e = l2[w]
    BY DEF CacheInv, TypeOK
  <2>3. e.v \in Versions /\ e.left \in 0..TTL /\ TTL \in Nat /\ Pause \in Nat
    BY <2>1, <2>2, ValidEntry
  <2>4. Pause + TTL - e.left \in Nat
    BY <2>3
  <2>5. NotOlder(w, e.v, Pause + TTL - e.left)
    BY <2>1, <2>2 DEF AgeInv, L2Age
  <2>6. e.v <= version'[w] /\ (e.v < version'[w] => replaced'[w][e.v] <= Pause + TTL - e.left)
    BY <2>3, <2>4, <2>5, CommitAges
  <2> QED BY <1>1, <2>2, <2>6 DEF L2Age, NotOlder
<1>6. ASSUME NEW p \in Pods, NEW w \in Wallets PROVE L1Age(p, w)'
  <2>1. SUFFICES ASSUME Valid(l1[p][w]) PROVE L1Age(p, w)'
    BY <1>1 DEF L1Age, Valid
  <2>2. PICK e \in Entries : e = l1[p][w]
    BY DEF CacheInv, TypeOK
  <2>3. e.v \in Versions /\ e.left \in 0..TTL /\ TTL \in Nat /\ Pause \in Nat
    BY <2>1, <2>2, ValidEntry
  <2>4. 2 * Pause + TTL + TTL - e.left \in Nat
    BY <2>3
  <2>5. NotOlder(w, e.v, 2 * Pause + TTL + TTL - e.left)
    BY <2>1, <2>2 DEF AgeInv, L1Age
  <2>6. e.v <= version'[w] /\ (e.v < version'[w] => replaced'[w][e.v] <= 2 * Pause + TTL + TTL - e.left)
    BY <2>3, <2>4, <2>5, CommitAges
  <2> QED BY <1>1, <2>2, <2>6 DEF L1Age, NotOlder
<1> QED BY <1>4, <1>5, <1>6 DEF AgeInv

(* A tick adds at most one to every age.                                   *)
LEMMA TickAges ==
    ASSUME CacheInv, Tick, NEW w \in Wallets, NEW v \in Versions, NEW a \in Int, NotOlder(w, v, a)
    PROVE  v <= version'[w] /\ (v < version'[w] => replaced'[w][v] <= a + 1)
<1>1. version' = version /\ replaced'[w][v] \in {replaced[w][v], replaced[w][v] + 1}
  BY TickFacts
<1>2. replaced[w][v] \in 0..(Bound + 1) /\ Bound \in Nat
  BY CacheAssumption DEF CacheInv, TypeOK, CacheConstants, Bound
<1> QED BY <1>1, <1>2 DEF NotOlder

(* One tick: what is held ages by one, what is stored has one less left.   *)
LEMMA AgeTick ==
    ASSUME CacheInv, AgeInv, Tick
    PROVE  AgeInv'
<1>1. ASSUME NEW d \in Calls PROVE CallAge(d)'
  <2>1. call'[d].pc = call[d].pc /\ call'[d].req = call[d].req /\ call'[d].v = call[d].v
    BY TickFacts
  <2>2. CASE call'[d].pc \notin {"backfill", "set1", "set2"}
    BY <2>2, NoAge
  <2>3. CASE call'[d].pc \in {"backfill", "set1", "set2"}
    <3>1. call[d].pc \in {"backfill", "set1", "set2"}
      BY <2>1, <2>3
    <3>2. call[d].v \in Versions /\ W(d) \in Wallets /\ call[d].held \in 0..Pause /\ TTL \in Nat /\ Pause \in Nat
      BY <3>1, HoldingFacts
    <3>3. call'[d].held = call[d].held + 1
      BY <3>1, TickFacts
    <3>4. PICK v \in Versions, x \in Wallets, h \in 0..Pause : v = call[d].v /\ x = W(d) /\ h = call[d].held
      BY <3>2
    <3>5. h \in Int /\ Pause + TTL + h \in Int /\ (Pause + TTL + h) + 1 = Pause + TTL + (h + 1)
      BY <3>2
    <3>6. CASE call[d].pc \in {"set1", "set2"}
      <4>1. NotOlder(x, v, h)
        BY <3>4, <3>6 DEF AgeInv, CallAge
      <4>2. v <= version'[x] /\ (v < version'[x] => replaced'[x][v] <= h + 1)
        BY <3>5, <4>1, TickAges
      <4> QED BY <2>1, <3>3, <3>4, <3>6, <4>2 DEF CallAge, NotOlder, W
    <3>7. CASE call[d].pc = "backfill"
      <4>1. NotOlder(x, v, Pause + TTL + h)
        BY <3>4, <3>7 DEF AgeInv, CallAge
      <4>2. v <= version'[x] /\ (v < version'[x] => replaced'[x][v] <= Pause + TTL + (h + 1))
        BY <3>5, <4>1, TickAges
      <4> QED BY <2>1, <3>3, <3>4, <3>7, <4>2 DEF CallAge, NotOlder, W
    <3> QED BY <3>1, <3>6, <3>7
  <2> QED BY <2>2, <2>3
<1>2. ASSUME NEW w \in Wallets PROVE L2Age(w)'
  <2>1. PICK e \in Entries : e = l2[w]
    BY DEF CacheInv, TypeOK
  <2>2. PICK f : f = l2'[w]
    OBVIOUS
  <2>3. f \in {Aged(e), None}
    BY <2>1, <2>2, TickFacts
  <2>4. CASE ~Valid(f)
    BY <2>2, <2>4 DEF L2Age, Valid
  <2>5. CASE Valid(f)
    <3>1. Valid(e) /\ f.v = e.v /\ f.left = e.left - 1
      BY <2>3, <2>5, AgedFacts DEF Valid
    <3>2. e.v \in Versions /\ e.left \in 0..TTL /\ TTL \in Nat /\ Pause \in Nat
      BY <3>1, ValidEntry
    <3>3. Pause + TTL - e.left \in Int /\ (Pause + TTL - e.left) + 1 = Pause + TTL - (e.left - 1)
      BY <3>2
    <3>4. NotOlder(w, e.v, Pause + TTL - e.left)
      BY <2>1, <3>1 DEF AgeInv, L2Age
    <3>5. e.v <= version'[w] /\ (e.v < version'[w] => replaced'[w][e.v] <= Pause + TTL - (e.left - 1))
      BY <3>2, <3>3, <3>4, TickAges
    <3> QED BY <2>2, <3>1, <3>5 DEF L2Age, NotOlder
  <2> QED BY <2>4, <2>5
<1>3. ASSUME NEW p \in Pods, NEW w \in Wallets PROVE L1Age(p, w)'
  <2>1. PICK e \in Entries : e = l1[p][w]
    BY DEF CacheInv, TypeOK
  <2>2. PICK f : f = l1'[p][w]
    OBVIOUS
  <2>3. f = Aged(e)
    BY <2>1, <2>2, TickFacts
  <2>4. CASE ~Valid(f)
    BY <2>2, <2>4 DEF L1Age, Valid
  <2>5. CASE Valid(f)
    <3>1. Valid(e) /\ f.v = e.v /\ f.left = e.left - 1
      BY <2>3, <2>5, AgedFacts
    <3>2. e.v \in Versions /\ e.left \in 0..TTL /\ TTL \in Nat /\ Pause \in Nat
      BY <3>1, ValidEntry
    <3>3. /\ 2 * Pause + TTL + TTL - e.left \in Int
          /\ (2 * Pause + TTL + TTL - e.left) + 1 = 2 * Pause + TTL + TTL - (e.left - 1)
      BY <3>2
    <3>4. NotOlder(w, e.v, 2 * Pause + TTL + TTL - e.left)
      BY <2>1, <3>1 DEF AgeInv, L1Age
    <3>5. e.v <= version'[w] /\ (e.v < version'[w] => replaced'[w][e.v] <= 2 * Pause + TTL + TTL - (e.left - 1))
      BY <3>2, <3>3, <3>4, TickAges
    <3> QED BY <2>2, <3>1, <3>5 DEF L1Age, NotOlder
  <2> QED BY <2>4, <2>5
<1> QED BY <1>1, <1>2, <1>3 DEF AgeInv

(* The steps of the pods store nothing.                                    *)
LEMMA AgePods ==
    ASSUME CacheInv, AgeInv, NEW p \in Pods, Deliver(p) \/ LoseSubscription(p) \/ Restart(p) \/ Cleanup(p)
    PROVE  AgeInv'
<1>1. CASE Deliver(p)
  <2>1. UNCHANGED <<version, replaced, l2, call>> /\ \A r \in Pods : \A w \in Wallets : l1'[r][w] \in {l1[r][w], None}
    BY <1>1, DeliverFacts
  <2> QED BY <2>1, AgeKept
<1>2. CASE LoseSubscription(p)
  <2>1. UNCHANGED <<version, replaced, l1, l2, call>>
    BY <1>2 DEF LoseSubscription, dbVars
  <2> QED BY <2>1, AgeKept
<1>3. CASE Restart(p)
  <2>1. /\ UNCHANGED <<version, replaced, l2>> /\ \A r \in Pods : \A w \in Wallets : l1'[r][w] \in {l1[r][w], None}
        /\ \A d \in Calls : call'[d] \in {call[d], Finished}
    BY <1>3, RestartFacts
  <2>2. \A d \in Calls : call'[d] = call[d] \/ CallAge(d)'
    BY <2>1, FinishedFacts, NoAge
  <2> QED BY <2>1, <2>2, AgeKept
<1>4. CASE Cleanup(p)
  <2>1. UNCHANGED <<version, replaced, l2, call>> /\ \A r \in Pods : \A w \in Wallets : l1'[r][w] \in {l1[r][w], None}
    BY <1>4, CleanupFacts
  <2> QED BY <2>1, AgeKept
<1> QED BY <1>1, <1>2, <1>3, <1>4

(* Every step.                                                             *)
LEMMA AgeNext ==
    ASSUME CacheInv, AgeInv, [Next]_vars
    PROVE  AgeInv'
<1>1. CASE Tick
  BY <1>1, AgeTick
<1>2. ASSUME NEW c \in Calls, CallStep(c) PROVE AgeInv'
  BY <1>2, AgeQuiet, AgeGetL2, AgeReadDB, AgeSetLocal, AgeSetL2, AgeCommit DEF CallStep
<1>3. ASSUME NEW c \in Calls, NEW r \in Requests[c], Begin(c, r) PROVE AgeInv'
  BY <1>3, AgeQuiet
<1>4. ASSUME NEW p \in Pods, Deliver(p) \/ LoseSubscription(p) \/ Restart(p) \/ Cleanup(p) PROVE AgeInv'
  BY <1>4, AgePods
<1>5. CASE UNCHANGED vars
  <2>1. UNCHANGED <<version, replaced, l1, l2, call>>
    BY <1>5 DEF vars, dbVars
  <2> QED BY <2>1, AgeKept
<1> QED BY <1>1, <1>2, <1>3, <1>4, <1>5 DEF Next

(* Nothing that can be served is older than the bound.                     *)
LEMMA AgeServed ==
    ASSUME CacheInv, AgeInv
    PROVE  StalenessBounded
<1>1. SUFFICES ASSUME NEW w \in Wallets, NEW v \in Served(w) PROVE v < version[w] => replaced[w][v] <= Bound
  BY DEF StalenessBounded
<1>2. TTL \in Nat /\ Pause \in Nat
  BY CacheAssumption DEF CacheConstants
<1>3. ASSUME NEW p \in Pods, Valid(l1[p][w]), v = l1[p][w].v PROVE v < version[w] => replaced[w][v] <= Bound
  <2>1. PICK e \in Entries : e = l1[p][w]
    BY DEF CacheInv, TypeOK
  <2>2. e.v \in Versions /\ e.left \in 0..TTL /\ v = e.v
    BY <1>3, <2>1, ValidEntry
  <2>3. NotOlder(w, e.v, 2 * Pause + TTL + TTL - e.left)
    BY <1>3, <2>1 DEF AgeInv, L1Age
  <2>4. /\ 2 * Pause + TTL + TTL - e.left \in Int /\ 2 * TTL + 2 * Pause \in Int
        /\ 2 * Pause + TTL + TTL - e.left <= 2 * TTL + 2 * Pause
    BY <1>2, <2>2
  <2>5. NotOlder(w, e.v, 2 * TTL + 2 * Pause)
    BY <2>2, <2>3, <2>4, AgeMonotone
  <2> QED BY <2>2, <2>5 DEF NotOlder, Bound
<1>4. ASSUME NEW d \in Holding, W(d) = w, v = call[d].v PROVE v < version[w] => replaced[w][v] <= Bound
  <2>1. d \in Calls /\ call[d].pc \in {"backfill", "set1", "set2"}
    BY DEF Holding
  <2>2. v \in Versions /\ call[d].held \in 0..Pause
    BY <1>4, <2>1, HoldingFacts
  <2>3. PICK h \in 0..Pause : h = call[d].held
    BY <2>2
  <2>4. NotOlder(w, v, h) \/ NotOlder(w, v, Pause + TTL + h)
    BY <1>4, <2>1, <2>3 DEF AgeInv, CallAge
  <2>5. /\ h \in Int /\ Pause + TTL + h \in Int /\ 2 * TTL + 2 * Pause \in Int
        /\ h <= 2 * TTL + 2 * Pause /\ Pause + TTL + h <= 2 * TTL + 2 * Pause
    BY <1>2
  <2>6. NotOlder(w, v, 2 * TTL + 2 * Pause)
    BY <2>2, <2>4, <2>5, AgeMonotone
  <2> QED BY <2>6 DEF NotOlder, Bound
<1> QED BY <1>3, <1>4 DEF Served

(* GetBalance never reports a balance that was replaced longer ago than    *)
(* two TTLs and two pauses, whatever fails and whoever races.              *)
THEOREM StalenessAlwaysBounded == Spec => []StalenessBounded
<1>1. Init => AgeInv
  <2>1. ASSUME Init PROVE AgeInv
    <3>1. \A c \in Calls : call[c].pc = "idle"
      BY <2>1 DEF Init, Idle
    <3>2. \A w \in Wallets : l2[w] = None /\ \A p \in Pods : l1[p][w] = None
      BY <2>1 DEF Init
    <3> QED BY <3>1, <3>2 DEF AgeInv, CallAge, L2Age, L1Age, Valid
  <2> QED BY <2>1
<1>2. CacheInv /\ AgeInv /\ [Next]_vars => AgeInv'
  BY AgeNext
<1>3. CacheInv /\ AgeInv => StalenessBounded
  BY AgeServed
<1> QED BY <1>1, <1>2, <1>3, CacheInvariant, PTL DEF Spec

-----------------------------------------------------------------------------
(* Coherence.  The steps of a read that may carry a balance, and those of  *)
(* an invalidation; the messages about a wallet, and those that make pod p *)
(* forget it.                                                              *)
ReadSteps == {"l2", "backfill", "db", "set1", "set2"}
InvSteps == {"local", "redis", "publish"}
About(p, w) == \E i \in 1..Len(queue[p]) : queue[p][i].w = w
Told(p, w) == \E i \in 1..Len(queue[p]) : queue[p][i].w = w /\ queue[p][i].origin # p

(* While nobody invalidates a wallet, every copy of it is current.         *)
LEMMA FreshWhenQuiet ==
    ASSUME NEW w \in Wallets, Coherent(w), ~Invalidating(w)
    PROVE  /\ ~Stale(l2[w], w) /\ \A p \in Pods : ~Stale(l1[p][w], w)
<1>1. \A c \in Calls : Writer(c, w) => call[c].pc \notin {"local", "redis", "publish"}
  BY DEF Invalidating, Writer
<1>2. \A p \in Pods : \A i \in 1..Len(queue[p]) : queue[p][i].w # w
  BY DEF Invalidating
<1>3. ~Stale(l2[w], w)
  BY <1>1 DEF Coherent
<1>4. ASSUME NEW p \in Pods PROVE ~Stale(l1[p][w], w)
  <2>1. ~WillForget(p, w)
    BY <1>1, <1>2 DEF WillForget
  <2> QED BY <2>1 DEF Coherent
<1> QED BY <1>3, <1>4

(* A step that wallet w does not notice, apart from entries and messages   *)
(* that go.                                                                *)
LEMMA CoherentQuiet ==
    ASSUME NEW w \in Wallets, Coherent(w), version'[w] = version[w],
           Valid(l2'[w]) => Valid(l2[w]) /\ l2'[w].v = l2[w].v,
           \A p \in Pods : Valid(l1'[p][w]) => Valid(l1[p][w]) /\ l1'[p][w].v = l1[p][w].v,
           \A p \in Pods : Told(p, w) /\ Valid(l1'[p][w]) => Told(p, w)',
           \A p \in Pods : About(p, w)' => About(p, w),
           \A d \in Calls :
              \/ call'[d].pc = call[d].pc /\ call'[d].req = call[d].req /\ call'[d].v = call[d].v
              \/ {call[d].pc, call'[d].pc} \cap (ReadSteps \cup InvSteps) = {}
              \/ ~Writer(d, w) /\ ~(call'[d].req # None /\ call'[d].req.w = w)
    PROVE  Coherent(w)'
<1> DEFINE Same(d) == /\ call'[d].pc = call[d].pc /\ call'[d].req = call[d].req /\ call'[d].v = call[d].v
           Gone(d) == /\ Writer(d, w) => call[d].pc \notin ReadSteps \cup InvSteps
                      /\ call'[d].req # None /\ call'[d].req.w = w => call'[d].pc \notin ReadSteps \cup InvSteps
<1>1. \A d \in Calls : Same(d) \/ Gone(d)
  OBVIOUS
<1>2. ASSUME NEW p \in Pods, Stale(l1[p][w], w)' PROVE WillForget(p, w)'
  <2>1. Stale(l1[p][w], w) /\ Valid(l1'[p][w])
    BY <1>2 DEF Stale, Valid
  <2>2. WillForget(p, w)
    BY <2>1 DEF Coherent
  <2>3. ASSUME NEW c \in Calls, Writer(c, w), call[c].pc \in InvSteps
        PROVE  call'[c].pc = call[c].pc /\ call'[c].req = call[c].req
    BY <1>1, <2>3
  <2>4. CASE \E c \in Calls : Writer(c, w) /\ call[c].pc = "local"
    BY <2>3, <2>4 DEF WillForget, Writer, W, InvSteps
  <2>5. CASE \E c \in Calls : Writer(c, w) /\ call[c].pc \in {"redis", "publish"} /\ P(c) # p
    BY <2>3, <2>5 DEF WillForget, Writer, W, P, InvSteps
  <2>6. CASE Told(p, w)
    <3>1. Told(p, w)'
      BY <2>1, <2>6
    <3> QED BY <3>1 DEF WillForget, Told
  <2> QED BY <2>2, <2>4, <2>5, <2>6 DEF WillForget, Told
<1>3. ASSUME Stale(l2[w], w)' PROVE (\E c \in Calls : Writer(c, w) /\ call[c].pc \in {"local", "redis"})'
  <2>1. Stale(l2[w], w)
    BY <1>3 DEF Stale, Valid
  <2>2. PICK c \in Calls : Writer(c, w) /\ call[c].pc \in {"local", "redis"}
    BY <2>1 DEF Coherent
  <2>3. Same(c)
    BY <1>1, <2>2 DEF InvSteps
  <2> QED BY <2>2, <2>3 DEF Writer, W
<1>4. ASSUME NEW c \in Holding', Writer(c, w)' PROVE call'[c].v = version'[w]
  <2>1. c \in Calls /\ call'[c].pc \in {"backfill", "set1", "set2"}
    BY DEF Holding
  <2>2. Same(c)
    BY <1>1, <1>4, <2>1 DEF ReadSteps, Writer, W
  <2>3. c \in Holding /\ Writer(c, w)
    BY <1>4, <2>1, <2>2 DEF Holding, Writer, W
  <2> QED BY <2>2, <2>3 DEF Coherent
<1>5. (Reading(w) = {} \/ ~Invalidating(w))'
  <2>1. ASSUME NEW c \in Calls, call'[c].req # None, call'[c].req.w = w, call'[c].pc \in ReadSteps \cup InvSteps
        PROVE  call[c].req # None /\ W(c) = w /\ call[c].pc = call'[c].pc
    BY <1>1, <2>1 DEF W
  <2>2. CASE Reading(w) = {}
    <3>1. Reading(w)' = {}
      BY <2>1, <2>2 DEF Reading, ReadSteps, W
    <3> QED BY <3>1
  <2>3. CASE ~Invalidating(w)
    <3>1. \A p \in Pods : ~About(p, w)
      BY <2>3 DEF Invalidating, About
    <3>2. \A p \in Pods : ~About(p, w)'
      BY <3>1
    <3>3. ~Invalidating(w)'
      BY <2>1, <2>3, <3>2 DEF Invalidating, About, InvSteps, W
    <3> QED BY <3>3
  <2> QED BY <2>2, <2>3 DEF Coherent
<1> HIDE DEF Same, Gone
<1> QED BY <1>2, <1>3, <1>4, <1>5 DEF Coherent

(* A step of a read while nobody invalidates: it stores, and comes to      *)
(* hold, current balances only.                                            *)
LEMMA CoherentRead ==
    ASSUME NEW w \in Wallets, Coherent(w), ~Invalidating(w), version' = version, queue' = queue, NEW c \in Calls,
           \A d \in Calls : d # c => call'[d] = call[d],
           call'[c].pc \notin InvSteps,
           call'[c].pc \in {"backfill", "set1", "set2"} => call'[c].v = version[w],
           Valid(l2'[w]) => l2'[w] = l2[w] \/ l2'[w].v = version[w],
           \A p \in Pods : Valid(l1'[p][w]) => l1'[p][w] = l1[p][w] \/ l1'[p][w].v = version[w]
    PROVE  Coherent(w)'
<1>1. ~Stale(l2[w], w) /\ \A p \in Pods : ~Stale(l1[p][w], w)
  BY FreshWhenQuiet
<1>2. ASSUME NEW p \in Pods PROVE ~Stale(l1[p][w], w)'
  BY <1>1 DEF Stale, Valid
<1>3. ~Stale(l2[w], w)'
  BY <1>1 DEF Stale, Valid
<1>4. ASSUME NEW d \in Holding', Writer(d, w)' PROVE call'[d].v = version'[w]
  <2>1. d \in Calls /\ call'[d].pc \in {"backfill", "set1", "set2"}
    BY DEF Holding
  <2>2. CASE d = c
    BY <2>1, <2>2
  <2>3. CASE d # c
    <3>1. d \in Holding /\ Writer(d, w)
      BY <1>4, <2>1, <2>3 DEF Holding, Writer, W
    <3> QED BY <2>1, <2>3, <3>1 DEF Coherent
  <2> QED BY <2>2, <2>3
<1>5. ~Invalidating(w)'
  BY DEF Invalidating, InvSteps, W
<1> QED BY <1>2, <1>3, <1>4, <1>5 DEF Coherent

(* A step of an invalidation of w: no read is under way, and everything    *)
(* stale keeps somebody who will remove it.                                *)
LEMMA CoherentWrite ==
    ASSUME NEW w \in Wallets, NEW c \in Calls, Reading(w) = {},
           \A d \in Calls : d # c => call'[d] = call[d], call'[c].pc \notin ReadSteps,
           \A p \in Pods : Stale(l1[p][w], w)' => WillForget(p, w)',
           Stale(l2[w], w)' => (\E d \in Calls : Writer(d, w) /\ call[d].pc \in {"local", "redis"})'
    PROVE  Coherent(w)'
<1>1. Reading(w)' = {}
  BY DEF Reading, ReadSteps, W
<1>2. ASSUME NEW d \in Holding', Writer(d, w)' PROVE call'[d].v = version'[w]
  <2>1. d \in Reading(w)'
    BY <1>2 DEF Reading, Holding, Writer
  <2> QED BY <1>1, <2>1
<1> QED BY <1>1, <1>2 DEF Coherent

(* A step of a call for another wallet.                                    *)
LEMMA CoherentElsewhere ==
    ASSUME NEW w \in Wallets, Coherent(w), NEW c \in Calls, W(c) # w, version'[w] = version[w],
           \A d \in Calls : d # c => call'[d] = call[d], call'[c].req \in {call[c].req, None},
           l2'[w] \in {l2[w], None}, \A p \in Pods : l1'[p][w] \in {l1[p][w], None},
           \A p \in Pods : Told(p, w) => Told(p, w)', \A p \in Pods : About(p, w)' => About(p, w)
    PROVE  Coherent(w)'
<1>1. Valid(l2'[w]) => Valid(l2[w]) /\ l2'[w].v = l2[w].v
  BY DEF Valid
<1>2. \A p \in Pods : Valid(l1'[p][w]) => Valid(l1[p][w]) /\ l1'[p][w].v = l1[p][w].v
  BY DEF Valid
<1>3. ~Writer(c, w) /\ ~(call'[c].req # None /\ call'[c].req.w = w)
  BY DEF Writer, W
<1>4. \A d \in Calls :
        \/ call'[d].pc = call[d].pc /\ call'[d].req = call[d].req /\ call'[d].v = call[d].v
        \/ ~Writer(d, w) /\ ~(call'[d].req # None /\ call'[d].req.w = w)
  BY <1>3
<1> QED BY <1>1, <1>2, <1>4, CoherentQuiet

(* The bus does not change.                                                *)
LEMMA SameBus ==
    ASSUME queue' = queue, NEW w
    PROVE  \A p \in Pods : (Told(p, w) => Told(p, w)') /\ (About(p, w)' => About(p, w))
BY DEF Told, About

(* A request arrives.                                                      *)
LEMMA CoherentBegin ==
    ASSUME CacheInv, NEW w \in Wallets, Coherent(w), NEW c \in Calls, NEW r \in Requests[c], Begin(c, r)
    PROVE  Coherent(w)'
<1>1. UNCHANGED <<version, l1, l2, queue>> /\ call[c].pc = "idle"
  BY DEF Begin, dbVars, busVars
<1>2. call[c] \in CallStates /\ call \in [Calls -> CallStates]
  BY CallFacts
<1>3. PICK l \in {"l1", "commit"} : l = IF r.op = "READ" THEN "l1" ELSE "commit"
  OBVIOUS
<1>4. PICK q : q = [call[c] EXCEPT !.req = r, !.pc = l]
  OBVIOUS
<1>5. call' = [call EXCEPT ![c] = q]
  BY <1>3, <1>4 DEF Begin
<1>6. q.pc = l
  BY <1>2, <1>4 DEF CallStates
<1>7. call'[c].pc = l /\ \A d \in Calls : d # c => call'[d] = call[d]
  BY <1>2, <1>5, <1>6
<1>8. {call[c].pc, call'[c].pc} \cap (ReadSteps \cup InvSteps) = {}
  BY <1>1, <1>3, <1>7 DEF ReadSteps, InvSteps
<1>9. \A d \in Calls :
        \/ call'[d].pc = call[d].pc /\ call'[d].req = call[d].req /\ call'[d].v = call[d].v
        \/ {call[d].pc, call'[d].pc} \cap (ReadSteps \cup InvSteps) = {}
  BY <1>7, <1>8
<1>10. \A p \in Pods : (Told(p, w) => Told(p, w)') /\ (About(p, w)' => About(p, w))
  BY <1>1, SameBus
<1> QED BY <1>1, <1>9, <1>10, CoherentQuiet

(* The look into L1: a miss is a read of w only while nobody invalidates   *)
(* it, or w has been raced.                                                *)
LEMMA CoherentGetL1 ==
    ASSUME CacheInv, NEW w \in Wallets, Coherent(w), NEW c \in Calls, GetL1(c), w \notin raced'
    PROVE  Coherent(w)'
<1>1. UNCHANGED <<version, l2, queue>> /\ call[c].pc = "l1" /\ P(c) \in Pods /\ W(c) \in Wallets
  BY CallFacts DEF GetL1, dbVars, busVars
<1>2. \A p \in Pods : (Told(p, w) => Told(p, w)') /\ (About(p, w)' => About(p, w))
  BY <1>1, SameBus
<1>3. CASE Return(c) /\ UNCHANGED l1
  <2>1. call'[c].pc = "done" /\ \A d \in Calls : d # c => call'[d] = call[d]
    BY <1>3, ReturnFacts, FinishedFacts
  <2>2. {call[c].pc, call'[c].pc} \cap (ReadSteps \cup InvSteps) = {}
    BY <1>1, <2>1 DEF ReadSteps, InvSteps
  <2>3. \A d \in Calls :
          \/ call'[d].pc = call[d].pc /\ call'[d].req = call[d].req /\ call'[d].v = call[d].v
          \/ {call[d].pc, call'[d].pc} \cap (ReadSteps \cup InvSteps) = {}
    BY <2>1, <2>2
  <2> QED BY <1>1, <1>2, <1>3, <2>3, CoherentQuiet
<1>4. CASE Goto(c, "l2") /\ NoteRead(c) /\ l1' = [l1 EXCEPT ![P(c)] = [@ EXCEPT ![W(c)] = None]]
  <2>1. "l2" \in Labels
    BY DEF Labels
  <2>2. call'[c].pc = "l2" /\ call'[c].req = call[c].req /\ \A d \in Calls : d # c => call'[d] = call[d]
    BY <1>1, <1>4, <2>1, GotoFacts
  <2>3. \A p \in Pods : \A x \in Wallets : l1'[p][x] \in {l1[p][x], None}
    BY <1>1, <1>4, OneForgotten
  <2>4. CASE w # W(c)
    BY <1>1, <1>2, <2>2, <2>3, <2>4, CoherentElsewhere
  <2>5. CASE w = W(c)
    <3>1. ~Invalidating(w)
      BY <1>4, <2>5 DEF NoteRead
    <3>2. \A p \in Pods : Valid(l1'[p][w]) => l1'[p][w] = l1[p][w]
      BY <2>3 DEF Valid
    <3>3. call'[c].pc \notin InvSteps /\ call'[c].pc \notin {"backfill", "set1", "set2"}
      BY <2>2 DEF InvSteps
    <3> QED BY <1>1, <2>2, <3>1, <3>2, <3>3, CoherentRead
  <2> QED BY <2>4, <2>5
<1> QED BY <1>3, <1>4 DEF GetL1

(* A read of w is under way only while nobody invalidates w.               *)
LEMMA ReadAlone ==
    ASSUME CacheInv, NEW c \in Calls, call[c].pc \in ReadSteps, NEW w, w = W(c), Coherent(w)
    PROVE  ~Invalidating(w) /\ w \in Wallets
<1>1. call[c].req # None /\ W(c) \in Wallets
  BY CallFacts DEF ReadSteps
<1>2. c \in Reading(w)
  BY <1>1 DEF Reading, ReadSteps
<1> QED BY <1>1, <1>2 DEF Coherent

(* The look into Redis.                                                    *)
LEMMA CoherentGetL2 ==
    ASSUME CacheInv, NEW w \in Wallets, Coherent(w), NEW c \in Calls, GetL2(c)
    PROVE  Coherent(w)'
<1>1. UNCHANGED <<version, l1, l2, queue>> /\ call[c].pc = "l2" /\ W(c) \in Wallets /\ call[c].pc \in ReadSteps
  BY CallFacts DEF GetL2, dbVars, busVars, ReadSteps
<1>2. \A p \in Pods : (Told(p, w) => Told(p, w)') /\ (About(p, w)' => About(p, w))
  BY <1>1, SameBus
<1>3. "db" \in Labels
  BY DEF Labels
<1>4. /\ \A d \in Calls : d # c => call'[d] = call[d]
      /\ call'[c].req = call[c].req
      /\ call'[c].pc = "db" \/ (call'[c].pc = "backfill" /\ call'[c].v = l2[W(c)].v /\ Valid(l2[W(c)]))
  <2>1. CASE Goto(c, "db")
    BY <1>1, <1>3, <2>1, GotoFacts
  <2>2. CASE Valid(l2[W(c)]) /\ Got(c, l2[W(c)].v, "backfill")
    <3>1. l2[W(c)] \in Entries
      BY <1>1 DEF CacheInv, TypeOK
    <3>2. PICK v \in Versions : v = l2[W(c)].v
      BY <2>2, <3>1, ValidEntry
    <3>3. Got(c, v, "backfill")
      BY <2>2, <3>2
    <3>4. /\ \A d \in Calls : d # c => call'[d] = call[d]
          /\ call'[c].req = call[c].req /\ call'[c].pc = "backfill" /\ call'[c].v = v
      BY <1>1, <3>3, GotFacts
    <3> QED BY <2>2, <3>2, <3>4
  <2> QED BY <2>1, <2>2 DEF GetL2
<1>5. CASE w # W(c)
  BY <1>1, <1>2, <1>4, <1>5, CoherentElsewhere
<1>6. CASE w = W(c)
  <2>1. ~Invalidating(w)
    BY <1>1, <1>6, ReadAlone
  <2>2. ~Stale(l2[w], w)
    BY <2>1, FreshWhenQuiet
  <2>3. /\ call'[c].pc \notin InvSteps
        /\ call'[c].pc \in {"backfill", "set1", "set2"} => call'[c].v = version[w]
    BY <1>4, <1>6, <2>2 DEF InvSteps, Stale
  <2> QED BY <1>1, <1>4, <2>1, <2>3, CoherentRead
<1> QED BY <1>5, <1>6

(* The read of the database.                                               *)
LEMMA CoherentReadDB ==
    ASSUME CacheInv, NEW w \in Wallets, Coherent(w), NEW c \in Calls, ReadDB(c)
    PROVE  Coherent(w)'
<1>1. /\ UNCHANGED <<version, l1, l2, queue>> /\ call[c].pc = "db" /\ W(c) \in Wallets /\ call[c].pc \in ReadSteps
      /\ Got(c, version[W(c)], "set1")
  BY CallFacts DEF ReadDB, dbVars, busVars, ReadSteps
<1>2. \A p \in Pods : (Told(p, w) => Told(p, w)') /\ (About(p, w)' => About(p, w))
  BY <1>1, SameBus
<1>3. PICK v \in Versions : v = version[W(c)]
  BY <1>1 DEF CacheInv, TypeOK
<1>4. /\ \A d \in Calls : d # c => call'[d] = call[d]
      /\ call'[c].req = call[c].req /\ call'[c].pc = "set1" /\ call'[c].v = v
  BY <1>1, <1>3, GotFacts
<1>5. CASE w # W(c)
  BY <1>1, <1>2, <1>4, <1>5, CoherentElsewhere
<1>6. CASE w = W(c)
  <2>1. ~Invalidating(w)
    BY <1>1, <1>6, ReadAlone
  <2>2. call'[c].pc \notin InvSteps /\ call'[c].v = version[w]
    BY <1>3, <1>4, <1>6 DEF InvSteps
  <2> QED BY <1>1, <1>4, <2>1, <2>2, CoherentRead
<1> QED BY <1>5, <1>6

(* Storing into L1.                                                        *)
LEMMA CoherentSetLocal ==
    ASSUME CacheInv, NEW w \in Wallets, Coherent(w), NEW c \in Calls, SetLocal(c)
    PROVE  Coherent(w)'
<1>1. /\ call[c].pc \in {"backfill", "set1"} /\ UNCHANGED <<version, l2, queue>>
      /\ call[c].v \in Versions /\ P(c) \in Pods /\ W(c) \in Wallets
      /\ l1'[P(c)][W(c)] = Entry(call[c].v)
      /\ \A p \in Pods : p # P(c) => l1'[p] = l1[p]
      /\ \A x \in Wallets : x # W(c) => l1'[P(c)][x] \in {l1[P(c)][x], None}
  BY SetLocalFacts
<1>2. \A p \in Pods : (Told(p, w) => Told(p, w)') /\ (About(p, w)' => About(p, w))
  BY <1>1, SameBus
<1>3. /\ \A d \in Calls : d # c => call'[d] = call[d]
      /\ call'[c].req \in {call[c].req, None}
      /\ call'[c].pc = "done" \/ (call'[c].pc = "set2" /\ call'[c].v = call[c].v)
  <2>1. CASE Return(c)
    BY <2>1, ReturnFacts, FinishedFacts
  <2>2. CASE Goto(c, "set2")
    <3>1. "set2" \in Labels
      BY DEF Labels
    <3> QED BY <1>1, <2>2, <3>1, GotoFacts
  <2> QED BY <2>1, <2>2 DEF SetLocal
<1>4. CASE w # W(c)
  <2>1. \A p \in Pods : l1'[p][w] \in {l1[p][w], None}
    BY <1>1, <1>4
  <2> QED BY <1>1, <1>2, <1>3, <1>4, <2>1, CoherentElsewhere
<1>5. CASE w = W(c)
  <2>1. ~Invalidating(w)
    BY <1>1, <1>5, ReadAlone DEF ReadSteps
  <2>2. call[c].v = version[w]
    <3>1. c \in Holding /\ Writer(c, w)
      BY <1>1, <1>5, HoldingFacts DEF Holding, Writer
    <3> QED BY <3>1 DEF Coherent
  <2>3. Entry(call[c].v).v = version[w]
    BY <1>1, <2>2, EntryFacts
  <2>4. \A p \in Pods : l1'[p][w] = l1[p][w] \/ l1'[p][w].v = version[w]
    BY <1>1, <1>5, <2>3
  <2>5. /\ call'[c].pc \notin InvSteps
        /\ call'[c].pc \in {"backfill", "set1", "set2"} => call'[c].v = version[w]
    BY <1>3, <2>2 DEF InvSteps
  <2> QED BY <1>1, <1>3, <2>1, <2>4, <2>5, CoherentRead
<1> QED BY <1>4, <1>5

(* Storing into Redis.                                                     *)
LEMMA CoherentSetL2 ==
    ASSUME CacheInv, NEW w \in Wallets, Coherent(w), NEW c \in Calls, SetL2(c)
    PROVE  Coherent(w)'
<1>1. /\ call[c].pc = "set2" /\ UNCHANGED <<version, l1, queue>> /\ Return(c)
      /\ call[c].v \in Versions /\ W(c) \in Wallets /\ call[c].req # None
  BY HoldingFacts DEF SetL2, dbVars, busVars
<1>2. \A p \in Pods : (Told(p, w) => Told(p, w)') /\ (About(p, w)' => About(p, w))
  BY <1>1, SameBus
<1>3. /\ \A d \in Calls : d # c => call'[d] = call[d]
      /\ call'[c].req = None /\ call'[c].pc = "done"
  BY <1>1, ReturnFacts, FinishedFacts
<1>4. l2 \in [Wallets -> Entries]
  BY DEF CacheInv, TypeOK
<1>5. l2'[w] = l2[w] \/ (w = W(c) /\ l2'[w] = Entry(call[c].v))
  BY <1>1, <1>4 DEF SetL2
<1>6. CASE w # W(c)
  BY <1>1, <1>2, <1>3, <1>5, <1>6, CoherentElsewhere
<1>7. CASE w = W(c)
  <2>1. ~Invalidating(w)
    BY <1>1, <1>7, ReadAlone DEF ReadSteps
  <2>2. call[c].v = version[w]
    <3>1. c \in Holding /\ Writer(c, w)
      BY <1>1, <1>7 DEF Holding, Writer
    <3> QED BY <3>1 DEF Coherent
  <2>3. Entry(call[c].v).v = version[w]
    BY <1>1, <2>2, EntryFacts
  <2>4. l2'[w] = l2[w] \/ l2'[w].v = version[w]
    BY <1>5, <2>3
  <2>5. call'[c].pc \notin InvSteps /\ call'[c].pc \notin {"backfill", "set1", "set2"}
    BY <1>3 DEF InvSteps
  <2> QED BY <1>1, <1>3, <2>1, <2>4, <2>5, CoherentRead
<1> QED BY <1>6, <1>7

(* A commit that races with nothing: its own call will reach every copy.   *)
LEMMA CoherentCommit ==
    ASSUME CacheInv, NEW w \in Wallets, Coherent(w), NEW c \in Calls, Commit(c), w \notin raced'
    PROVE  Coherent(w)'
<1>1. /\ call[c].pc = "commit" /\ UNCHANGED <<l1, l2, queue>> /\ call[c].req # None
      /\ raced' = raced \cup (IF Reading(W(c)) # {} \/ Invalidating(W(c)) THEN {W(c)} ELSE {})
      /\ w # W(c) => version'[w] = version[w]
      /\ Goto(c, "local")
  BY CommitFacts
<1>2. "local" \in Labels
  BY DEF Labels
<1>3. /\ \A d \in Calls : d # c => call'[d] = call[d]
      /\ call'[c].req = call[c].req /\ call'[c].pc = "local"
  BY <1>1, <1>2, GotoFacts
<1>4. CASE w # W(c)
  <2>1. \A p \in Pods : (Told(p, w) => Told(p, w)') /\ (About(p, w)' => About(p, w))
    BY <1>1, SameBus
  <2> QED BY <1>1, <1>3, <1>4, <2>1, CoherentElsewhere
<1>5. CASE w = W(c)
  <2>1. Reading(w) = {}
    BY <1>1, <1>5
  <2>2. (Writer(c, w) /\ call[c].pc = "local")'
    BY <1>1, <1>3, <1>5 DEF Writer, W
  <2>3. \A p \in Pods : WillForget(p, w)'
    BY <2>2 DEF WillForget
  <2>4. (\E d \in Calls : Writer(d, w) /\ call[d].pc \in {"local", "redis"})'
    BY <2>2
  <2>5. call'[c].pc \notin ReadSteps
    BY <1>3 DEF ReadSteps
  <2> QED BY <1>3, <2>1, <2>3, <2>4, <2>5, CoherentWrite
<1> QED BY <1>4, <1>5

(* An invalidation of w is under way only while nobody reads w.            *)
LEMMA WriteAlone ==
    ASSUME CacheInv, NEW c \in Calls, call[c].pc \in InvSteps, NEW w, w = W(c), Coherent(w)
    PROVE  Reading(w) = {} /\ call[c].req # None
<1>1. call[c].req # None
  BY CallFacts DEF InvSteps
<1>2. Invalidating(w)
  BY <1>1 DEF Invalidating, InvSteps
<1> QED BY <1>1, <1>2 DEF Coherent

(* Forgetting the local copy.                                              *)
LEMMA CoherentInvalidateLocal ==
    ASSUME CacheInv, NEW w \in Wallets, Coherent(w), NEW c \in Calls, InvalidateLocal(c)
    PROVE  Coherent(w)'
<1>1. /\ call[c].pc = "local" /\ UNCHANGED <<version, l2, queue>> /\ Goto(c, "redis")
      /\ l1'[P(c)][W(c)] = None /\ P(c) \in Pods
      /\ \A p \in Pods : l1'[p][w] \in {l1[p][w], None}
  BY InvalidateLocalFacts
<1>2. "redis" \in Labels
  BY DEF Labels
<1>3. /\ \A d \in Calls : d # c => call'[d] = call[d]
      /\ call'[c].req = call[c].req /\ call'[c].pc = "redis"
  BY <1>1, <1>2, GotoFacts
<1>4. CASE w # W(c)
  <2>1. \A p \in Pods : (Told(p, w) => Told(p, w)') /\ (About(p, w)' => About(p, w))
    BY <1>1, SameBus
  <2> QED BY <1>1, <1>3, <1>4, <2>1, CoherentElsewhere
<1>5. CASE w = W(c)
  <2>1. Reading(w) = {} /\ call[c].req # None
    BY <1>1, <1>5, WriteAlone DEF InvSteps
  <2>2. (Writer(c, w) /\ call[c].pc = "redis")' /\ P(c)' = P(c)
    BY <1>3, <1>5, <2>1 DEF Writer, W, P
  <2>3. ASSUME NEW p \in Pods, Stale(l1[p][w], w)' PROVE WillForget(p, w)'
    <3>1. p # P(c)
      BY <1>1, <1>5, <2>3 DEF Stale, Valid
    <3>2. (Writer(c, w) /\ call[c].pc \in {"redis", "publish"} /\ P(c) # p)'
      BY <2>2, <3>1
    <3> QED BY <3>2 DEF WillForget
  <2>4. (\E d \in Calls : Writer(d, w) /\ call[d].pc \in {"local", "redis"})'
    BY <2>2
  <2>5. call'[c].pc \notin ReadSteps
    BY <1>3 DEF ReadSteps
  <2> QED BY <1>3, <2>1, <2>3, <2>4, <2>5, CoherentWrite
<1> QED BY <1>4, <1>5

(* Forgetting the copy in Redis, when Redis answers.                       *)
LEMMA CoherentInvalidateL2 ==
    ASSUME CacheInv, NEW w \in Wallets, Coherent(w), NEW c \in Calls, InvalidateL2(c), ~Fail
    PROVE  Coherent(w)'
<1>1. /\ call[c].pc = "redis" /\ UNCHANGED <<version, l1, queue>> /\ Goto(c, "publish")
      /\ l2' = [l2 EXCEPT ![W(c)] = None] /\ W(c) \in Wallets
  BY CallFacts DEF InvalidateL2, dbVars, busVars
<1>2. "publish" \in Labels
  BY DEF Labels
<1>3. /\ \A d \in Calls : d # c => call'[d] = call[d]
      /\ call'[c].req = call[c].req /\ call'[c].pc = "publish"
  BY <1>1, <1>2, GotoFacts
<1>4. l2 \in [Wallets -> Entries]
  BY DEF CacheInv, TypeOK
<1>5. l2'[w] \in {l2[w], None} /\ (w = W(c) => l2'[w] = None)
  BY <1>1, <1>4
<1>6. CASE w # W(c)
  <2>1. \A p \in Pods : (Told(p, w) => Told(p, w)') /\ (About(p, w)' => About(p, w))
    BY <1>1, SameBus
  <2> QED BY <1>1, <1>3, <1>5, <1>6, <2>1, CoherentElsewhere
<1>7. CASE w = W(c)
  <2>1. Reading(w) = {} /\ call[c].req # None
    BY <1>1, <1>7, WriteAlone DEF InvSteps
  <2>2. ASSUME NEW p \in Pods, Stale(l1[p][w], w)' PROVE WillForget(p, w)'
    <3>1. Stale(l1[p][w], w)
      BY <1>1, <2>2 DEF Stale, Valid
    <3>2. WillForget(p, w)
      BY <3>1 DEF Coherent
    <3>3. CASE \E d \in Calls : Writer(d, w) /\ call[d].pc = "local"
      <4>1. PICK d \in Calls : Writer(d, w) /\ call[d].pc = "local"
        BY <3>3
      <4>2. call'[d] = call[d]
        BY <1>1, <1>3, <4>1
      <4> QED BY <4>1, <4>2 DEF WillForget, Writer, W
    <3>4. CASE \E d \in Calls : Writer(d, w) /\ call[d].pc \in {"redis", "publish"} /\ P(d) # p
      <4>1. PICK d \in Calls : Writer(d, w) /\ call[d].pc \in {"redis", "publish"} /\ P(d) # p
        BY <3>4
      <4>2. call'[d].req = call[d].req /\ call'[d].pc \in {"redis", "publish"}
        BY <1>3, <4>1
      <4> QED BY <4>1, <4>2 DEF WillForget, Writer, W, P
    <3>5. CASE Told(p, w)
      BY <1>1, <3>5 DEF WillForget, Told
    <3> QED BY <3>2, <3>3, <3>4, <3>5 DEF WillForget, Told
  <2>3. ~Stale(l2[w], w)'
    BY <1>5, <1>7 DEF Stale, Valid
  <2>4. call'[c].pc \notin ReadSteps
    BY <1>3 DEF ReadSteps
  <2> QED BY <1>3, <2>1, <2>2, <2>3, <2>4, CoherentWrite
<1> QED BY <1>6, <1>7

(* Publishing on a bus that works: every pod that is subscribed gets the   *)
(* message.                                                                *)
LEMMA CoherentPublish ==
    ASSUME CacheInv, NEW w \in Wallets, Coherent(w), NEW c \in Calls, PublishInvalidation(c), ~Fail,
           \A p \in Pods : subscribed[p]
    PROVE  Coherent(w)'
<1>1. /\ call[c].pc = "publish" /\ UNCHANGED <<version, l1, l2>> /\ Return(c)
      /\ P(c) \in Pods /\ W(c) \in Wallets
  BY CallFacts DEF PublishInvalidation, dbVars
<1>2. /\ \A d \in Calls : d # c => call'[d] = call[d]
      /\ call'[c].req = None /\ call'[c].pc = "done"
  BY <1>1, ReturnFacts, FinishedFacts
<1>3. PICK m : m = [w |-> W(c), origin |-> P(c)]
  OBVIOUS
<1>4. m.w = W(c) /\ m.origin = P(c)
  BY <1>3
<1>5. \A p \in Pods : queue'[p] = Append(queue[p], m)
  BY <1>3 DEF PublishInvalidation
<1>6. ASSUME NEW p \in Pods
      PROVE  /\ Len(queue[p]) \in Nat /\ Len(queue'[p]) = Len(queue[p]) + 1
             /\ \A i \in 1..Len(queue[p]) : queue'[p][i] = queue[p][i]
             /\ queue'[p][Len(queue[p]) + 1] = m
  <2>1. PICK M : M = [w : Wallets, origin : Pods]
    OBVIOUS
  <2>2. m \in M
    BY <1>1, <1>3, <2>1
  <2>3. PICK q : q \in Seq(M) /\ q = queue[p]
    BY <2>1 DEF CacheInv, TypeOK
  <2>4. /\ Len(q) \in Nat /\ Len(Append(q, m)) = Len(q) + 1
        /\ \A i \in 1..Len(q) : Append(q, m)[i] = q[i]
        /\ Append(q, m)[Len(q) + 1] = m
    BY <2>2, <2>3
  <2> QED BY <1>5, <2>3, <2>4
<1>7. ASSUME NEW p \in Pods, Told(p, w) PROVE Told(p, w)'
  <2>1. PICK i \in 1..Len(queue[p]) : queue[p][i].w = w /\ queue[p][i].origin # p
    BY <1>7 DEF Told
  <2>2. i \in 1..Len(queue'[p]) /\ queue'[p][i] = queue[p][i]
    BY <1>6
  <2> QED BY <2>1, <2>2 DEF Told
<1>8. CASE w # W(c)
  <2>1. ASSUME NEW p \in Pods, About(p, w)' PROVE About(p, w)
    <3>1. PICK i \in 1..Len(queue'[p]) : queue'[p][i].w = w
      BY <2>1 DEF About
    <3>2. i # Len(queue[p]) + 1
      BY <1>4, <1>6, <1>8, <3>1
    <3>3. i \in 1..Len(queue[p])
      BY <1>6, <3>1, <3>2
    <3> QED BY <1>6, <3>1, <3>3 DEF About
  <2> QED BY <1>1, <1>2, <1>7, <1>8, <2>1, CoherentElsewhere
<1>9. CASE w = W(c)
  <2>1. Reading(w) = {}
    BY <1>1, <1>9, WriteAlone DEF InvSteps
  <2>2. ASSUME NEW p \in Pods, Stale(l1[p][w], w)' PROVE WillForget(p, w)'
    <3>1. Stale(l1[p][w], w)
      BY <1>1, <2>2 DEF Stale, Valid
    <3>2. WillForget(p, w)
      BY <3>1 DEF Coherent
    <3>3. CASE p # P(c)
      <4>1. Len(queue[p]) + 1 \in 1..Len(queue'[p])
        BY <1>6
      <4>2. queue'[p][Len(queue[p]) + 1].w = w /\ queue'[p][Len(queue[p]) + 1].origin # p
        BY <1>4, <1>6, <1>9, <3>3
      <4>3. Told(p, w)'
        BY <4>1, <4>2 DEF Told
      <4> QED BY <4>3 DEF WillForget, Told
    <3>4. CASE \E d \in Calls : Writer(d, w) /\ call[d].pc = "local"
      <4>1. PICK d \in Calls : Writer(d, w) /\ call[d].pc = "local"
        BY <3>4
      <4>2. call'[d] = call[d]
        BY <1>1, <1>2, <4>1
      <4> QED BY <4>1, <4>2 DEF WillForget, Writer, W
    <3>5. CASE p = P(c) /\ \E d \in Calls : Writer(d, w) /\ call[d].pc \in {"redis", "publish"} /\ P(d) # p
      <4>1. PICK d \in Calls : Writer(d, w) /\ call[d].pc \in {"redis", "publish"} /\ P(d) # p
        BY <3>5
      <4>2. call'[d] = call[d]
        BY <1>2, <3>5, <4>1
      <4> QED BY <4>1, <4>2 DEF WillForget, Writer, W, P
    <3>6. CASE Told(p, w)
      BY <1>7, <3>6 DEF WillForget, Told
    <3> QED BY <3>2, <3>3, <3>4, <3>5, <3>6 DEF WillForget, Told
  <2>3. ASSUME Stale(l2[w], w)' PROVE (\E d \in Calls : Writer(d, w) /\ call[d].pc \in {"local", "redis"})'
    <3>1. Stale(l2[w], w)
      BY <1>1, <2>3 DEF Stale, Valid
    <3>2. PICK d \in Calls : Writer(d, w) /\ call[d].pc \in {"local", "redis"}
      BY <3>1 DEF Coherent
    <3>3. call'[d] = call[d]
      BY <1>1, <1>2, <3>2
    <3> QED BY <3>2, <3>3 DEF Writer, W
  <2>4. call'[c].pc \notin ReadSteps
    BY <1>2 DEF ReadSteps
  <2> QED BY <1>2, <2>1, <2>2, <2>3, <2>4, CoherentWrite
<1> QED BY <1>8, <1>9

(* A delivered message has done its work: the copy it was about is gone.   *)
LEMMA CoherentDeliver ==
    ASSUME CacheInv, NEW w \in Wallets, Coherent(w), NEW p \in Pods, Deliver(p)
    PROVE  Coherent(w)'
<1>1. /\ UNCHANGED <<version, l2, call>> /\ queue[p] # << >>
      /\ queue'[p] = Tail(queue[p]) /\ \A r \in Pods : r # p => queue'[r] = queue[r]
      /\ \A r \in Pods : l1'[r][w] \in {l1[r][w], None}
      /\ Head(queue[p]).origin # p => l1'[p][Head(queue[p]).w] = None
  BY DeliverFacts
<1>2. /\ Len(queue[p]) \in Nat /\ Len(queue'[p]) = Len(queue[p]) - 1 /\ Head(queue[p]) = queue[p][1]
      /\ \A i \in 1..Len(queue'[p]) : queue'[p][i] = queue[p][i + 1]
  <2>1. PICK M : M = [w : Wallets, origin : Pods]
    OBVIOUS
  <2>2. PICK q : q \in Seq(M) /\ q = queue[p]
    BY <2>1 DEF CacheInv, TypeOK
  <2>3. q # << >>
    BY <1>1, <2>2
  <2>4. /\ Len(q) \in Nat /\ Len(Tail(q)) = Len(q) - 1 /\ Head(q) = q[1]
        /\ \A i \in 1..Len(Tail(q)) : Tail(q)[i] = q[i + 1]
    BY <2>2, <2>3
  <2> QED BY <1>1, <2>2, <2>4
<1>3. ASSUME NEW r \in Pods, Told(r, w), Valid(l1'[r][w]) PROVE Told(r, w)'
  <2>1. CASE r # p
    BY <1>1, <1>3, <2>1 DEF Told
  <2>2. CASE r = p
    <3>1. PICK i \in 1..Len(queue[p]) : queue[p][i].w = w /\ queue[p][i].origin # p
      BY <1>3, <2>2 DEF Told
    <3>2. i # 1
      <4>1. SUFFICES ASSUME i = 1 PROVE FALSE
        OBVIOUS
      <4>2. l1'[p][w] = None
        BY <1>1, <1>2, <3>1, <4>1
      <4> QED BY <1>3, <2>2, <4>2 DEF Valid
    <3>3. i - 1 \in 1..Len(queue'[p]) /\ (i - 1) + 1 = i
      BY <1>2, <3>1, <3>2
    <3>4. queue'[p][i - 1] = queue[p][i]
      BY <1>2, <3>3
    <3> QED BY <2>2, <3>1, <3>3, <3>4 DEF Told
  <2> QED BY <2>1, <2>2
<1>4. ASSUME NEW r \in Pods, About(r, w)' PROVE About(r, w)
  <2>1. CASE r # p
    BY <1>1, <1>4, <2>1 DEF About
  <2>2. CASE r = p
    <3>1. PICK i \in 1..Len(queue'[p]) : queue'[p][i].w = w
      BY <1>4, <2>2 DEF About
    <3>2. i + 1 \in 1..Len(queue[p]) /\ queue[p][i + 1].w = w
      BY <1>2, <3>1
    <3> QED BY <2>2, <3>2 DEF About
  <2> QED BY <2>1, <2>2
<1>5. \A r \in Pods : Valid(l1'[r][w]) => Valid(l1[r][w]) /\ l1'[r][w].v = l1[r][w].v
  BY <1>1 DEF Valid
<1> QED BY <1>1, <1>3, <1>4, <1>5, CoherentQuiet

(* Time and the sweep only take entries away.                              *)
LEMMA CoherentAging ==
    ASSUME CacheInv, NEW w \in Wallets, Coherent(w), Tick \/ (\E p \in Pods : Cleanup(p)) \/ UNCHANGED vars
    PROVE  Coherent(w)'
<1>1. CASE Tick
  <2>1. /\ UNCHANGED <<version, queue>>
        /\ \A p \in Pods : l1'[p][w] = Aged(l1[p][w])
        /\ l2'[w] \in {Aged(l2[w]), None}
        /\ \A d \in Calls : call'[d].pc = call[d].pc /\ call'[d].req = call[d].req /\ call'[d].v = call[d].v
    BY <1>1, TickFacts
  <2>2. ASSUME NEW p \in Pods PROVE Valid(l1'[p][w]) => Valid(l1[p][w]) /\ l1'[p][w].v = l1[p][w].v
    <3>1. l1[p][w] \in Entries
      BY DEF CacheInv, TypeOK
    <3> QED BY <2>1, <3>1, AgedFacts
  <2>3. Valid(l2'[w]) => Valid(l2[w]) /\ l2'[w].v = l2[w].v
    <3>1. l2[w] \in Entries
      BY DEF CacheInv, TypeOK
    <3>2. CASE l2'[w] = Aged(l2[w])
      BY <3>1, <3>2, AgedFacts
    <3>3. CASE l2'[w] = None
      BY <3>3 DEF Valid
    <3> QED BY <2>1, <3>2, <3>3
  <2>4. \A p \in Pods : (Told(p, w) => Told(p, w)') /\ (About(p, w)' => About(p, w))
    BY <2>1, SameBus
  <2> QED BY <2>1, <2>2, <2>3, <2>4, CoherentQuiet
<1>2. ASSUME NEW p \in Pods, Cleanup(p) PROVE Coherent(w)'
  <2>1. UNCHANGED <<version, l2, queue, call>> /\ \A r \in Pods : l1'[r][w] \in {l1[r][w], None}
    BY <1>2, CleanupFacts
  <2>2. \A r \in Pods : Valid(l1'[r][w]) => Valid(l1[r][w]) /\ l1'[r][w].v = l1[r][w].v
    BY <2>1 DEF Valid
  <2>3. \A r \in Pods : (Told(r, w) => Told(r, w)') /\ (About(r, w)' => About(r, w))
    BY <2>1, SameBus
  <2> QED BY <2>1, <2>2, <2>3, CoherentQuiet
<1>3. CASE UNCHANGED vars
  <2>1. UNCHANGED <<version, l1, l2, queue, call>>
    BY <1>3 DEF vars, dbVars, busVars
  <2>2. \A r \in Pods : (Told(r, w) => Told(r, w)') /\ (About(r, w)' => About(r, w))
    BY <2>1, SameBus
  <2> QED BY <2>1, <2>2, CoherentQuiet
<1> QED BY <1>1, <1>2, <1>3

(* Every step; after a fault nothing is claimed.                           *)
LEMMA CoherenceNext ==
    ASSUME CacheInv, CoherenceInv, [Next]_vars
    PROVE  CoherenceInv'
<1>1. SUFFICES ASSUME faults' = 0
               PROVE  (\A p \in Pods : subscribed'[p]) /\ \A w \in Wallets : w \notin raced' => Coherent(w)'
  BY DEF CoherenceInv
<1>2. faults = 0 /\ ~Fail
  <2>1. faults \in Nat
    BY CacheAssumption DEF CacheInv, TypeOK, CacheConstants
  <2>2. ~Fail
    BY <1>1, <2>1 DEF Fail
  <2>3. Ok
    BY <2>2 DEF Next, CallStep, Begin, GetL1, GetL2, ReadDB, ReadDBFails, SetLocal, SetL2, Commit, InvalidateLocal, InvalidateL2,
       PublishInvalidation, Deliver, LoseSubscription, Restart, Cleanup, Tick, vars, Ok
  <2> QED BY <1>1, <2>2, <2>3 DEF Ok
<1>3. (\A p \in Pods : subscribed[p]) /\ \A w \in Wallets : w \notin raced => Coherent(w)
  BY <1>2 DEF CoherenceInv
<1>4. subscribed' = subscribed /\ raced \subseteq raced'
  BY <1>2 DEF Next, CallStep, Begin, GetL1, GetL2, ReadDB, ReadDBFails, SetLocal, SetL2, Commit, InvalidateLocal, InvalidateL2,
     PublishInvalidation, Deliver, LoseSubscription, Restart, Cleanup, Tick, vars, busVars, NoteRead
<1>5. ASSUME NEW w \in Wallets, w \notin raced' PROVE Coherent(w)'
  <2>1. Coherent(w)
    BY <1>3, <1>4, <1>5
  <2>2. ASSUME NEW c \in Calls, CallStep(c) PROVE Coherent(w)'
    BY <1>2, <1>3, <1>5, <2>1, <2>2, CoherentGetL1, CoherentGetL2, CoherentReadDB, CoherentSetLocal, CoherentSetL2,
       CoherentCommit, CoherentInvalidateLocal, CoherentInvalidateL2, CoherentPublish DEF CallStep, ReadDBFails
  <2>3. ASSUME NEW c \in Calls, NEW r \in Requests[c], Begin(c, r) PROVE Coherent(w)'
    BY <2>1, <2>3, CoherentBegin
  <2>4. ASSUME NEW p \in Pods, Deliver(p) PROVE Coherent(w)'
    BY <2>1, <2>4, CoherentDeliver
  <2>5. ASSUME NEW p \in Pods, LoseSubscription(p) \/ Restart(p) PROVE FALSE
    BY <1>2, <2>5 DEF LoseSubscription, Restart
  <2>6. ASSUME Tick \/ (\E p \in Pods : Cleanup(p)) \/ UNCHANGED vars PROVE Coherent(w)'
    BY <2>1, <2>6, CoherentAging
  <2> QED BY <2>2, <2>3, <2>4, <2>5, <2>6 DEF Next
<1> QED BY <1>3, <1>4, <1>5

(* Without a fault, and unless a read ran into an invalidation, no cache   *)
(* keeps an old balance once the bus is drained: Invalidate reaches every  *)
(* copy, for any number of pods, wallets and calls.                        *)
THEOREM CoherentUnlessRaced == Spec => []CoherentWithoutRaces
<1>1. Init => CoherenceInv
  <2>1. ASSUME Init PROVE CoherenceInv
    <3>1. \A c \in Calls : call[c].pc = "idle" /\ call[c].req = None
      BY <2>1 DEF Init, Idle
    <3>2. \A w \in Wallets : l2[w] = None /\ \A p \in Pods : l1[p][w] = None
      BY <2>1 DEF Init
    <3>3. \A p \in Pods : subscribed[p]
      BY <2>1 DEF Init
    <3>4. ASSUME NEW w \in Wallets PROVE Coherent(w)
      <4>1. Reading(w) = {} /\ Holding = {}
        BY <3>1 DEF Reading, Holding
      <4> QED BY <3>2, <4>1 DEF Coherent, Stale, Valid
    <3> QED BY <3>3, <3>4 DEF CoherenceInv
  <2> QED BY <2>1
<1>2. CacheInv /\ CoherenceInv /\ [Next]_vars => CoherenceInv'
  BY CoherenceNext
<1>3. CoherenceInv => CoherentWithoutRaces
  <2>1. ASSUME CoherenceInv, NEW w \in Wallets, faults = 0, w \notin raced, ~Invalidating(w)
        PROVE  /\ Valid(l2[w]) => l2[w].v = version[w]
               /\ \A p \in Pods : Valid(l1[p][w]) => l1[p][w].v = version[w]
    <3>1. ~Stale(l2[w], w) /\ \A p \in Pods : ~Stale(l1[p][w], w)
      BY <2>1, FreshWhenQuiet DEF CoherenceInv
    <3> QED BY <3>1 DEF Stale
  <2> QED BY <2>1 DEF CoherentWithoutRaces
<1> QED BY <1>1, <1>2, <1>3, CacheInvariant, PTL DEF Spec
=============================================================================
