------------------------- MODULE AuthService_proofs -------------------------
(***************************************************************************)
(* Proofs about AuthService, for any gateways and calls, any limits, lives *)
(* of tokens and deadlines, with and without faults.                       *)
(*                                                                         *)
(* AuthInv says what a call holds at each step; three invariants on top of *)
(* it carry the properties: RotationInv (a refresh that was answered has   *)
(* revoked its token), LockoutInv (the stored count is the number of wrong *)
(* passwords) and RevocationInv (how long a token can outlive its logout   *)
(* in a cache or in a validation under way).                               *)
(***************************************************************************)
EXTENDS AuthService, TLAPS

(* Where a call can be, by what was asked, and what it has read there.     *)
Stage(q) ==
    /\ q.pc = "idle" <=> q.req = None
    /\ q.pc \in {"login", "unlock", "compare"} => q.req.op = "LOGIN"
    /\ q.pc \in {"find", "external", "rotate"} => q.req.op = "REFRESH"
    /\ q.pc \in {"issue", "store"} => q.req.op \in {"LOGIN", "REFRESH"}
    /\ q.pc \in {"admit", "validate", "reply"} => q.req.op \in {"USE", "LOGOUT"}
    /\ q.pc = "revoke" => q.req.op = "LOGOUT"
    /\ q.pc \in {"unlock", "compare"} => q.seen \in 0..(MaxFailed - 1)
    /\ q.pc \in {"idle", "login", "admit", "validate", "reply", "revoke"} => q.seen = None

(* A token that is presented was given to a client, and is what it was.    *)
Presents(q) ==
    q.req # None /\ q.req.op # "LOGIN" => Done(q.req.token) /\ access[q.req.token] # None

(* A refresh that is past its lookup has found a stored token.             *)
Found(q) ==
    q.req # None /\ q.req.op = "REFRESH" /\ q.pc \in {"issue", "rotate", "store"} =>
        refresh[q.req.token] # None

(* Every access token lives AccessTTL; an account that is not locked has   *)
(* attempts left.                                                          *)
TokensFine == \A t \in Calls : access[t] # None => access[t].exp = access[t].iat + AccessTTL
UserFine == user.status # "LOCKED" => user.failed < MaxFailed

AuthInv ==
    /\ TypeOK /\ TokensFine /\ UserFine
    /\ \A c \in Calls : Stage(call[c]) /\ Presents(call[c]) /\ Found(call[c]) /\ call[c].at <= now

-----------------------------------------------------------------------------
(* Refresh tokens.                                                         *)
Revoked(t) == refresh[t] # None /\ refresh[t].revoked

(* Without faults, a refresh that stores its own token has revoked the one *)
(* it was given, and so has every one before.                              *)
Rotates(q) ==
    q.req # None /\ q.req.op = "REFRESH" =>
        /\ faults = 0 /\ q.pc = "store" => Revoked(q.req.token)
        /\ faults = 0 /\ access[q.req.token].src = "local" =>
             /\ q.note => Revoked(q.req.token)
             /\ q.pc = "done" /\ q.ok => Revoked(q.req.token)
             /\ q.note => q.pc \notin {"issue", "rotate", "store"} /\ ~(q.pc = "done" /\ q.ok)

RotationInv == \A c \in Calls : Rotates(call[c])

-----------------------------------------------------------------------------
(* The lockout.  One login at a time, its count is the stored one.         *)
LockoutInv ==
    (~overlap /\ faults = 0) =>
        /\ user.failed = wrong
        /\ user.status = "LOCKED" => user.until # None /\ wrong = MaxFailed
        /\ \A c, d \in InLogin : c = d
        /\ \A c \in Calls :
             /\ call[c].pc = "unlock" => call[c].seen = 0
             /\ call[c].pc = "compare" => user.status = "ACTIVE" /\ call[c].seen = user.failed

-----------------------------------------------------------------------------
(* Revocation.  Records of the blocklist stand for tokens; a token whose   *)
(* logout took effect is on the blocklist or has expired.                  *)
BlocklistFine ==
    \A b \in blocklist : \E t \in Calls :
        Done(t) /\ access[t] # None /\ b.id = TokenID(t) /\ b.exp = access[t].exp

LogoutsFine ==
    \A t \in Calls : \A d \in Logouts(t) :
        call[d].seen \in Nat /\ call[d].seen <= now /\ (IsRevoked(t) \/ now >= access[t].exp)

(* A validation that says yes began before the logout, or found the token  *)
(* in its last second, or could not read the blocklist.                    *)
ReplyFine(c) ==
    call[c].pc = "reply" /\ call[c].ok =>
        \A d \in Logouts(Tok(c)) :
            call[c].at <= call[d].seen \/ now >= access[Tok(c)].exp \/ call[c].note

(* So a cached answer ends CacheTTL and one deadline after the logout.     *)
EntryFine(g, t) ==
    cache[g][t] # None =>
        /\ cache[g][t] <= now + CacheTTL
        /\ Done(t) /\ access[t] # None
        /\ \A d \in Logouts(t) :
             cache[g][t] <= call[d].seen + CacheTTL + RPCTimeout \/ FailedOpen(t)

(* And so does the last request that is admitted.                          *)
Held(c) ==
    (Done(c) /\ call[c].ok /\ Req(c).op = "USE") =>
        \A d \in Logouts(Tok(c)) :
            \/ call[c].at <= call[d].seen + CacheTTL + RPCTimeout
            \/ call[c].at >= access[Tok(c)].exp
            \/ FailedOpen(Tok(c))

RevocationInv ==
    /\ BlocklistFine /\ LogoutsFine
    /\ \A c \in Calls : ReplyFine(c) /\ Held(c)
    /\ \A g \in Gateways : \A t \in Calls : EntryFine(g, t)

-----------------------------------------------------------------------------
(* The state that is not a call's own.                                     *)
StoresOK ==
    /\ user \in [status : Statuses, failed : 0..MaxFailed, until : Ticks \cup {None}]
    /\ refresh \in [Calls -> RefreshTokens \cup {None}]
    /\ access \in [Calls -> AccessTokens \cup {None}]
    /\ blocklist \subseteq [id : TokenIDs, exp : Ticks]
    /\ cache \in [Gateways -> [Calls -> Ticks \cup {None}]]
    /\ healthy \in BOOLEAN /\ overlap \in BOOLEAN /\ wrong \in Nat
    /\ TokensFine /\ UserFine

(* The invariant gives it.                                                 *)
LEMMA StoresAreOK ==
    ASSUME AuthInv
    PROVE  StoresOK
BY DEF AuthInv, TypeOK, StoresOK

(* A step that leaves it alone keeps it.                                   *)
LEMMA StoresKept ==
    ASSUME AuthInv, UNCHANGED <<storeVars, access, cache, healthy, wrong, overlap>>
    PROVE  StoresOK'
<1>1. StoresOK
  BY StoresAreOK
<1>2. UNCHANGED <<user, refresh, blocklist, access, cache, healthy, wrong, overlap>>
  BY DEF storeVars
<1>3. TokensFine' /\ UserFine'
  BY <1>1, <1>2 DEF StoresOK, TokensFine, UserFine
<1> QED BY <1>1, <1>2, <1>3 DEF StoresOK

(* A step of one call, given by what it becomes: others, and every token   *)
(* already given out, stay what they are.                                  *)
Becomes(c, q) ==
    /\ call' = [call EXCEPT ![c] = q] /\ q \in Served
    /\ call[c].pc # "done"
    /\ now' = now /\ faults' \in 0..MaxFaults
    /\ \A t \in Calls : t # c => access'[t] = access[t]
    /\ \A t \in Calls : refresh[t] # None => refresh'[t] # None

(* It keeps the invariant if what the call becomes is sound.               *)
LEMMA OneCall ==
    ASSUME AuthInv, NEW c \in Calls, NEW q, Becomes(c, q), StoresOK',
           Stage(q), Found(q), q.at <= now, q.req = call[c].req \/ Presents(q)
    PROVE  AuthInv'
<1>1. now \in 0..MaxTime /\ call \in [Calls -> Served]
  BY DEF AuthInv, TypeOK
<1>2. /\ call' \in [Calls -> Served] /\ call'[c] = q
      /\ \A s \in Calls : s # c => call'[s] = call[s]
  BY <1>1 DEF Becomes
<1>3. TypeOK'
  BY <1>1, <1>2 DEF TypeOK, StoresOK, Becomes
<1>4. ASSUME NEW s \in Calls PROVE (Stage(call[s]) /\ call[s].at <= now)'
  <2>1. CASE s = c
    BY <1>2, <2>1 DEF Stage, Becomes
  <2>2. CASE s # c
    BY <1>2, <2>2 DEF Stage, Becomes, AuthInv
  <2> QED BY <2>1, <2>2
<1>5. Presents(q)
  BY DEF AuthInv, Presents
<1>6. ASSUME NEW p, p.req # None /\ p.req.op # "LOGIN", p.req.token \in Calls, Presents(p)
      PROVE  (Done(p.req.token) /\ access[p.req.token] # None)'
  <2>1. Done(p.req.token) /\ access[p.req.token] # None
    BY <1>6 DEF Presents
  <2>2. p.req.token # c
    BY <2>1 DEF Done, Becomes
  <2> QED BY <1>2, <1>6, <2>1, <2>2 DEF Done, Becomes
<1>7. ASSUME NEW s \in Calls PROVE Presents(call[s])'
  <2>1. SUFFICES ASSUME call'[s].req # None, call'[s].req.op # "LOGIN"
                 PROVE  (Done(call[s].req.token) /\ access[call[s].req.token] # None)'
    BY DEF Presents
  <2>2. PICK p : p = call'[s]
    OBVIOUS
  <2>3. Presents(p)
    <3>1. CASE s = c
      BY <1>2, <1>5, <2>2, <3>1
    <3>2. CASE s # c
      BY <1>2, <2>2, <3>2 DEF AuthInv
    <3> QED BY <3>1, <3>2
  <2>4. p.req.token \in Calls
    <3>1. p \in Served
      BY <1>2, <2>2
    <3>2. PICK d \in Calls : p.req \in Requests[d]
      <4>1. p.req \in UNION {Requests[d] : d \in Calls}
        BY <2>1, <2>2, <3>1 DEF Served
      <4> QED BY <4>1
    <3> QED BY <2>1, <2>2, <3>2, AuthAssumption DEF AuthConstants
  <2> QED BY <1>6, <2>1, <2>2, <2>3, <2>4
<1>8. ASSUME NEW s \in Calls PROVE Found(call[s])'
  <2>1. PICK p : p = call'[s]
    OBVIOUS
  <2>2. Found(p)
    <3>1. CASE s = c
      BY <1>2, <2>1, <3>1
    <3>2. CASE s # c
      BY <1>2, <2>1, <3>2 DEF AuthInv
    <3> QED BY <3>1, <3>2
  <2>3. p.req # None /\ p.req.op = "REFRESH" => p.req.token \in Calls
    <3>1. p \in Served
      BY <1>2, <2>1
    <3>2. p.req \in (UNION {Requests[d] : d \in Calls}) \cup {None}
      BY <3>1 DEF Served
    <3> QED BY <3>2, AuthAssumption DEF AuthConstants
  <2> QED BY <2>1, <2>2, <2>3 DEF Found, Becomes
<1> QED BY <1>3, <1>4, <1>7, <1>8 DEF AuthInv, StoresOK

(* The fault counter.                                                      *)
LEMMA FaultCount ==
    ASSUME AuthInv, Fail \/ Ok
    PROVE  faults' \in 0..MaxFaults /\ (faults' = 0 => faults = 0)
<1>1. faults \in 0..MaxFaults /\ MaxFaults \in Nat
  BY AuthAssumption DEF AuthInv, TypeOK, AuthConstants
<1> QED BY <1>1 DEF Fail, Ok

(* What a call is, and the request it answers.                             *)
LEMMA CallFacts ==
    ASSUME AuthInv, NEW c \in Calls
    PROVE  /\ call[c] \in Served /\ call \in [Calls -> Served] /\ Stage(call[c]) /\ Presents(call[c])
           /\ call[c].at <= now /\ now \in 0..MaxTime /\ now \in Nat /\ now \in Ticks
           /\ call[c].pc # "idle" => /\ Req(c).op \in Operations
                                     /\ Req(c).op = "LOGIN" => Req(c).password \in BOOLEAN
                                     /\ Req(c).op # "LOGIN" => /\ Tok(c) \in Calls /\ Req(c).gw \in Gateways
                                                               /\ Done(Tok(c)) /\ access[Tok(c)] \in AccessTokens
<1>1. call[c] \in Served /\ call \in [Calls -> Served] /\ Stage(call[c]) /\ Presents(call[c])
      /\ call[c].at <= now /\ now \in 0..MaxTime
  BY DEF AuthInv, TypeOK
<1>2. now \in Nat /\ now \in Ticks
  BY <1>1, AuthAssumption DEF AuthConstants, Ticks
<1>3. ASSUME call[c].pc # "idle"
      PROVE  /\ Req(c).op \in Operations
             /\ Req(c).op = "LOGIN" => Req(c).password \in BOOLEAN
             /\ Req(c).op # "LOGIN" => /\ Tok(c) \in Calls /\ Req(c).gw \in Gateways
                                       /\ Done(Tok(c)) /\ access[Tok(c)] \in AccessTokens
  <2>1. Req(c) # None
    BY <1>1, <1>3 DEF Stage, Req
  <2>2. Req(c) \in UNION {Requests[d] : d \in Calls}
    BY <1>1, <2>1 DEF Served, Req
  <2>3. PICK d \in Calls : Req(c) \in Requests[d]
    BY <2>2
  <2>4. /\ Req(c).op \in Operations
        /\ Req(c).op = "LOGIN" => Req(c).password \in BOOLEAN
        /\ Req(c).op # "LOGIN" => Tok(c) \in Calls /\ Req(c).gw \in Gateways
    BY <2>3, AuthAssumption DEF AuthConstants, Tok
  <2>5. Req(c).op # "LOGIN" => Done(Tok(c)) /\ access[Tok(c)] # None
    BY <1>1, <2>1 DEF Presents, Tok, Req
  <2>6. access \in [Calls -> AccessTokens \cup {None}]
    BY DEF AuthInv, TypeOK
  <2> QED BY <2>4, <2>5, <2>6
<1> QED BY <1>1, <1>2, <1>3

(* A step that only moves a call on.                                       *)
LEMMA GotoKeeps ==
    ASSUME AuthInv, NEW c \in Calls, NEW l \in Labels \ {"idle"}, Goto(c, l),
           call[c].pc \notin {"idle", "done"}, StoresOK', now' = now, faults' \in 0..MaxFaults,
           \A t \in Calls : t # c => access'[t] = access[t],
           \A t \in Calls : refresh[t] # None => refresh'[t] # None,
           Stage([call[c] EXCEPT !.pc = l]), Found([call[c] EXCEPT !.pc = l])
    PROVE  AuthInv'
<1>1. PICK q : q = [call[c] EXCEPT !.pc = l]
  OBVIOUS
<1>2. call[c] \in Served /\ call \in [Calls -> Served] /\ call[c].at <= now
  BY CallFacts
<1>3. q \in Served /\ q.req = call[c].req /\ q.at = call[c].at
  BY <1>1, <1>2 DEF Served
<1>4. call' = [call EXCEPT ![c] = q]
  BY <1>1, <1>2 DEF Goto
<1>5. Becomes(c, q)
  BY <1>3, <1>4 DEF Becomes
<1>6. Stage(q) /\ Found(q)
  BY <1>1
<1> QED BY <1>2, <1>3, <1>5, <1>6, OneCall

(* A step that answers a call.                                             *)
LEMMA AnswerKeeps ==
    ASSUME AuthInv, NEW c \in Calls, NEW o \in BOOLEAN, Answer(c, o),
           call[c].pc \notin {"idle", "done"}, StoresOK', now' = now, faults' \in 0..MaxFaults,
           \A t \in Calls : t # c => access'[t] = access[t],
           \A t \in Calls : refresh[t] # None => refresh'[t] # None
    PROVE  AuthInv'
<1>1. PICK q : q = [call[c] EXCEPT !.pc = "done", !.ok = o, !.seen = None]
  OBVIOUS
<1>2. call[c] \in Served /\ call \in [Calls -> Served] /\ call[c].at <= now /\ Stage(call[c])
  BY CallFacts
<1>3. q \in Served /\ q.req = call[c].req /\ q.at = call[c].at /\ q.pc = "done"
  BY <1>1, <1>2 DEF Served, Labels
<1>4. call' = [call EXCEPT ![c] = q]
  BY <1>1, <1>2 DEF Answer
<1>5. Becomes(c, q)
  BY <1>3, <1>4 DEF Becomes
<1>6. Stage(q) /\ Found(q)
  BY <1>2, <1>3 DEF Stage, Found
<1> QED BY <1>2, <1>3, <1>5, <1>6, OneCall

(* A new access token.                                                     *)
LEMMA TokenIssued ==
    ASSUME AuthInv, NEW c \in Calls, NEW s \in Sources,
           access' = [access EXCEPT ![c] = [iat |-> now, exp |-> now + AccessTTL, src |-> s]],
           UNCHANGED <<storeVars, cache, healthy, wrong, overlap>>
    PROVE  StoresOK' /\ \A t \in Calls : t # c => access'[t] = access[t]
<1>1. StoresOK
  BY StoresAreOK
<1>2. UNCHANGED <<user, refresh, blocklist, cache, healthy, wrong, overlap>>
  BY DEF storeVars
<1>3. PICK a : a = [iat |-> now, exp |-> now + AccessTTL, src |-> s]
  OBVIOUS
<1>4. a \in AccessTokens /\ a.exp = a.iat + AccessTTL
  <2>1. now \in 0..MaxTime
    BY DEF AuthInv, TypeOK
  <2>2. now \in Ticks /\ now + AccessTTL \in Ticks
    BY <2>1, AuthAssumption DEF AuthConstants, Ticks
  <2> QED BY <1>3, <2>2 DEF AccessTokens
<1>5. access' = [access EXCEPT ![c] = a]
  BY <1>3
<1>6. access' \in [Calls -> AccessTokens \cup {None}] /\ access'[c] = a
      /\ \A t \in Calls : t # c => access'[t] = access[t]
  BY <1>1, <1>4, <1>5 DEF StoresOK
<1>7. TokensFine'
  BY <1>1, <1>4, <1>6 DEF StoresOK, TokensFine
<1>8. UserFine'
  BY <1>1, <1>2 DEF StoresOK, UserFine
<1> QED BY <1>1, <1>2, <1>6, <1>7, <1>8 DEF StoresOK

(* A new access token of the OIDC provider.                                *)
External(c) == \E s \in {"oidc", "bare"} : access' = [access EXCEPT ![c] = OIDCToken(s)]

LEMMA ExternalIssued ==
    ASSUME AuthInv, NEW c \in Calls, External(c),
           UNCHANGED <<storeVars, cache, healthy, wrong, overlap>>
    PROVE  StoresOK' /\ \A t \in Calls : t # c => access'[t] = access[t]
<1>1. PICK s \in {"oidc", "bare"} : access' = [access EXCEPT ![c] = OIDCToken(s)]
  BY DEF External
<1>2. s \in Sources
  BY DEF Sources
<1> QED BY <1>1, <1>2, TokenIssued DEF OIDCToken

-----------------------------------------------------------------------------
(* AuthInv is inductive: one lemma per action.                             *)

(* A login that the OIDC provider accepts.                                 *)
LEMMA LoginExternalKeeps ==
    ASSUME AuthInv, NEW c \in Calls, LoginExternal(c)
    PROVE  AuthInv'
<1>1. StoresOK' /\ \A t \in Calls : t # c => access'[t] = access[t]
  BY ExternalIssued DEF LoginExternal, External
<1>2. faults' \in 0..MaxFaults
  BY DEF LoginExternal, AuthInv, TypeOK
<1> QED BY <1>1, <1>2, AnswerKeeps DEF LoginExternal, storeVars

(* The lookup of the user.                                                 *)
LEMMA FindByUsernameKeeps ==
    ASSUME AuthInv, NEW c \in Calls, FindByUsername(c)
    PROVE  AuthInv'
<1>1. call[c].pc = "login" /\ now' = now /\ UNCHANGED <<storeVars, access, cache, healthy, wrong>>
  BY DEF FindByUsername
<1>2. faults' \in 0..MaxFaults
  BY FaultCount DEF FindByUsername
<1>3. overlap' \in BOOLEAN
  BY DEF FindByUsername, AuthInv, TypeOK
<1>4. StoresOK'
  <2>1. StoresOK
    BY StoresAreOK
  <2>2. UNCHANGED <<user, refresh, blocklist, access, cache, healthy, wrong>>
    BY <1>1 DEF storeVars
  <2>3. TokensFine' /\ UserFine'
    BY <2>1, <2>2 DEF StoresOK, TokensFine, UserFine
  <2> QED BY <1>3, <2>1, <2>2, <2>3 DEF StoresOK
<1>5. CASE Answer(c, FALSE)
  BY <1>1, <1>2, <1>4, <1>5, AnswerKeeps DEF storeVars
<1>6. CASE ~Answer(c, FALSE)
  <2> DEFINE l == IF user.status = "LOCKED" THEN "unlock" ELSE "compare"
             n == IF user.status = "LOCKED" THEN 0 ELSE user.failed
  <2>1. call' = [call EXCEPT ![c] = [@ EXCEPT !.pc = l, !.seen = n]]
    BY <1>6 DEF FindByUsername
  <2>2. call[c] \in Served /\ call \in [Calls -> Served] /\ Stage(call[c]) /\ call[c].at <= now
    BY CallFacts
  <2>3. PICK q : q = [call[c] EXCEPT !.pc = l, !.seen = n]
    OBVIOUS
  <2>4. call' = [call EXCEPT ![c] = q]
    BY <2>1, <2>2, <2>3
  <2>5. n \in 0..(MaxFailed - 1) /\ n \in Nat
    BY AuthAssumption DEF AuthConstants, AuthInv, TypeOK, UserFine
  <2>6. l \in Labels /\ l \in {"unlock", "compare"}
    BY DEF Labels
  <2> HIDE DEF l, n
  <2>7. q \in Served /\ q.req = call[c].req /\ q.at = call[c].at /\ q.pc = l /\ q.seen = n
    BY <2>2, <2>3, <2>5, <2>6 DEF Served
  <2>8. Stage(q) /\ Found(q)
    BY <1>1, <2>2, <2>5, <2>6, <2>7 DEF Stage, Found
  <2>9. Becomes(c, q)
    BY <1>1, <1>2, <2>4, <2>7 DEF Becomes, storeVars
  <2> QED BY <1>4, <2>2, <2>7, <2>8, <2>9, OneCall
<1> QED BY <1>5, <1>6

(* A change of the user document.                                          *)
LEMMA UserWritten ==
    ASSUME AuthInv, UserFine', wrong' \in Nat,
           user' \in [status : Statuses, failed : 0..MaxFailed, until : Ticks \cup {None}],
           UNCHANGED <<refresh, blocklist, access, cache, healthy, overlap>>
    PROVE  StoresOK'
<1>1. StoresOK
  BY StoresAreOK
<1>2. TokensFine'
  BY <1>1 DEF StoresOK, TokensFine
<1> QED BY <1>1, <1>2 DEF StoresOK

(* The lock is lifted.                                                     *)
LEMMA UnlockKeeps ==
    ASSUME AuthInv, NEW c \in Calls, Unlock(c)
    PROVE  AuthInv'
<1>1. call[c].pc = "unlock" /\ now' = now /\ Goto(c, "compare") /\ (Ok \/ Fail)
      /\ UNCHANGED <<refresh, blocklist, access, cache, healthy, overlap>>
  BY DEF Unlock
<1>2. faults' \in 0..MaxFaults
  BY <1>1, FaultCount
<1>3. StoresOK'
  <2>1. CASE UNCHANGED <<user, wrong>>
    BY <1>1, <2>1, StoresKept DEF storeVars
  <2>2. CASE user' = [status |-> "ACTIVE", failed |-> 0, until |-> None] /\ wrong' = 0
    <3>1. /\ user' \in [status : Statuses, failed : 0..MaxFailed, until : Ticks \cup {None}]
          /\ UserFine' /\ wrong' \in Nat
      BY <2>2, AuthAssumption DEF AuthConstants, UserFine, Statuses
    <3> QED BY <1>1, <3>1, UserWritten
  <2> QED BY <2>1, <2>2 DEF Unlock
<1>4. call[c] \in Served /\ Stage(call[c])
  BY CallFacts
<1>5. Stage([call[c] EXCEPT !.pc = "compare"]) /\ Found([call[c] EXCEPT !.pc = "compare"])
  BY <1>1, <1>4 DEF Stage, Found, Served
<1>6. "compare" \in Labels \ {"idle"}
  BY DEF Labels
<1> QED BY <1>1, <1>2, <1>3, <1>5, <1>6, GotoKeeps

(* A wrong password.                                                       *)
LEMMA WrongPasswordKeeps ==
    ASSUME AuthInv, NEW c \in Calls, WrongPassword(c)
    PROVE  AuthInv'
<1>1. call[c].pc = "compare" /\ now' = now /\ Answer(c, FALSE) /\ (Ok \/ Fail) /\ wrong' = wrong + 1
      /\ UNCHANGED <<refresh, blocklist, access, cache, healthy, overlap>>
  BY DEF WrongPassword
<1>2. faults' \in 0..MaxFaults
  BY <1>1, FaultCount
<1>3. wrong' \in Nat
  BY <1>1 DEF AuthInv, TypeOK
<1>4. PICK n : n = call[c].seen + 1
  OBVIOUS
<1>5. n \in 1..MaxFailed /\ MaxFailed \in Nat
  <2>1. call[c].seen \in 0..(MaxFailed - 1)
    BY <1>1, CallFacts DEF Stage
  <2> QED BY <1>4, <2>1, AuthAssumption DEF AuthConstants
<1>6. StoresOK
  BY StoresAreOK
<1>7. CASE UNCHANGED user
  <2>1. UserFine'
    BY <1>6, <1>7 DEF StoresOK, UserFine
  <2>2. StoresOK'
    BY <1>1, <1>3, <1>6, <1>7, <2>1, UserWritten DEF StoresOK
  <2> QED BY <1>1, <1>2, <2>2, AnswerKeeps
<1>8. CASE user' = IF n >= MaxFailed
                   THEN [status |-> "LOCKED", failed |-> n, until |-> now + LockTicks]
                   ELSE [user EXCEPT !.failed = n]
  <2>1. /\ user' \in [status : Statuses, failed : 0..MaxFailed, until : Ticks \cup {None}]
        /\ UserFine'
    <3>1. CASE n >= MaxFailed
      <4>1. now \in 0..MaxTime
        BY DEF AuthInv, TypeOK
      <4>2. now + LockTicks \in Ticks
        BY <4>1, AuthAssumption DEF AuthConstants, Ticks
      <4>3. user' = [status |-> "LOCKED", failed |-> n, until |-> now + LockTicks]
        BY <1>8, <3>1
      <4> QED BY <1>5, <4>2, <4>3 DEF UserFine, Statuses
    <3>2. CASE ~(n >= MaxFailed)
      <4>1. user' = [user EXCEPT !.failed = n]
        BY <1>8, <3>2
      <4>2. user \in [status : Statuses, failed : 0..MaxFailed, until : Ticks \cup {None}]
        BY <1>6 DEF StoresOK
      <4>3. n < MaxFailed /\ n \in 0..MaxFailed
        BY <1>5, <3>2
      <4> QED BY <4>1, <4>2, <4>3 DEF UserFine
    <3> QED BY <3>1, <3>2
  <2>2. StoresOK'
    BY <1>1, <1>3, <2>1, UserWritten
  <2> QED BY <1>1, <1>2, <2>2, AnswerKeeps
<1> QED BY <1>4, <1>7, <1>8 DEF WrongPassword

(* The right one.                                                          *)
LEMMA ResetFailuresKeeps ==
    ASSUME AuthInv, NEW c \in Calls, ResetFailures(c)
    PROVE  AuthInv'
<1>1. call[c].pc = "compare" /\ now' = now /\ Goto(c, "issue") /\ (Ok \/ Fail) /\ wrong' = 0
      /\ UNCHANGED <<refresh, blocklist, access, cache, healthy, overlap>>
  BY DEF ResetFailures
<1>2. faults' \in 0..MaxFaults
  BY <1>1, FaultCount
<1>3. StoresOK
  BY StoresAreOK
<1>4. user \in [status : Statuses, failed : 0..MaxFailed, until : Ticks \cup {None}] /\ UserFine
  BY <1>3 DEF StoresOK
<1>5. /\ user' \in [status : Statuses, failed : 0..MaxFailed, until : Ticks \cup {None}]
      /\ UserFine'
  <2>1. CASE UNCHANGED user
    BY <1>4, <2>1 DEF UserFine
  <2>2. CASE user' = [user EXCEPT !.failed = 0, !.until = None]
    <3>1. 0 \in 0..MaxFailed /\ 0 < MaxFailed
      BY AuthAssumption DEF AuthConstants
    <3>2. user' \in [status : Statuses, failed : 0..MaxFailed, until : Ticks \cup {None}]
      BY <1>4, <2>2, <3>1
    <3>3. user'.failed = 0
      BY <1>4, <2>2
    <3> QED BY <3>1, <3>2, <3>3 DEF UserFine
  <2> QED BY <2>1, <2>2 DEF ResetFailures
<1>6. StoresOK'
  BY <1>1, <1>5, UserWritten
<1>7. call[c] \in Served /\ Stage(call[c])
  BY CallFacts
<1>8. Stage([call[c] EXCEPT !.pc = "issue"]) /\ Found([call[c] EXCEPT !.pc = "issue"])
  BY <1>1, <1>7 DEF Stage, Found, Served
<1>9. "issue" \in Labels \ {"idle"}
  BY DEF Labels
<1> QED BY <1>1, <1>2, <1>6, <1>8, <1>9, GotoKeeps

(* An access token is signed.                                              *)
LEMMA IssueAccessTokenKeeps ==
    ASSUME AuthInv, NEW c \in Calls, IssueAccessToken(c)
    PROVE  AuthInv'
<1>1. StoresOK' /\ \A t \in Calls : t # c => access'[t] = access[t]
  BY TokenIssued DEF IssueAccessToken, Sources
<1>2. faults' \in 0..MaxFaults
  BY DEF IssueAccessToken, AuthInv, TypeOK
<1>3. PICK l \in Labels \ {"idle"} : l = IF Req(c).op = "REFRESH" THEN "rotate" ELSE "store"
  BY DEF Labels
<1>4. call[c].pc = "issue" /\ now' = now /\ Goto(c, l)
  BY <1>3 DEF IssueAccessToken
<1>5. call[c] \in Served /\ Stage(call[c]) /\ Found(call[c])
  BY CallFacts DEF AuthInv
<1>6. Stage([call[c] EXCEPT !.pc = l]) /\ Found([call[c] EXCEPT !.pc = l])
  BY <1>3, <1>4, <1>5 DEF Stage, Found, Served, Req
<1>7. refresh' = refresh
  BY DEF IssueAccessToken, storeVars
<1> QED BY <1>1, <1>2, <1>4, <1>6, <1>7, GotoKeeps

(* A write to the refresh tokens.                                          *)
LEMMA RefreshWritten ==
    ASSUME AuthInv, refresh' \in [Calls -> RefreshTokens \cup {None}],
           UNCHANGED <<user, blocklist, access, cache, healthy, wrong, overlap>>
    PROVE  StoresOK'
<1>1. StoresOK
  BY StoresAreOK
<1>2. TokensFine' /\ UserFine'
  BY <1>1 DEF StoresOK, TokensFine, UserFine
<1> QED BY <1>1, <1>2 DEF StoresOK

(* The refresh token is stored.                                            *)
LEMMA StoreRefreshTokenKeeps ==
    ASSUME AuthInv, NEW c \in Calls, StoreRefreshToken(c)
    PROVE  AuthInv'
<1>1. call[c].pc = "store" /\ now' = now
      /\ UNCHANGED <<user, blocklist, access, cache, healthy, wrong, overlap>>
  BY DEF StoreRefreshToken
<1>2. faults' \in 0..MaxFaults
  BY FaultCount DEF StoreRefreshToken
<1>3. refresh \in [Calls -> RefreshTokens \cup {None}] /\ now \in 0..MaxTime
  BY DEF AuthInv, TypeOK
<1>4. CASE /\ refresh' = [refresh EXCEPT ![c] = [revoked |-> FALSE, exp |-> now + RefreshTTL]]
           /\ Answer(c, TRUE)
  <2>1. now + RefreshTTL \in Ticks
    BY <1>3, AuthAssumption DEF AuthConstants, Ticks
  <2>2. [revoked |-> FALSE, exp |-> now + RefreshTTL] \in RefreshTokens
    BY <2>1 DEF RefreshTokens
  <2>3. refresh' \in [Calls -> RefreshTokens \cup {None}]
    BY <1>3, <1>4, <2>2
  <2>4. StoresOK'
    BY <1>1, <2>3, RefreshWritten
  <2>5. \A t \in Calls : refresh[t] # None => refresh'[t] # None
    BY <1>3, <1>4, <2>2, NoneAssumption DEF NoneIsNothing
  <2> QED BY <1>1, <1>2, <1>4, <2>4, <2>5, AnswerKeeps
<1>5. CASE Answer(c, FALSE) /\ UNCHANGED refresh
  <2>1. StoresOK'
    BY <1>1, <1>3, <1>5, RefreshWritten
  <2> QED BY <1>1, <1>2, <1>5, <2>1, AnswerKeeps
<1> QED BY <1>4, <1>5 DEF StoreRefreshToken

(* The lookup of a refresh token.                                          *)
LEMMA FindRefreshTokenKeeps ==
    ASSUME AuthInv, NEW c \in Calls, FindRefreshToken(c)
    PROVE  AuthInv'
<1>1. call[c].pc = "find" /\ now' = now
      /\ UNCHANGED <<storeVars, access, cache, healthy, wrong, overlap>>
  BY DEF FindRefreshToken
<1>2. faults' \in 0..MaxFaults
  BY FaultCount DEF FindRefreshToken
<1>3. StoresOK'
  BY <1>1, StoresKept
<1>4. call[c] \in Served /\ Stage(call[c])
  BY CallFacts
<1>5. PICK l \in {"issue", "external"} : Goto(c, l) /\ (l = "issue" => refresh[Tok(c)] # None)
  BY DEF FindRefreshToken, Live
<1>6. Stage([call[c] EXCEPT !.pc = l]) /\ Found([call[c] EXCEPT !.pc = l])
  BY <1>1, <1>4, <1>5 DEF Stage, Found, Served, Tok, Req
<1>7. l \in Labels \ {"idle"}
  BY <1>5 DEF Labels
<1>8. refresh' = refresh
  BY <1>1 DEF storeVars
<1> QED BY <1>1, <1>2, <1>3, <1>5, <1>6, <1>7, <1>8, GotoKeeps

(* The refresh at the OIDC provider.                                       *)
LEMMA RefreshExternalKeeps ==
    ASSUME AuthInv, NEW c \in Calls, RefreshExternal(c)
    PROVE  AuthInv'
<1>1. call[c].pc = "external" /\ now' = now
      /\ UNCHANGED <<storeVars, cache, healthy, wrong, overlap>>
  BY DEF RefreshExternal
<1>2. faults' \in 0..MaxFaults
  BY DEF RefreshExternal, AuthInv, TypeOK
<1>3. CASE External(c) /\ Answer(c, TRUE)
  <2>1. StoresOK' /\ \A t \in Calls : t # c => access'[t] = access[t]
    BY <1>1, <1>3, ExternalIssued
  <2> QED BY <1>1, <1>2, <1>3, <2>1, AnswerKeeps DEF storeVars
<1>4. CASE Answer(c, FALSE) /\ UNCHANGED access
  <2>1. StoresOK'
    BY <1>1, <1>4, StoresKept
  <2> QED BY <1>1, <1>2, <1>4, <2>1, AnswerKeeps DEF storeVars
<1> QED BY <1>3, <1>4 DEF RefreshExternal, External

(* What revoking a refresh token makes of the others and of it.            *)
LEMMA RefreshRevoked ==
    ASSUME NEW R, R \in [Calls -> RefreshTokens \cup {None}], NEW t \in Calls, R[t] # None
    PROVE  /\ [R EXCEPT ![t] = [@ EXCEPT !.revoked = TRUE]] \in [Calls -> RefreshTokens \cup {None}]
           /\ [R EXCEPT ![t] = [@ EXCEPT !.revoked = TRUE]][t] # None
           /\ [R EXCEPT ![t] = [@ EXCEPT !.revoked = TRUE]][t].revoked = TRUE
           /\ \A u \in Calls : u # t => [R EXCEPT ![t] = [@ EXCEPT !.revoked = TRUE]][u] = R[u]
<1>1. R[t] \in RefreshTokens
  OBVIOUS
<1>2. PICK k : k = [R[t] EXCEPT !.revoked = TRUE]
  OBVIOUS
<1>3. k \in RefreshTokens /\ k.revoked = TRUE
  BY <1>1, <1>2 DEF RefreshTokens
<1>4. k # None
  BY <1>3, NoneAssumption DEF NoneIsNothing
<1>5. [R EXCEPT ![t] = [@ EXCEPT !.revoked = TRUE]] = [R EXCEPT ![t] = k]
  BY <1>2
<1> QED BY <1>3, <1>4, <1>5

(* The old refresh token is revoked.                                       *)
LEMMA RevokeRefreshTokenKeeps ==
    ASSUME AuthInv, NEW c \in Calls, RevokeRefreshToken(c)
    PROVE  AuthInv'
<1>1. call[c].pc = "rotate" /\ now' = now /\ Goto(c, "store") /\ (Ok \/ Fail)
      /\ UNCHANGED <<user, blocklist, access, cache, healthy, wrong, overlap>>
  BY DEF RevokeRefreshToken
<1>2. faults' \in 0..MaxFaults
  BY <1>1, FaultCount
<1>3. call[c] \in Served /\ Stage(call[c]) /\ Found(call[c])
  BY CallFacts DEF AuthInv
<1>4. Tok(c) \in Calls /\ refresh[Tok(c)] # None /\ Req(c).op = "REFRESH"
  <2>1. Req(c).op = "REFRESH" /\ Req(c) # None
    BY <1>1, <1>3 DEF Stage, Req
  <2>2. Tok(c) \in Calls
    BY <1>1, <2>1, CallFacts
  <2> QED BY <1>1, <1>3, <2>1, <2>2 DEF Found, Req, Tok
<1>5. refresh \in [Calls -> RefreshTokens \cup {None}]
  BY DEF AuthInv, TypeOK
<1>6. /\ refresh' \in [Calls -> RefreshTokens \cup {None}]
      /\ \A t \in Calls : refresh[t] # None => refresh'[t] # None
  <2>1. CASE refresh' = refresh
    BY <1>5, <2>1
  <2>2. CASE refresh' = [refresh EXCEPT ![Tok(c)] = [@ EXCEPT !.revoked = TRUE]]
    BY <1>4, <1>5, <2>2, RefreshRevoked
  <2> QED BY <2>1, <2>2 DEF RevokeRefreshToken
<1>7. StoresOK'
  BY <1>1, <1>6, RefreshWritten
<1>8. Stage([call[c] EXCEPT !.pc = "store"]) /\ Found([call[c] EXCEPT !.pc = "store"])
  BY <1>1, <1>3, <1>4 DEF Stage, Found, Served, Req, Tok
<1>9. "store" \in Labels \ {"idle"}
  BY DEF Labels
<1> QED BY <1>1, <1>2, <1>6, <1>7, <1>8, <1>9, GotoKeeps

(* What an admitted request becomes.                                       *)
LEMMA AdmittedFacts ==
    ASSUME AuthInv, NEW c \in Calls, call[c].pc \in {"admit", "reply"}
    PROVE  /\ Admitted(c) \in Served /\ Stage(Admitted(c)) /\ Found(Admitted(c))
           /\ Admitted(c).req = call[c].req /\ Admitted(c).at = now /\ Admitted(c).ok = TRUE
           /\ Admitted(c).seen = None /\ Admitted(c).note = call[c].note
           /\ Admitted(c).pc \in {"revoke", "done"}
           /\ Admitted(c).pc = "revoke" <=> Req(c).op = "LOGOUT"
<1>1. call[c] \in Served /\ Stage(call[c]) /\ now \in 0..MaxTime
  BY CallFacts
<1>2. PICK l \in Labels \cap {"revoke", "done"} : l = IF Req(c).op = "LOGOUT" THEN "revoke" ELSE "done"
  BY DEF Labels
<1>3. PICK q : q = [call[c] EXCEPT !.at = now, !.ok = TRUE, !.pc = l]
  OBVIOUS
<1>4. q = Admitted(c)
  BY <1>2, <1>3 DEF Admitted
<1>5. q \in Served /\ q.req = call[c].req /\ q.at = now /\ q.ok = TRUE /\ q.seen = call[c].seen
      /\ q.note = call[c].note /\ q.pc = l
  BY <1>1, <1>2, <1>3 DEF Served
<1>6. call[c].seen = None /\ call[c].req # None
  BY <1>1 DEF Stage
<1>7. Stage(q) /\ Found(q)
  BY <1>1, <1>2, <1>5, <1>6 DEF Stage, Found, Req
<1> QED BY <1>2, <1>4, <1>5, <1>6, <1>7

(* The claims cache is asked.                                              *)
LEMMA ClaimsCacheGetKeeps ==
    ASSUME AuthInv, NEW c \in Calls, ClaimsCacheGet(c)
    PROVE  AuthInv'
<1>1. call[c].pc = "admit" /\ now' = now
      /\ UNCHANGED <<storeVars, access, cache, healthy, wrong, overlap, faults>>
  BY DEF ClaimsCacheGet
<1>2. faults' \in 0..MaxFaults
  BY <1>1 DEF AuthInv, TypeOK
<1>3. StoresOK'
  BY <1>1, StoresKept
<1>4. call[c] \in Served /\ Stage(call[c]) /\ now \in 0..MaxTime /\ now \in Nat
  BY CallFacts
<1>5. PICK q : q = IF Cached(c) THEN Admitted(c) ELSE [call[c] EXCEPT !.pc = "validate", !.at = now]
  OBVIOUS
<1>6. call' = [call EXCEPT ![c] = q]
  BY <1>5 DEF ClaimsCacheGet
<1>7. q \in Served /\ q.req = call[c].req /\ q.at = now /\ Stage(q) /\ Found(q)
  <2>1. CASE Cached(c)
    BY <1>1, <1>5, <2>1, AdmittedFacts
  <2>2. CASE ~Cached(c)
    <3>1. q \in Served /\ q.req = call[c].req /\ q.at = now /\ q.pc = "validate" /\ q.seen = call[c].seen
      BY <1>4, <1>5, <2>2 DEF Served, Labels
    <3> QED BY <1>1, <1>4, <3>1 DEF Stage, Found
  <2> QED BY <2>1, <2>2
<1>8. Becomes(c, q)
  BY <1>1, <1>2, <1>6, <1>7 DEF Becomes, storeVars
<1> QED BY <1>3, <1>4, <1>7, <1>8, OneCall

(* The token is validated.                                                 *)
LEMMA ValidateTokenKeeps ==
    ASSUME AuthInv, NEW c \in Calls, ValidateToken(c)
    PROVE  AuthInv'
<1>1. call[c].pc = "validate" /\ now' = now
      /\ UNCHANGED <<storeVars, access, cache, healthy, wrong, overlap>>
  BY DEF ValidateToken
<1>2. faults' \in 0..MaxFaults
  BY FaultCount DEF ValidateToken
<1>3. StoresOK'
  BY <1>1, StoresKept
<1>4. call[c] \in Served /\ Stage(call[c]) /\ call[c].at <= now
  BY CallFacts
<1>5. PICK v \in BOOLEAN, n \in BOOLEAN :
        call' = [call EXCEPT ![c] = [@ EXCEPT !.pc = "reply", !.ok = v, !.note = n]]
  <2>1. CASE call' = [call EXCEPT ![c] = [@ EXCEPT !.pc = "reply", !.ok = ~Expired(Tok(c)) /\ ~IsRevoked(Tok(c))]]
    <3>1. PICK v \in BOOLEAN : v = (~Expired(Tok(c)) /\ ~IsRevoked(Tok(c)))
      OBVIOUS
    <3>2. call' = [call EXCEPT ![c] = [@ EXCEPT !.pc = "reply", !.ok = v]]
      BY <2>1, <3>1
    <3>3. call[c].note \in BOOLEAN
      BY <1>4 DEF Served
    <3>4. [call[c] EXCEPT !.pc = "reply", !.ok = v] = [call[c] EXCEPT !.pc = "reply", !.ok = v, !.note = call[c].note]
      BY <1>4 DEF Served
    <3> QED BY <3>1, <3>2, <3>3, <3>4
  <2>2. CASE call' = [call EXCEPT ![c] = [@ EXCEPT !.pc = "reply", !.ok = ~Expired(Tok(c)), !.note = TRUE]]
    BY <2>2
  <2> QED BY <2>1, <2>2 DEF ValidateToken
<1>6. PICK q : q = [call[c] EXCEPT !.pc = "reply", !.ok = v, !.note = n]
  OBVIOUS
<1>7. call' = [call EXCEPT ![c] = q]
  BY <1>5, <1>6
<1>8. q \in Served /\ q.req = call[c].req /\ q.at = call[c].at /\ q.pc = "reply" /\ q.seen = call[c].seen
  BY <1>4, <1>6 DEF Served, Labels
<1>9. Stage(q) /\ Found(q)
  BY <1>1, <1>4, <1>8 DEF Stage, Found
<1>10. Becomes(c, q)
  BY <1>1, <1>2, <1>7, <1>8 DEF Becomes, storeVars
<1> QED BY <1>3, <1>4, <1>8, <1>9, <1>10, OneCall

(* What a gateway puts into its cache: nothing, or a time no later than    *)
(* CacheTTL from now and no later than the token's end.                    *)
LEMMA CacheSetFacts ==
    ASSUME AuthInv, NEW t \in Calls, access[t] \in AccessTokens
    PROVE  /\ CacheSet(t) \in Ticks \cup {None}
           /\ CacheSet(t) # None => /\ CacheSet(t) \in Nat /\ CacheSet(t) <= now + CacheTTL
                                    /\ now < access[t].exp
<1>1. access[t].exp \in Ticks /\ now \in 0..MaxTime
  BY DEF AccessTokens, AuthInv, TypeOK
<1>2. access[t].exp \in Nat /\ now \in Nat /\ now + CacheTTL \in Ticks /\ CacheTTL \in Nat
  BY <1>1, AuthAssumption DEF AuthConstants, Ticks
<1> QED BY <1>1, <1>2 DEF CacheSet

(* What caching a validated token leaves.                                  *)
LEMMA CacheWritten ==
    ASSUME NEW K, K \in [Gateways -> [Calls -> Ticks \cup {None}]], NEW g \in Gateways,
           NEW t \in Calls, NEW e \in Ticks \cup {None}, NEW L,
           L = [K EXCEPT ![g] = [@ EXCEPT ![t] = e]]
    PROVE  /\ L \in [Gateways -> [Calls -> Ticks \cup {None}]]
           /\ \A h \in Gateways, u \in Calls : L[h][u] = K[h][u] \/ (L[h][u] = e /\ u = t)
<1>1. PICK m : m = [K[g] EXCEPT ![t] = e]
  OBVIOUS
<1>2. m \in [Calls -> Ticks \cup {None}] /\ \A u \in Calls : m[u] = K[g][u] \/ (m[u] = e /\ u = t)
  BY <1>1
<1>3. L = [K EXCEPT ![g] = m]
  BY <1>1
<1>4. L[g] = m /\ \A h \in Gateways : h # g => L[h] = K[h]
  BY <1>3
<1> QED BY <1>2, <1>3, <1>4

(* The answer of the auth service arrives.                                 *)
LEMMA ValidateReplyKeeps ==
    ASSUME AuthInv, NEW c \in Calls, ValidateReply(c)
    PROVE  AuthInv'
<1>1. call[c].pc = "reply" /\ now' = now
      /\ UNCHANGED <<storeVars, access, healthy, wrong, overlap, faults>>
  BY DEF ValidateReply
<1>2. faults' \in 0..MaxFaults
  BY <1>1 DEF AuthInv, TypeOK
<1>3. UNCHANGED <<user, refresh, blocklist>>
  BY <1>1 DEF storeVars
<1>4. CASE Answer(c, FALSE) /\ UNCHANGED cache
  <2>1. StoresOK'
    BY <1>1, <1>4, StoresKept
  <2> QED BY <1>1, <1>2, <1>3, <1>4, <2>1, AnswerKeeps
<1>5. CASE /\ cache' = IF CacheSet(Tok(c)) = None THEN cache
                        ELSE [cache EXCEPT ![Req(c).gw] = [@ EXCEPT ![Tok(c)] = CacheSet(Tok(c))]]
           /\ call' = [call EXCEPT ![c] = Admitted(c)]
  <2>1. Stage(call[c]) /\ now \in Nat
    BY CallFacts
  <2>2. Req(c).op # "LOGIN"
    BY <1>1, <2>1 DEF Stage, Req
  <2>3. Tok(c) \in Calls /\ Req(c).gw \in Gateways /\ access[Tok(c)] \in AccessTokens
    BY <1>1, <2>2, CallFacts
  <2>4. CacheSet(Tok(c)) \in Ticks \cup {None}
    BY <2>3, CacheSetFacts
  <2>5. StoresOK
    BY StoresAreOK
  <2>6. cache \in [Gateways -> [Calls -> Ticks \cup {None}]]
    BY <2>5 DEF StoresOK
  <2>7. cache' \in [Gateways -> [Calls -> Ticks \cup {None}]]
    BY <1>5, <2>3, <2>4, <2>6, CacheWritten
  <2>8. StoresOK'
    <3>1. TokensFine' /\ UserFine'
      BY <1>1, <1>3, <2>5 DEF StoresOK, TokensFine, UserFine
    <3> QED BY <1>1, <1>3, <2>5, <2>7, <3>1 DEF StoresOK
  <2>9. Admitted(c) \in Served /\ Stage(Admitted(c)) /\ Found(Admitted(c))
        /\ Admitted(c).req = call[c].req /\ Admitted(c).at = now
    BY <1>1, AdmittedFacts
  <2>10. PICK q : q = Admitted(c)
    OBVIOUS
  <2>11. Becomes(c, q)
    BY <1>1, <1>2, <1>3, <1>5, <2>9, <2>10 DEF Becomes
  <2> QED BY <2>1, <2>8, <2>9, <2>10, <2>11, OneCall
<1> QED BY <1>4, <1>5 DEF ValidateReply

(* The logout.                                                             *)
LEMMA RevokeTokenKeeps ==
    ASSUME AuthInv, NEW c \in Calls, RevokeToken(c)
    PROVE  AuthInv'
<1>1. call[c].pc = "revoke" /\ now' = now
      /\ UNCHANGED <<user, refresh, access, cache, healthy, wrong, overlap>>
  BY DEF RevokeToken
<1>2. faults' \in 0..MaxFaults
  BY FaultCount DEF RevokeToken
<1>3. call[c] \in Served /\ call \in [Calls -> Served] /\ Stage(call[c]) /\ call[c].at <= now /\ now \in Nat
  BY CallFacts
<1>4. StoresOK
  BY StoresAreOK
<1>5. CASE Goto(c, "done") /\ UNCHANGED blocklist
  <2>1. StoresOK'
    BY <1>1, <1>5, StoresKept DEF storeVars
  <2>2. Stage([call[c] EXCEPT !.pc = "done"]) /\ Found([call[c] EXCEPT !.pc = "done"])
    BY <1>1, <1>3 DEF Stage, Found, Served
  <2>3. "done" \in Labels \ {"idle"}
    BY DEF Labels
  <2> QED BY <1>1, <1>2, <1>5, <2>1, <2>2, <2>3, GotoKeeps
<1>6. CASE /\ blocklist' = IF IsRevoked(Tok(c)) THEN blocklist
                           ELSE blocklist \cup {[id |-> TokenID(Tok(c)), exp |-> access[Tok(c)].exp]}
           /\ call' = [call EXCEPT ![c] = [@ EXCEPT !.pc = "done", !.seen = now]]
  <2>1. Req(c).op # "LOGIN"
    BY <1>1, <1>3 DEF Stage, Req
  <2>2. Tok(c) \in Calls /\ access[Tok(c)] \in AccessTokens
    BY <1>1, <2>1, CallFacts
  <2>3. [id |-> TokenID(Tok(c)), exp |-> access[Tok(c)].exp] \in [id : TokenIDs, exp : Ticks]
    <3>1. TokenID(Tok(c)) \in TokenIDs
      BY <2>2 DEF TokenID, TokenIDs, AccessTokens
    <3> QED BY <2>2, <3>1 DEF AccessTokens
  <2>4. blocklist' \subseteq [id : TokenIDs, exp : Ticks]
    BY <1>4, <1>6, <2>3 DEF StoresOK
  <2>5. StoresOK'
    <3>1. TokensFine' /\ UserFine'
      BY <1>1, <1>4 DEF StoresOK, TokensFine, UserFine
    <3> QED BY <1>1, <1>4, <2>4, <3>1 DEF StoresOK
  <2>6. PICK q : q = [call[c] EXCEPT !.pc = "done", !.seen = now]
    OBVIOUS
  <2>7. call' = [call EXCEPT ![c] = q]
    BY <1>6, <2>6
  <2>8. q \in Served /\ q.req = call[c].req /\ q.at = call[c].at /\ q.pc = "done"
    BY <1>3, <2>6 DEF Served, Labels
  <2>9. Stage(q) /\ Found(q)
    BY <1>1, <1>3, <2>8 DEF Stage, Found
  <2>10. Becomes(c, q)
    BY <1>1, <1>2, <2>7, <2>8 DEF Becomes
  <2> QED BY <1>3, <2>5, <2>8, <2>9, <2>10, OneCall
<1> QED BY <1>5, <1>6 DEF RevokeToken

(* A request arrives.                                                      *)
LEMMA BeginKeeps ==
    ASSUME AuthInv, NEW c \in Calls, NEW r \in Requests[c], NEW l, NEW n \in BOOLEAN, Begin(c, r, l, n),
           \/ r.op = "LOGIN" /\ l = "login"
           \/ r.op = "REFRESH" /\ l = "find" /\ Given(r.token)
           \/ r.op \in {"LOGOUT", "USE"} /\ l = "admit" /\ Given(r.token)
    PROVE  AuthInv'
<1>1. call[c].pc = "idle" /\ now' = now
      /\ UNCHANGED <<storeVars, access, cache, healthy, wrong, overlap, faults>>
  BY DEF Begin
<1>2. faults' \in 0..MaxFaults
  BY <1>1 DEF AuthInv, TypeOK
<1>3. StoresOK'
  BY <1>1, StoresKept
<1>4. now \in 0..MaxTime
  BY DEF AuthInv, TypeOK
<1>5. PICK q : q = [Idle EXCEPT !.req = r, !.pc = l, !.note = n]
  OBVIOUS
<1>6. call' = [call EXCEPT ![c] = q]
  BY <1>5 DEF Begin
<1>7. r \in (UNION {Requests[d] : d \in Calls}) \cup {None}
  OBVIOUS
<1>8. l \in Labels /\ 0 \in 0..MaxTime
  BY AuthAssumption DEF Labels, AuthConstants
<1>9. q \in Served /\ q.pc = l /\ q.req = r /\ q.seen = None /\ q.at = 0
  <2>1. Idle \in Served /\ Idle.seen = None /\ Idle.at = 0
    BY <1>8 DEF Idle, Served, Labels
  <2> QED BY <1>5, <1>7, <1>8, <2>1 DEF Served
<1>10. r # None
  BY NoneAssumption DEF NoneIsNothing
<1>11. Stage(q) /\ Found(q)
  BY <1>9, <1>10 DEF Stage, Found
<1>12. Presents(q)
  BY <1>9 DEF Presents, Given
<1>13. Becomes(c, q)
  BY <1>1, <1>2, <1>6, <1>9 DEF Becomes, storeVars
<1>14. q.at <= now
  BY <1>4, <1>9
<1> QED BY <1>3, <1>11, <1>12, <1>13, <1>14, OneCall

(* Steps of no call: they neither move a call nor touch a token.           *)
LEMMA NoCallKeeps ==
    ASSUME AuthInv, StoresOK', UNCHANGED <<refresh, access, call, faults>>,
           now' \in 0..MaxTime, now' >= now
    PROVE  AuthInv'
<1>1. TypeOK'
  BY DEF AuthInv, TypeOK, StoresOK
<1>2. ASSUME NEW c \in Calls
      PROVE  (Stage(call[c]) /\ Presents(call[c]) /\ Found(call[c]) /\ call[c].at <= now)'
  <2>1. Stage(call[c]) /\ Presents(call[c]) /\ Found(call[c]) /\ call[c].at <= now
    BY DEF AuthInv
  <2>2. call[c].at \in 0..MaxTime /\ now \in 0..MaxTime
    BY DEF AuthInv, TypeOK, Served
  <2>3. (call[c].at <= now)'
    BY <2>1, <2>2
  <2> QED BY <2>1, <2>3 DEF Stage, Presents, Found, Done
<1> QED BY <1>1, <1>2 DEF AuthInv, StoresOK

(* The TTL monitor, the cleanup loop, the health poller and the clock.     *)
LEMMA BackgroundKeeps ==
    ASSUME AuthInv, PurgeExpired \/ (\E g \in Gateways : CleanupClaims(g)) \/ HealthPoll \/ Tick
    PROVE  AuthInv'
<1>1. StoresOK /\ now \in 0..MaxTime /\ faults \in 0..MaxFaults /\ MaxTime \in Nat
  BY StoresAreOK, AuthAssumption DEF AuthInv, TypeOK, AuthConstants
<1>2. CASE PurgeExpired
  <2>1. blocklist' \subseteq blocklist
        /\ UNCHANGED <<now, user, refresh, access, cache, healthy, call, wrong, overlap, faults>>
    BY <1>2 DEF PurgeExpired
  <2>2. TokensFine' /\ UserFine'
    BY <1>1, <2>1 DEF StoresOK, TokensFine, UserFine
  <2>3. StoresOK'
    BY <1>1, <2>1, <2>2 DEF StoresOK
  <2> QED BY <1>1, <2>1, <2>3, NoCallKeeps
<1>3. ASSUME NEW g \in Gateways, CleanupClaims(g)
      PROVE  AuthInv'
  <2>1. UNCHANGED <<now, user, refresh, blocklist, access, healthy, call, wrong, overlap, faults>>
    BY <1>3 DEF CleanupClaims, storeVars
  <2>2. TokensFine' /\ UserFine'
    BY <1>1, <2>1 DEF StoresOK, TokensFine, UserFine
  <2>3. cache' \in [Gateways -> [Calls -> Ticks \cup {None}]]
    <3>1. PICK stale : cache' = [cache EXCEPT ![g] = [t \in Calls |-> IF t \in stale THEN None ELSE @[t]]]
      BY <1>3 DEF CleanupClaims
    <3>2. [t \in Calls |-> IF t \in stale THEN None ELSE cache[g][t]] \in [Calls -> Ticks \cup {None}]
      BY <1>1 DEF StoresOK
    <3> QED BY <1>1, <3>1, <3>2 DEF StoresOK
  <2>4. StoresOK'
    BY <1>1, <2>1, <2>2, <2>3 DEF StoresOK
  <2> QED BY <1>1, <2>1, <2>4, NoCallKeeps
<1>4. CASE HealthPoll
  <2>1. healthy' \in BOOLEAN
        /\ UNCHANGED <<now, user, refresh, blocklist, access, cache, call, wrong, overlap, faults>>
    BY <1>4 DEF HealthPoll, storeVars
  <2>2. TokensFine' /\ UserFine'
    BY <1>1, <2>1 DEF StoresOK, TokensFine, UserFine
  <2>3. StoresOK'
    BY <1>1, <2>1, <2>2 DEF StoresOK
  <2> QED BY <1>1, <2>1, <2>3, NoCallKeeps
<1>5. CASE Tick
  <2>1. now' \in 0..MaxTime /\ now' >= now
        /\ UNCHANGED <<storeVars, access, cache, healthy, call, wrong, overlap, faults>>
    BY <1>1, <1>5 DEF Tick
  <2>2. StoresOK' /\ refresh' = refresh
    BY <2>1, StoresKept DEF storeVars
  <2> QED BY <2>1, <2>2, NoCallKeeps
<1> QED BY <1>2, <1>3, <1>4, <1>5

(* Initially the invariant holds.                                          *)
LEMMA InitHolds ==
    ASSUME Init
    PROVE  AuthInv
<1>1. /\ 0 \in 0..MaxTime /\ 0 \in 0..MaxFaults /\ 0 \in Nat /\ 0 \in 0..MaxFailed /\ 0 < MaxFailed
  BY AuthAssumption DEF AuthConstants
<1>2. Idle \in Served /\ Idle.pc = "idle" /\ Idle.req = None /\ Idle.seen = None /\ Idle.at = 0
  BY <1>1 DEF Idle, Served, Labels
<1>3. TypeOK
  BY <1>1, <1>2 DEF Init, TypeOK, Statuses
<1>4. TokensFine /\ UserFine
  BY <1>1 DEF Init, TokensFine, UserFine
<1>5. ASSUME NEW c \in Calls
      PROVE  Stage(call[c]) /\ Presents(call[c]) /\ Found(call[c]) /\ call[c].at <= now
  <2>1. call[c] = Idle /\ now = 0
    BY DEF Init
  <2> QED BY <1>2, <2>1 DEF Stage, Presents, Found
<1> QED BY <1>3, <1>4, <1>5 DEF AuthInv

(* Every step keeps it.                                                    *)
LEMMA NextKeeps ==
    ASSUME AuthInv, [Next]_vars
    PROVE  AuthInv'
<1>1. CASE UNCHANGED vars
  <2>1. UNCHANGED <<now, storeVars, access, cache, healthy, call, wrong, overlap, faults>>
    BY <1>1 DEF vars
  <2>2. StoresOK' /\ refresh' = refresh
    BY <2>1, StoresKept DEF storeVars
  <2>3. now \in 0..MaxTime
    BY DEF AuthInv, TypeOK
  <2> QED BY <2>1, <2>2, <2>3, NoCallKeeps
<1>2. CASE Tick \/ HealthPoll \/ PurgeExpired \/ \E g \in Gateways : CleanupClaims(g)
  BY <1>2, BackgroundKeeps
<1>3. ASSUME NEW c \in Calls, CallStep(c) PROVE AuthInv'
  BY <1>3, LoginExternalKeeps, FindByUsernameKeeps, UnlockKeeps, WrongPasswordKeeps, ResetFailuresKeeps,
     IssueAccessTokenKeeps, StoreRefreshTokenKeeps, FindRefreshTokenKeeps, RefreshExternalKeeps,
     RevokeRefreshTokenKeeps, ClaimsCacheGetKeeps, ValidateTokenKeeps, ValidateReplyKeeps,
     RevokeTokenKeeps DEF CallStep
<1>4. ASSUME NEW c \in Calls, NEW r \in Requests[c],
             HandleLogin(c, r) \/ HandleRefresh(c, r) \/ HandleLogout(c, r) \/ AuthMiddleware(c, r)
      PROVE  AuthInv'
  <2>1. CASE HandleLogin(c, r)
    BY <2>1, BeginKeeps DEF HandleLogin
  <2>2. CASE HandleRefresh(c, r)
    <3>1. PICK n \in BOOLEAN : Begin(c, r, "find", n)
      BY <2>2 DEF HandleRefresh
    <3> QED BY <2>2, <3>1, BeginKeeps DEF HandleRefresh
  <2>3. CASE HandleLogout(c, r)
    BY <2>3, BeginKeeps DEF HandleLogout
  <2>4. CASE AuthMiddleware(c, r)
    BY <2>4, BeginKeeps DEF AuthMiddleware
  <2> QED BY <1>4, <2>1, <2>2, <2>3, <2>4
<1> QED BY <1>1, <1>2, <1>3, <1>4 DEF Next

(* What calls hold at each step is what the code gives them, whatever      *)
(* fails: AuthInv is an invariant of the sessions.                         *)
THEOREM AuthInvariant == Spec => []AuthInv
<1>1. Init => AuthInv
  BY InitHolds
<1>2. AuthInv /\ [Next]_vars => AuthInv'
  BY NextKeeps
<1> QED BY <1>1, <1>2, PTL DEF Spec

(* Documents, tokens, cache entries and calls are always well typed.       *)
THEOREM TypeCorrect == Spec => []TypeOK
<1>1. AuthInv => TypeOK
  BY DEF AuthInv
<1> QED BY <1>1, AuthInvariant, PTL

-----------------------------------------------------------------------------
(* What the two common forms of a step make of the calls.                  *)
Same(c) == call'[c].req = call[c].req /\ call'[c].at = call[c].at /\ call'[c].note = call[c].note
Others(c) == \A d \in Calls : d # c => call'[d] = call[d]

(* A call that moves on.                                                   *)
LEMMA GotoFacts ==
    ASSUME AuthInv, NEW c \in Calls, NEW l, Goto(c, l)
    PROVE  /\ Others(c) /\ Same(c) /\ call'[c].pc = l
           /\ call'[c].seen = call[c].seen /\ call'[c].ok = call[c].ok
<1>1. call[c] \in Served /\ call \in [Calls -> Served]
  BY CallFacts
<1>2. PICK q : q = [call[c] EXCEPT !.pc = l]
  OBVIOUS
<1>3. q.pc = l /\ q.req = call[c].req /\ q.at = call[c].at /\ q.note = call[c].note
      /\ q.seen = call[c].seen /\ q.ok = call[c].ok
  BY <1>1, <1>2 DEF Served
<1>4. call' = [call EXCEPT ![c] = q]
  BY <1>2 DEF Goto
<1> QED BY <1>1, <1>3, <1>4 DEF Others, Same

(* A call that is answered.                                                *)
LEMMA AnswerFacts ==
    ASSUME AuthInv, NEW c \in Calls, NEW o \in BOOLEAN, Answer(c, o)
    PROVE  /\ Others(c) /\ Same(c) /\ call'[c].pc = "done"
           /\ call'[c].seen = None /\ call'[c].ok = o
<1>1. call[c] \in Served /\ call \in [Calls -> Served]
  BY CallFacts
<1>2. PICK q : q = [call[c] EXCEPT !.pc = "done", !.ok = o, !.seen = None]
  OBVIOUS
<1>3. q.pc = "done" /\ q.req = call[c].req /\ q.at = call[c].at /\ q.note = call[c].note
      /\ q.seen = None /\ q.ok = o
  BY <1>1, <1>2 DEF Served
<1>4. call' = [call EXCEPT ![c] = q]
  BY <1>2 DEF Answer
<1> QED BY <1>1, <1>3, <1>4 DEF Others, Same

(* A request that passes or fails the claims cache.                        *)
LEMMA CacheGetFacts ==
    ASSUME AuthInv, NEW c \in Calls, ClaimsCacheGet(c)
    PROVE  /\ Others(c) /\ call'[c].req = call[c].req /\ call'[c].note = call[c].note
           /\ call'[c].at = now /\ call'[c].seen = None /\ call'[c].ok \in BOOLEAN
           /\ call'[c].pc \in {"validate", "revoke", "done"}
           /\ call'[c].pc # "validate" => Cached(c)
           /\ call'[c].pc = "done" => Req(c).op = "USE"
<1>1. call[c] \in Served /\ call \in [Calls -> Served] /\ Stage(call[c]) /\ call[c].pc = "admit"
  BY CallFacts DEF ClaimsCacheGet
<1>2. PICK q : q = IF Cached(c) THEN Admitted(c) ELSE [call[c] EXCEPT !.pc = "validate", !.at = now]
  OBVIOUS
<1>3. call'[c] = q /\ Others(c)
  BY <1>1, <1>2 DEF ClaimsCacheGet, Others
<1>4. Req(c).op \in {"USE", "LOGOUT"} /\ call[c].seen = None
  BY <1>1 DEF Stage, Req
<1>5. CASE Cached(c)
  BY <1>1, <1>2, <1>3, <1>4, <1>5, AdmittedFacts
<1>6. CASE ~Cached(c)
  <2>1. q.pc = "validate" /\ q.at = now /\ q.req = call[c].req /\ q.note = call[c].note
        /\ q.seen = call[c].seen /\ q.ok \in BOOLEAN
    BY <1>1, <1>2, <1>6 DEF Served
  <2> QED BY <1>3, <1>4, <2>1
<1> QED BY <1>5, <1>6

(* A validation.                                                           *)
LEMMA ValidateFacts ==
    ASSUME AuthInv, NEW c \in Calls, ValidateToken(c)
    PROVE  /\ Others(c) /\ call'[c].req = call[c].req /\ call'[c].at = call[c].at
           /\ call'[c].pc = "reply" /\ call'[c].seen = None
           /\ call'[c].ok => ~Expired(Tok(c)) /\ (~IsRevoked(Tok(c)) \/ call'[c].note)
           /\ call[c].note => call'[c].note
<1>1. call[c] \in Served /\ call \in [Calls -> Served] /\ Stage(call[c]) /\ call[c].pc = "validate"
  BY CallFacts DEF ValidateToken
<1>2. call[c].seen = None
  BY <1>1 DEF Stage
<1>3. CASE call' = [call EXCEPT ![c] = [@ EXCEPT !.pc = "reply", !.ok = ~Expired(Tok(c)) /\ ~IsRevoked(Tok(c))]]
  <2>1. PICK v \in BOOLEAN : v = (~Expired(Tok(c)) /\ ~IsRevoked(Tok(c)))
    OBVIOUS
  <2>2. PICK q : q = [call[c] EXCEPT !.pc = "reply", !.ok = v]
    OBVIOUS
  <2>3. call' = [call EXCEPT ![c] = q]
    BY <1>3, <2>1, <2>2
  <2>4. q.pc = "reply" /\ q.ok = v /\ q.req = call[c].req /\ q.at = call[c].at /\ q.note = call[c].note
        /\ q.seen = call[c].seen
    BY <1>1, <2>2 DEF Served
  <2>5. call'[c] = q /\ Others(c)
    BY <1>1, <2>3 DEF Others
  <2> QED BY <1>2, <2>1, <2>4, <2>5
<1>4. CASE call' = [call EXCEPT ![c] = [@ EXCEPT !.pc = "reply", !.ok = ~Expired(Tok(c)), !.note = TRUE]]
  <2>1. PICK v \in BOOLEAN : v = ~Expired(Tok(c))
    OBVIOUS
  <2>2. PICK q : q = [call[c] EXCEPT !.pc = "reply", !.ok = v, !.note = TRUE]
    OBVIOUS
  <2>3. call' = [call EXCEPT ![c] = q]
    BY <1>4, <2>1, <2>2
  <2>4. q.pc = "reply" /\ q.ok = v /\ q.req = call[c].req /\ q.at = call[c].at /\ q.note = TRUE
        /\ q.seen = call[c].seen
    BY <1>1, <2>2 DEF Served
  <2>5. call'[c] = q /\ Others(c)
    BY <1>1, <2>3 DEF Others
  <2> QED BY <1>2, <2>1, <2>4, <2>5
<1> QED BY <1>3, <1>4 DEF ValidateToken

(* An answer in time admits the request; a late or negative one refuses.   *)
LEMMA ReplyFacts ==
    ASSUME AuthInv, NEW c \in Calls, ValidateReply(c)
    PROVE  /\ Others(c) /\ call'[c].req = call[c].req /\ call'[c].note = call[c].note
           /\ call'[c].pc \in {"revoke", "done"} /\ call'[c].seen = None
           /\ \/ call'[c].ok = FALSE /\ cache' = cache
              \/ call[c].ok /\ now <= call[c].at + RPCTimeout /\ call'[c].at = now
<1>1. call[c] \in Served /\ call \in [Calls -> Served] /\ call[c].pc = "reply"
  BY CallFacts DEF ValidateReply
<1>2. CASE call[c].ok /\ now <= call[c].at + RPCTimeout
  <2>1. call' = [call EXCEPT ![c] = Admitted(c)]
    BY <1>2 DEF ValidateReply
  <2>2. call'[c] = Admitted(c) /\ Others(c)
    BY <1>1, <2>1 DEF Others
  <2> QED BY <1>1, <1>2, <2>2, AdmittedFacts
<1>3. CASE ~(call[c].ok /\ now <= call[c].at + RPCTimeout)
  <2>1. Answer(c, FALSE) /\ cache' = cache
    BY <1>3 DEF ValidateReply
  <2> QED BY <2>1, AnswerFacts DEF Same
<1> QED BY <1>2, <1>3

(* A logout takes effect or is over without effect.                        *)
LEMMA RevokeFacts ==
    ASSUME AuthInv, NEW c \in Calls, RevokeToken(c)
    PROVE  /\ Others(c) /\ Same(c) /\ call'[c].pc = "done"
           /\ \/ call'[c].seen = None /\ blocklist' = blocklist
              \/ /\ call'[c].seen = now /\ ~Expired(Tok(c))
                 /\ blocklist' = IF IsRevoked(Tok(c)) THEN blocklist
                                 ELSE blocklist \cup {[id |-> TokenID(Tok(c)), exp |-> access[Tok(c)].exp]}
<1>1. call[c] \in Served /\ call \in [Calls -> Served] /\ Stage(call[c]) /\ call[c].pc = "revoke"
  BY CallFacts DEF RevokeToken
<1>2. CASE Goto(c, "done") /\ UNCHANGED blocklist
  BY <1>1, <1>2, GotoFacts DEF Stage
<1>3. CASE ~(Goto(c, "done") /\ UNCHANGED blocklist)
  <2>1. /\ call' = [call EXCEPT ![c] = [@ EXCEPT !.pc = "done", !.seen = now]] /\ ~Expired(Tok(c))
        /\ blocklist' = IF IsRevoked(Tok(c)) THEN blocklist
                        ELSE blocklist \cup {[id |-> TokenID(Tok(c)), exp |-> access[Tok(c)].exp]}
    BY <1>3 DEF RevokeToken
  <2>2. PICK q : q = [call[c] EXCEPT !.pc = "done", !.seen = now]
    OBVIOUS
  <2>3. call' = [call EXCEPT ![c] = q]
    BY <2>1, <2>2
  <2>4. q.pc = "done" /\ q.seen = now /\ q.req = call[c].req /\ q.at = call[c].at /\ q.note = call[c].note
    BY <1>1, <2>2 DEF Served
  <2>5. call'[c] = q /\ Others(c)
    BY <1>1, <2>3 DEF Others
  <2> QED BY <2>1, <2>4, <2>5 DEF Same
<1> QED BY <1>2, <1>3

(* A request that arrives.                                                 *)
LEMMA BeginFacts ==
    ASSUME AuthInv, NEW c \in Calls, NEW r, NEW l, NEW n, Begin(c, r, l, n)
    PROVE  /\ Others(c) /\ call'[c].pc = l /\ call'[c].req = r /\ call'[c].note = n /\ call'[c].at = 0
<1>1. call[c] \in Served /\ call \in [Calls -> Served]
  BY CallFacts
<1>2. PICK q : q = [Idle EXCEPT !.req = r, !.pc = l, !.note = n]
  OBVIOUS
<1>3. q.pc = l /\ q.req = r /\ q.note = n /\ q.at = 0
  BY <1>2 DEF Idle
<1>4. call' = [call EXCEPT ![c] = q]
  BY <1>2 DEF Begin
<1> QED BY <1>1, <1>3, <1>4 DEF Others

-----------------------------------------------------------------------------
(* The lockout: what does not touch the user and starts no login.          *)
LEMMA LockoutQuiet ==
    ASSUME LockoutInv, UNCHANGED <<user, wrong, overlap>>, faults' = 0 => faults = 0,
           \A d \in Calls : call'[d] = call[d] \/ call'[d].pc \notin {"unlock", "compare"}
    PROVE  LockoutInv'
<1>1. SUFFICES ASSUME ~overlap, faults = 0
               PROVE  LockoutInv'
  BY DEF LockoutInv
<1>2. InLogin' \subseteq InLogin
  BY DEF InLogin
<1>3. \A c, d \in InLogin : c = d
  BY <1>1 DEF LockoutInv
<1>4. \A c \in Calls : /\ call'[c].pc = "unlock" => call'[c].seen = 0
                       /\ call'[c].pc = "compare" => user.status = "ACTIVE" /\ call'[c].seen = user.failed
  BY <1>1 DEF LockoutInv
<1>5. user.failed = wrong /\ (user.status = "LOCKED" => user.until # None /\ wrong = MaxFailed)
  BY <1>1 DEF LockoutInv
<1> QED BY <1>2, <1>3, <1>4, <1>5 DEF LockoutInv

(* The login's own steps.                                                  *)
LEMMA LockoutByLogin ==
    ASSUME AuthInv, LockoutInv, NEW c \in Calls,
           FindByUsername(c) \/ Unlock(c) \/ WrongPassword(c) \/ ResetFailures(c)
    PROVE  LockoutInv'
<1>1. faults' = 0 => faults = 0
  BY FaultCount DEF FindByUsername, Unlock, WrongPassword, ResetFailures
<1>2. /\ call[c] \in Served /\ call \in [Calls -> Served] /\ Stage(call[c])
      /\ user \in [status : Statuses, failed : 0..MaxFailed, until : Ticks \cup {None}]
      /\ UserFine /\ wrong \in Nat /\ MaxFailed \in Nat \ {0} /\ now \in 0..MaxTime
  BY CallFacts, AuthAssumption DEF AuthInv, TypeOK, AuthConstants
<1>3. ASSUME NEW d \in InLogin, ~overlap, faults = 0, call[c].pc \in {"unlock", "compare"}
      PROVE  d = c
  BY <1>3 DEF LockoutInv, InLogin
<1>4. CASE FindByUsername(c)
  <2>1. CASE Answer(c, FALSE) /\ UNCHANGED overlap
    <3>1. UNCHANGED <<user, wrong>>
      BY <1>4 DEF FindByUsername, storeVars
    <3>2. \A d \in Calls : call'[d] = call[d] \/ call'[d].pc \notin {"unlock", "compare"}
      BY <2>1, AnswerFacts DEF Others
    <3> QED BY <1>1, <2>1, <3>1, <3>2, LockoutQuiet
  <2>2. CASE ~(Answer(c, FALSE) /\ UNCHANGED overlap)
    <3> DEFINE l == IF user.status = "LOCKED" THEN "unlock" ELSE "compare"
               n == IF user.status = "LOCKED" THEN 0 ELSE user.failed
    <3>1. /\ call' = [call EXCEPT ![c] = [@ EXCEPT !.pc = l, !.seen = n]]
          /\ overlap' = (overlap \/ InLogin # {}) /\ UNCHANGED <<user, wrong>>
          /\ user.status # "SUSPENDED"
      BY <1>4, <2>2 DEF FindByUsername, storeVars
    <3>2. PICK q : q = [call[c] EXCEPT !.pc = l, !.seen = n]
      OBVIOUS
    <3>3. q.pc = l /\ q.seen = n
      BY <1>2, <3>2 DEF Served
    <3>4. call'[c] = q /\ \A d \in Calls : d # c => call'[d] = call[d]
      BY <1>2, <3>1, <3>2
    <3>5. SUFFICES ASSUME ~overlap', faults' = 0
                   PROVE  LockoutInv'
      BY DEF LockoutInv
    <3>6. ~overlap /\ InLogin = {} /\ faults = 0
      BY <1>1, <3>1, <3>5
    <3>7. \A d \in Calls : d # c => call'[d].pc \notin {"unlock", "compare"}
      BY <3>4, <3>6 DEF InLogin
    <3>8. \A d, e \in InLogin' : d = e
      BY <3>7 DEF InLogin
    <3>9. user.failed = wrong /\ (user.status = "LOCKED" => user.until # None /\ wrong = MaxFailed)
      BY <3>6 DEF LockoutInv
    <3>10. \A d \in Calls : /\ call'[d].pc = "unlock" => call'[d].seen = 0
                            /\ call'[d].pc = "compare" => user.status = "ACTIVE" /\ call'[d].seen = user.failed
      BY <1>2, <3>1, <3>3, <3>4, <3>7 DEF Statuses
    <3> QED BY <3>1, <3>8, <3>9, <3>10 DEF LockoutInv
  <2> QED BY <2>1, <2>2
<1>5. CASE Unlock(c)
  <2>1. call[c].pc = "unlock" /\ Goto(c, "compare") /\ overlap' = overlap
    BY <1>5 DEF Unlock
  <2>2. Others(c) /\ call'[c].pc = "compare" /\ call'[c].seen = call[c].seen
    BY <2>1, GotoFacts
  <2>3. SUFFICES ASSUME ~overlap', faults' = 0
                 PROVE  LockoutInv'
    BY DEF LockoutInv
  <2>4. ~overlap /\ faults = 0 /\ call[c].seen = 0 /\ \A d \in Calls : d # c => d \notin InLogin
    BY <1>1, <1>3, <2>1, <2>3 DEF LockoutInv
  <2>5. ~Fail
    BY <1>2, <2>3, <2>4 DEF Fail
  <2>6. user' = [status |-> "ACTIVE", failed |-> 0, until |-> None] /\ wrong' = 0
    BY <1>5, <2>5 DEF Unlock
  <2>7. user'.status = "ACTIVE" /\ user'.failed = 0
    BY <2>6
  <2>8. \A d \in Calls : d # c => call'[d].pc \notin {"unlock", "compare"}
    BY <2>2, <2>4 DEF Others, InLogin
  <2>9. \A d, e \in InLogin' : d = e
    BY <2>8 DEF InLogin
  <2> QED BY <2>2, <2>4, <2>6, <2>7, <2>8, <2>9 DEF LockoutInv
<1>6. CASE WrongPassword(c)
  <2>1. call[c].pc = "compare" /\ Answer(c, FALSE) /\ overlap' = overlap /\ wrong' = wrong + 1
    BY <1>6 DEF WrongPassword
  <2>2. Others(c) /\ call'[c].pc = "done"
    BY <2>1, AnswerFacts
  <2>3. SUFFICES ASSUME ~overlap', faults' = 0
                 PROVE  LockoutInv'
    BY DEF LockoutInv
  <2>4. /\ ~overlap /\ faults = 0 /\ user.status = "ACTIVE" /\ call[c].seen = user.failed
        /\ user.failed = wrong /\ \A d \in Calls : d # c => d \notin InLogin
    BY <1>1, <1>3, <2>1, <2>3 DEF LockoutInv
  <2>5. ~Fail
    BY <1>2, <2>3, <2>4 DEF Fail
  <2>6. PICK n : n = wrong + 1 /\ n = call[c].seen + 1
    BY <2>4
  <2>7. user' = IF n >= MaxFailed
                THEN [status |-> "LOCKED", failed |-> n, until |-> now + LockTicks]
                ELSE [user EXCEPT !.failed = n]
    BY <1>6, <2>5, <2>6 DEF WrongPassword
  <2>8. n <= MaxFailed /\ n \in Nat
    BY <1>2, <2>4, <2>6 DEF UserFine
  <2>9. /\ user'.failed = n
        /\ user'.status = "LOCKED" => user'.until # None /\ n = MaxFailed
    <3>1. CASE n >= MaxFailed
      <4>1. user' = [status |-> "LOCKED", failed |-> n, until |-> now + LockTicks]
        BY <2>7, <3>1
      <4>2. now + LockTicks # None
        BY <1>2, AuthAssumption, NoneAssumption DEF AuthConstants, NoneIsNothing
      <4>3. n = MaxFailed
        BY <1>2, <2>8, <3>1
      <4> QED BY <4>1, <4>2, <4>3
    <3>2. CASE ~(n >= MaxFailed)
      <4>1. user' = [user EXCEPT !.failed = n]
        BY <2>7, <3>2
      <4> QED BY <1>2, <2>4, <4>1
    <3> QED BY <3>1, <3>2
  <2>10. \A d \in Calls : call'[d].pc \notin {"unlock", "compare"}
    BY <2>2, <2>4 DEF Others, InLogin
  <2> QED BY <2>1, <2>6, <2>9, <2>10 DEF LockoutInv, InLogin
<1>7. CASE ResetFailures(c)
  <2>1. call[c].pc = "compare" /\ Goto(c, "issue") /\ overlap' = overlap /\ wrong' = 0
    BY <1>7 DEF ResetFailures
  <2>2. Others(c) /\ call'[c].pc = "issue"
    BY <2>1, GotoFacts
  <2>3. SUFFICES ASSUME ~overlap', faults' = 0
                 PROVE  LockoutInv'
    BY DEF LockoutInv
  <2>4. ~overlap /\ faults = 0 /\ user.status = "ACTIVE" /\ \A d \in Calls : d # c => d \notin InLogin
    BY <1>1, <1>3, <2>1, <2>3 DEF LockoutInv
  <2>5. ~Fail
    BY <1>2, <2>3, <2>4 DEF Fail
  <2>6. user' = [user EXCEPT !.failed = 0, !.until = None]
    BY <1>7, <2>5 DEF ResetFailures
  <2>7. user'.status = "ACTIVE" /\ user'.failed = 0
    BY <1>2, <2>4, <2>6
  <2>8. \A d \in Calls : call'[d].pc \notin {"unlock", "compare"}
    BY <2>2, <2>4 DEF Others, InLogin
  <2> QED BY <2>1, <2>7, <2>8 DEF LockoutInv, InLogin
<1> QED BY <1>4, <1>5, <1>6, <1>7

(* The steps of a call that are not a login's.                             *)
OtherStep(c) ==
    \/ LoginExternal(c) \/ IssueAccessToken(c) \/ StoreRefreshToken(c)
    \/ FindRefreshToken(c) \/ RefreshExternal(c) \/ RevokeRefreshToken(c)
    \/ ClaimsCacheGet(c) \/ ValidateToken(c) \/ ValidateReply(c) \/ RevokeToken(c)

Arrives(c, r) == HandleLogin(c, r) \/ HandleRefresh(c, r) \/ HandleLogout(c, r) \/ AuthMiddleware(c, r)

(* None of them is between the read of the user and the write.             *)
LEMMA LockoutByOthers ==
    ASSUME AuthInv, LockoutInv, NEW c \in Calls, OtherStep(c)
    PROVE  LockoutInv'
<1>1. UNCHANGED <<user, wrong, overlap>> /\ (faults' = 0 => faults = 0)
  <2>1. CASE LoginExternal(c)
    BY <2>1 DEF LoginExternal, storeVars
  <2>2. CASE IssueAccessToken(c)
    BY <2>2 DEF IssueAccessToken, storeVars
  <2>3. CASE StoreRefreshToken(c)
    BY <2>3, FaultCount DEF StoreRefreshToken
  <2>4. CASE FindRefreshToken(c)
    BY <2>4, FaultCount DEF FindRefreshToken, storeVars
  <2>5. CASE RefreshExternal(c)
    BY <2>5 DEF RefreshExternal, storeVars
  <2>6. CASE RevokeRefreshToken(c)
    BY <2>6, FaultCount DEF RevokeRefreshToken
  <2>7. CASE ClaimsCacheGet(c)
    BY <2>7 DEF ClaimsCacheGet, storeVars
  <2>8. CASE ValidateToken(c)
    BY <2>8, FaultCount DEF ValidateToken, storeVars
  <2>9. CASE ValidateReply(c)
    BY <2>9 DEF ValidateReply, storeVars
  <2>10. CASE RevokeToken(c)
    BY <2>10, FaultCount DEF RevokeToken
  <2> QED BY <2>1, <2>2, <2>3, <2>4, <2>5, <2>6, <2>7, <2>8, <2>9, <2>10 DEF OtherStep
<1>2. Others(c) /\ call'[c].pc \notin {"unlock", "compare"}
  <2>1. CASE \/ LoginExternal(c) \/ StoreRefreshToken(c) \/ RefreshExternal(c)
    <3>1. PICK o \in BOOLEAN : Answer(c, o)
      BY <2>1 DEF LoginExternal, StoreRefreshToken, RefreshExternal
    <3> QED BY <3>1, AnswerFacts
  <2>2. CASE IssueAccessToken(c) \/ FindRefreshToken(c) \/ RevokeRefreshToken(c)
    <3>1. PICK l : Goto(c, l) /\ l \notin {"unlock", "compare"}
      BY <2>2 DEF IssueAccessToken, FindRefreshToken, RevokeRefreshToken
    <3> QED BY <3>1, GotoFacts
  <2>3. CASE ClaimsCacheGet(c)
    BY <2>3, CacheGetFacts
  <2>4. CASE ValidateToken(c)
    BY <2>4, ValidateFacts
  <2>5. CASE ValidateReply(c)
    BY <2>5, ReplyFacts
  <2>6. CASE RevokeToken(c)
    BY <2>6, RevokeFacts
  <2> QED BY <2>1, <2>2, <2>3, <2>4, <2>5, <2>6 DEF OtherStep
<1> QED BY <1>1, <1>2, LockoutQuiet DEF Others

(* How requests arrive: at the first step of their handler.                *)
LEMMA ArrivalFacts ==
    ASSUME NEW c \in Calls, NEW r \in Requests[c], Arrives(c, r)
    PROVE  /\ r.op \in Operations
           /\ \E l \in {"login", "find", "admit"}, n \in BOOLEAN :
                 /\ Begin(c, r, l, n)
                 /\ l = "find" <=> r.op = "REFRESH"
                 /\ l = "find" => n = \E d \in Calls : /\ Done(d) /\ call[d].ok
                                                       /\ Req(d).op = "REFRESH" /\ Tok(d) = r.token
                 /\ l # "find" => n = FALSE
                 /\ r.op # "LOGIN" => Given(r.token)
<1>1. r.op \in Operations
  BY AuthAssumption DEF AuthConstants
<1>2. CASE HandleLogin(c, r)
  BY <1>1, <1>2 DEF HandleLogin
<1>3. CASE HandleRefresh(c, r)
  <2>1. PICK n \in BOOLEAN : n = \E d \in Calls : /\ Done(d) /\ call[d].ok
                                                  /\ Req(d).op = "REFRESH" /\ Tok(d) = r.token
    OBVIOUS
  <2>2. Begin(c, r, "find", n) /\ r.op = "REFRESH" /\ Given(r.token)
    BY <1>3, <2>1 DEF HandleRefresh
  <2> QED BY <1>1, <2>1, <2>2
<1>4. CASE HandleLogout(c, r)
  BY <1>1, <1>4 DEF HandleLogout
<1>5. CASE AuthMiddleware(c, r)
  BY <1>1, <1>5 DEF AuthMiddleware
<1> QED BY <1>2, <1>3, <1>4, <1>5 DEF Arrives

(* Every step keeps the lockout's invariant.                               *)
LEMMA LockoutKept ==
    ASSUME AuthInv, LockoutInv, [Next]_vars
    PROVE  LockoutInv'
<1>1. CASE UNCHANGED vars \/ Tick \/ HealthPoll \/ PurgeExpired \/ \E g \in Gateways : CleanupClaims(g)
  <2>1. UNCHANGED <<user, call, wrong, overlap, faults>>
    BY <1>1 DEF vars, storeVars, Tick, HealthPoll, PurgeExpired, CleanupClaims
  <2> QED BY <2>1, LockoutQuiet
<1>2. ASSUME NEW c \in Calls, CallStep(c) PROVE LockoutInv'
  <2>1. (FindByUsername(c) \/ Unlock(c) \/ WrongPassword(c) \/ ResetFailures(c)) \/ OtherStep(c)
    BY <1>2 DEF CallStep, OtherStep
  <2> QED BY <2>1, LockoutByLogin, LockoutByOthers
<1>3. ASSUME NEW c \in Calls, NEW r \in Requests[c], Arrives(c, r) PROVE LockoutInv'
  <2>1. PICK l \in {"login", "find", "admit"}, n \in BOOLEAN : Begin(c, r, l, n)
    BY <1>3, ArrivalFacts
  <2>2. Others(c) /\ call'[c].pc = l
    BY <2>1, BeginFacts
  <2>3. UNCHANGED <<user, wrong, overlap, faults>>
    BY <2>1 DEF Begin, storeVars
  <2> QED BY <2>1, <2>2, <2>3, LockoutQuiet DEF Others
<1> QED BY <1>1, <1>2, <1>3 DEF Next, Arrives

(* maxFailedLogins holds exactly for logins that come one after the other, *)
(* for any limit: no more wrong passwords are compared, the stored count   *)
(* is their number, and a lock always has an end.                          *)
THEOREM LockoutExactAlone == Spec => []LockoutAlone
<1>1. Init => LockoutInv
  <2>1. ASSUME Init PROVE LockoutInv
    <3>1. \A c \in Calls : call[c].pc = "idle"
      BY <2>1 DEF Init, Idle
    <3>2. user.failed = 0 /\ user.status # "LOCKED" /\ wrong = 0
      BY <2>1 DEF Init
    <3> QED BY <3>1, <3>2 DEF LockoutInv, InLogin
  <2> QED BY <2>1
<1>2. AuthInv /\ LockoutInv /\ [Next]_vars => LockoutInv'
  BY LockoutKept
<1>3. AuthInv /\ LockoutInv => LockoutAlone
  <2>1. ASSUME AuthInv, LockoutInv, ~overlap, faults = 0
        PROVE  /\ wrong <= MaxFailed
               /\ InLogin = {} => user.failed = wrong
               /\ user.status = "LOCKED" => user.until # None /\ wrong = MaxFailed
    <3>1. user.failed \in 0..MaxFailed /\ MaxFailed \in Nat
      BY <2>1, AuthAssumption DEF AuthInv, TypeOK, AuthConstants
    <3> QED BY <2>1, <3>1 DEF LockoutInv
  <2> QED BY <2>1 DEF LockoutAlone
<1> QED BY <1>1, <1>2, <1>3, AuthInvariant, PTL DEF Spec

-----------------------------------------------------------------------------
(* Rotation: tokens already given out stay what they are, and stay revoked *)
(* once they are, so only the call that moves has to be looked at.         *)
LEMMA RotationFrame ==
    ASSUME AuthInv, RotationInv, NEW c \in Calls, Others(c), call[c].pc # "done",
           faults' = 0 => faults = 0,
           \A t \in Calls : t # c => access'[t] = access[t],
           \A t \in Calls : t # c /\ Revoked(t) => Revoked(t)',
           Rotates(call[c])'
    PROVE  RotationInv'
<1>1. SUFFICES ASSUME NEW s \in Calls, s # c
               PROVE  Rotates(call[s])'
  BY DEF RotationInv
<1>2. call'[s] = call[s] /\ Rotates(call[s])
  BY <1>1 DEF Others, RotationInv
<1>3. SUFFICES ASSUME call[s].req # None, call[s].req.op = "REFRESH"
               PROVE  Rotates(call[s])'
  BY <1>2 DEF Rotates
<1>4. PICK t : t = call[s].req.token
  OBVIOUS
<1>5. t \in Calls /\ Done(t)
  <2>1. call[s].pc # "idle"
    BY <1>3, CallFacts DEF Stage
  <2> QED BY <1>3, <1>4, <2>1, CallFacts DEF Tok, Req
<1>6. t # c
  BY <1>5 DEF Done
<1>7. access'[t] = access[t] /\ (Revoked(t) => Revoked(t)')
  BY <1>5, <1>6
<1> QED BY <1>2, <1>3, <1>4, <1>7 DEF Rotates, Revoked

(* What is revoked stays so when the refresh tokens are left alone.        *)
LEMMA RevokedKept ==
    ASSUME UNCHANGED refresh
    PROVE  \A t \in Calls : Revoked(t) => Revoked(t)'
BY DEF Revoked

(* A step of a refresh.                                                    *)
LEMMA RotationByRefresh ==
    ASSUME AuthInv, RotationInv, NEW c \in Calls, CallStep(c), Req(c).op = "REFRESH", call[c].pc # "idle"
    PROVE  RotationInv'
<1>1. Stage(call[c]) /\ call[c] \in Served
  BY CallFacts
<1>2. PICK t : t = Tok(c)
  OBVIOUS
<1>3. t \in Calls /\ Done(t) /\ access[t] \in AccessTokens /\ Req(c) # None
  BY <1>1, <1>2, CallFacts DEF Stage, Req
<1>4. Rotates(call[c]) /\ call[c].req.token = t /\ call[c].req.op = "REFRESH" /\ call[c].req # None
  BY <1>2, <1>3 DEF RotationInv, Tok, Req
<1>5. call[c].pc \notin {"login", "unlock", "compare", "admit", "validate", "reply", "revoke"}
  BY <1>1, <1>4 DEF Stage
<1>6. IssueAccessToken(c) \/ StoreRefreshToken(c) \/ FindRefreshToken(c) \/ RefreshExternal(c) \/ RevokeRefreshToken(c)
  BY <1>5 DEF CallStep, LoginExternal, FindByUsername, Unlock, WrongPassword, ResetFailures, ClaimsCacheGet,
     ValidateToken, ValidateReply, RevokeToken
<1>7. CASE IssueAccessToken(c)
  <2>1. call[c].pc = "issue" /\ Goto(c, "rotate") /\ UNCHANGED <<refresh, faults>>
    BY <1>4, <1>7 DEF IssueAccessToken, storeVars, Req
  <2>2. Others(c) /\ Same(c) /\ call'[c].pc = "rotate"
    BY <2>1, GotoFacts
  <2>3. \A u \in Calls : u # c => access'[u] = access[u]
    BY <1>7, TokenIssued DEF IssueAccessToken
  <2>4. t # c
    BY <1>3, <2>1 DEF Done
  <2>5. access'[t] = access[t] /\ refresh'[t] = refresh[t]
    BY <1>3, <2>1, <2>3, <2>4
  <2>6. Rotates(call[c])'
    BY <1>4, <2>1, <2>2, <2>5 DEF Rotates, Revoked, Same
  <2> QED BY <2>1, <2>2, <2>3, <2>6, RevokedKept, RotationFrame
<1>8. CASE StoreRefreshToken(c)
  <2>1. call[c].pc = "store" /\ UNCHANGED access
    BY <1>8 DEF StoreRefreshToken
  <2>2. faults' = 0 => faults = 0
    BY <1>8, FaultCount DEF StoreRefreshToken
  <2>3. PICK o \in BOOLEAN : Answer(c, o)
    BY <1>8 DEF StoreRefreshToken
  <2>4. Others(c) /\ Same(c) /\ call'[c].pc = "done"
    BY <2>3, AnswerFacts
  <2>5. t # c
    BY <1>3, <2>1 DEF Done
  <2>6. \A u \in Calls : u # c => refresh'[u] = refresh[u]
    <3>1. refresh \in [Calls -> RefreshTokens \cup {None}]
      BY DEF AuthInv, TypeOK
    <3> QED BY <1>8, <3>1 DEF StoreRefreshToken
  <2>7. Rotates(call[c])'
    BY <1>3, <1>4, <2>1, <2>2, <2>4, <2>5, <2>6 DEF Rotates, Revoked, Same
  <2>8. \A u \in Calls : u # c /\ Revoked(u) => Revoked(u)'
    BY <2>6 DEF Revoked
  <2> QED BY <2>1, <2>2, <2>4, <2>7, <2>8, RotationFrame
<1>9. CASE FindRefreshToken(c)
  <2>1. call[c].pc = "find" /\ UNCHANGED <<access, refresh>>
    BY <1>9 DEF FindRefreshToken, storeVars
  <2>2. faults' = 0 => faults = 0
    BY <1>9, FaultCount DEF FindRefreshToken
  <2>3. PICK l \in {"issue", "external"} : Goto(c, l) /\ (l = "issue" => Live(t))
    BY <1>2, <1>9 DEF FindRefreshToken
  <2>4. Others(c) /\ Same(c) /\ call'[c].pc = l
    BY <2>3, GotoFacts
  <2>5. l = "issue" => ~Revoked(t)
    BY <2>3 DEF Live, Revoked
  <2>6. Rotates(call[c])'
    BY <1>4, <2>1, <2>2, <2>3, <2>4, <2>5 DEF Rotates, Revoked, Same
  <2> QED BY <2>1, <2>2, <2>4, <2>6, RevokedKept, RotationFrame
<1>10. CASE RefreshExternal(c)
  <2>1. call[c].pc = "external" /\ UNCHANGED <<refresh, faults>>
    BY <1>10 DEF RefreshExternal, storeVars
  <2>2. PICK o \in BOOLEAN : Answer(c, o) /\ (o => access[t].src # "local")
    BY <1>2, <1>10 DEF RefreshExternal
  <2>3. Others(c) /\ Same(c) /\ call'[c].pc = "done" /\ call'[c].ok = o
    BY <2>2, AnswerFacts
  <2>4. t # c
    BY <1>3, <2>1 DEF Done
  <2>5. \A u \in Calls : u # c => access'[u] = access[u]
    <3>1. CASE External(c)
      BY <3>1 DEF AuthInv, TypeOK, External
    <3>2. CASE UNCHANGED access
      BY <3>2
    <3> QED BY <1>10, <3>1, <3>2 DEF RefreshExternal, External
  <2>6. access'[t] = access[t] /\ refresh'[t] = refresh[t]
    BY <1>3, <2>1, <2>4, <2>5
  <2>7. Rotates(call[c])'
    BY <1>4, <2>1, <2>2, <2>3, <2>6 DEF Rotates, Revoked, Same
  <2> QED BY <2>1, <2>3, <2>5, <2>7, RevokedKept, RotationFrame
<1>11. CASE RevokeRefreshToken(c)
  <2>1. call[c].pc = "rotate" /\ Goto(c, "store") /\ UNCHANGED access /\ (Ok \/ Fail)
    BY <1>11 DEF RevokeRefreshToken
  <2>2. faults' = 0 => faults = 0
    BY <2>1, FaultCount
  <2>3. Others(c) /\ Same(c) /\ call'[c].pc = "store"
    BY <2>1, GotoFacts
  <2>4. refresh[t] # None /\ refresh \in [Calls -> RefreshTokens \cup {None}]
    BY <1>4, <2>1 DEF AuthInv, TypeOK, Found
  <2>5. /\ refresh' # refresh => Revoked(t)'
        /\ \A u \in Calls : Revoked(u) => Revoked(u)'
    <3>1. CASE refresh' = refresh
      BY <3>1 DEF Revoked
    <3>2. CASE refresh' = [refresh EXCEPT ![t] = [@ EXCEPT !.revoked = TRUE]]
      BY <1>3, <2>4, <3>2, RefreshRevoked DEF Revoked
    <3> QED BY <1>2, <1>11, <3>1, <3>2 DEF RevokeRefreshToken
  <2>6. faults' = 0 => Revoked(t)'
    <3>1. CASE Fail
      <4>1. faults \in Nat
        BY AuthAssumption DEF AuthInv, TypeOK, AuthConstants
      <4> QED BY <3>1, <4>1 DEF Fail
    <3>2. CASE refresh' = [refresh EXCEPT ![t] = [@ EXCEPT !.revoked = TRUE]]
      BY <1>3, <2>4, <3>2, RefreshRevoked DEF Revoked
    <3> QED BY <1>2, <1>11, <3>1, <3>2 DEF RevokeRefreshToken
  <2>7. Rotates(call[c])'
    BY <1>4, <2>1, <2>2, <2>3, <2>6 DEF Rotates, Revoked, Same
  <2> QED BY <2>1, <2>2, <2>3, <2>5, <2>7, RotationFrame
<1> QED BY <1>6, <1>7, <1>8, <1>9, <1>10, <1>11

(* What every step of a call leaves alone.                                 *)
LEMMA StepFrame ==
    ASSUME AuthInv, NEW c \in Calls, CallStep(c)
    PROVE  /\ Others(c) /\ call'[c].req = call[c].req /\ call[c].pc \notin {"idle", "done"}
           /\ now' = now /\ (faults' = 0 => faults = 0)
           /\ \A t \in Calls : t # c => access'[t] = access[t]
           /\ call[c].note => call'[c].note
<1>1. CASE LoginExternal(c)
  BY <1>1, AnswerFacts, ExternalIssued DEF LoginExternal, External, Same
<1>2. CASE FindByUsername(c)
  <2>1. call[c] \in Served /\ call \in [Calls -> Served]
    BY CallFacts
  <2>2. Others(c) /\ call'[c].req = call[c].req /\ call'[c].note = call[c].note
    <3>1. CASE Answer(c, FALSE)
      BY <3>1, AnswerFacts DEF Same
    <3>2. CASE ~Answer(c, FALSE)
      <4>1. PICK l, n : call' = [call EXCEPT ![c] = [@ EXCEPT !.pc = l, !.seen = n]]
        BY <1>2, <3>2 DEF FindByUsername
      <4>2. PICK q : q = [call[c] EXCEPT !.pc = l, !.seen = n]
        OBVIOUS
      <4>3. q.req = call[c].req /\ q.note = call[c].note
        BY <2>1, <4>2 DEF Served
      <4> QED BY <2>1, <4>1, <4>2, <4>3 DEF Others
    <3> QED BY <3>1, <3>2
  <2> QED BY <1>2, <2>2, FaultCount DEF FindByUsername
<1>3. CASE Unlock(c)
  BY <1>3, GotoFacts, FaultCount DEF Unlock, Same
<1>4. CASE WrongPassword(c)
  BY <1>4, AnswerFacts, FaultCount DEF WrongPassword, Same
<1>5. CASE ResetFailures(c)
  BY <1>5, GotoFacts, FaultCount DEF ResetFailures, Same
<1>6. CASE IssueAccessToken(c)
  BY <1>6, GotoFacts, TokenIssued DEF IssueAccessToken, Sources, Same
<1>7. CASE StoreRefreshToken(c)
  BY <1>7, AnswerFacts, FaultCount DEF StoreRefreshToken, Same
<1>8. CASE FindRefreshToken(c)
  BY <1>8, GotoFacts, FaultCount DEF FindRefreshToken, Same
<1>9. CASE RefreshExternal(c)
  <2>1. \A t \in Calls : t # c => access'[t] = access[t]
    <3>1. CASE External(c)
      BY <3>1 DEF AuthInv, TypeOK, External
    <3>2. CASE UNCHANGED access
      BY <3>2
    <3> QED BY <1>9, <3>1, <3>2 DEF RefreshExternal, External
  <2> QED BY <1>9, <2>1, AnswerFacts DEF RefreshExternal, Same
<1>10. CASE RevokeRefreshToken(c)
  BY <1>10, GotoFacts, FaultCount DEF RevokeRefreshToken, Same
<1>11. CASE ClaimsCacheGet(c)
  BY <1>11, CacheGetFacts DEF ClaimsCacheGet
<1>12. CASE ValidateToken(c)
  BY <1>12, ValidateFacts, FaultCount DEF ValidateToken
<1>13. CASE ValidateReply(c)
  BY <1>13, ReplyFacts DEF ValidateReply
<1>14. CASE RevokeToken(c)
  BY <1>14, RevokeFacts, FaultCount DEF RevokeToken, Same
<1> QED BY <1>1, <1>2, <1>3, <1>4, <1>5, <1>6, <1>7, <1>8, <1>9, <1>10, <1>11, <1>12, <1>13, <1>14 DEF CallStep

(* A step of any other call: nothing that was revoked comes back.          *)
LEMMA RotationByOther ==
    ASSUME AuthInv, RotationInv, NEW c \in Calls, CallStep(c), Req(c).op # "REFRESH"
    PROVE  RotationInv'
<1>1. /\ Others(c) /\ call'[c].req = call[c].req /\ call[c].pc \notin {"idle", "done"}
      /\ (faults' = 0 => faults = 0) /\ \A t \in Calls : t # c => access'[t] = access[t]
  BY StepFrame
<1>2. Rotates(call[c])'
  BY <1>1 DEF Rotates, Req
<1>3. \A u \in Calls : u # c => refresh'[u] = refresh[u]
  <2>1. CASE StoreRefreshToken(c)
    <3>1. refresh \in [Calls -> RefreshTokens \cup {None}]
      BY DEF AuthInv, TypeOK
    <3> QED BY <2>1, <3>1 DEF StoreRefreshToken
  <2>2. CASE ~StoreRefreshToken(c)
    <3>1. call[c].pc # "rotate"
      BY CallFacts DEF Stage, Req
    <3>2. refresh' = refresh
      BY <2>2, <3>1 DEF CallStep, LoginExternal, FindByUsername, Unlock, WrongPassword, ResetFailures,
         IssueAccessToken, FindRefreshToken, RefreshExternal, RevokeRefreshToken, ClaimsCacheGet,
         ValidateToken, ValidateReply, RevokeToken, storeVars
    <3> QED BY <3>2
  <2> QED BY <2>1, <2>2
<1>4. \A u \in Calls : u # c /\ Revoked(u) => Revoked(u)'
  BY <1>3 DEF Revoked
<1> QED BY <1>1, <1>2, <1>4, RotationFrame

(* Every step keeps the invariant of the rotation.                         *)
LEMMA RotationKept ==
    ASSUME AuthInv, RotationInv, [Next]_vars
    PROVE  RotationInv'
<1>1. CASE UNCHANGED vars \/ Tick \/ HealthPoll \/ PurgeExpired \/ \E g \in Gateways : CleanupClaims(g)
  <2>1. UNCHANGED <<refresh, access, call, faults>>
    BY <1>1 DEF vars, storeVars, Tick, HealthPoll, PurgeExpired, CleanupClaims
  <2> QED BY <2>1 DEF RotationInv, Rotates, Revoked
<1>2. ASSUME NEW c \in Calls, CallStep(c) PROVE RotationInv'
  <2>1. call[c].pc # "idle"
    BY <1>2, StepFrame
  <2> QED BY <1>2, <2>1, RotationByRefresh, RotationByOther
<1>3. ASSUME NEW c \in Calls, NEW r \in Requests[c], Arrives(c, r) PROVE RotationInv'
  <2>1. PICK l \in {"login", "find", "admit"}, n \in BOOLEAN :
          /\ Begin(c, r, l, n)
          /\ l = "find" <=> r.op = "REFRESH"
          /\ l = "find" => n = \E d \in Calls : /\ Done(d) /\ call[d].ok
                                                /\ Req(d).op = "REFRESH" /\ Tok(d) = r.token
    BY <1>3, ArrivalFacts
  <2>2. Others(c) /\ call'[c].pc = l /\ call'[c].req = r /\ call'[c].note = n /\ call[c].pc = "idle"
    BY <2>1, BeginFacts DEF Begin
  <2>3. UNCHANGED <<refresh, access, faults>>
    BY <2>1 DEF Begin, storeVars
  <2>4. Rotates(call[c])'
    <3>1. SUFFICES ASSUME r.op = "REFRESH", faults = 0, access[r.token].src = "local", n
                   PROVE  Revoked(r.token)
      BY <2>1, <2>2, <2>3 DEF Rotates, Revoked
    <3>2. PICK d \in Calls : Done(d) /\ call[d].ok /\ Req(d).op = "REFRESH" /\ Tok(d) = r.token
      BY <2>1, <3>1
    <3>3. Rotates(call[d]) /\ call[d].req # None
      BY <3>2, CallFacts DEF RotationInv, Stage, Done
    <3> QED BY <3>1, <3>2, <3>3 DEF Rotates, Done, Req, Tok
  <2> QED BY <2>2, <2>3, <2>4, RevokedKept, RotationFrame
<1> QED BY <1>1, <1>2, <1>3 DEF Next, Arrives

(* A refresh token is used once: whatever the number of calls, one made    *)
(* after another with the same local token was answered is refused, unless *)
(* a database operation failed.                                            *)
THEOREM RotatedStaysDead == Spec => []RotatedIsDead
<1>1. Init => RotationInv
  BY DEF Init, Idle, RotationInv, Rotates
<1>2. AuthInv /\ RotationInv /\ [Next]_vars => RotationInv'
  BY RotationKept
<1>3. AuthInv /\ RotationInv => RotatedIsDead
  <2>1. SUFFICES ASSUME AuthInv, RotationInv, NEW c \in Calls, Done(c), call[c].ok, Req(c).op = "REFRESH",
                        call[c].note, access[Tok(c)].src = "local"
                 PROVE  faults > 0
    BY DEF RotatedIsDead
  <2>2. Rotates(call[c]) /\ call[c].req # None
    BY <2>1, CallFacts DEF RotationInv, Stage, Done
  <2>3. faults # 0
    BY <2>1, <2>2 DEF Rotates, Done, Req, Tok
  <2>4. faults \in Nat
    BY <2>1, AuthAssumption DEF AuthInv, TypeOK, AuthConstants
  <2> QED BY <2>3, <2>4
<1> QED BY <1>1, <1>2, <1>3, AuthInvariant, PTL DEF Spec

-----------------------------------------------------------------------------
(* Revocation.  What a logout names, and what is the case with it.         *)
LEMMA LogoutFacts ==
    ASSUME AuthInv, NEW t \in Calls, NEW d \in Logouts(t)
    PROVE  d \in Calls /\ Done(d) /\ Done(t) /\ access[t] \in AccessTokens /\ Tok(d) = t
           /\ call[d].seen \in Nat /\ access[t].exp \in Nat
<1>1. d \in Calls /\ Done(d) /\ Req(d).op = "LOGOUT" /\ Tok(d) = t /\ call[d].seen # None
  BY DEF Logouts
<1>2. Done(t) /\ access[t] \in AccessTokens
  BY <1>1, CallFacts DEF Done
<1>3. call[d].seen \in Nat
  BY <1>1, CallFacts DEF Served
<1>4. access[t].exp \in Nat
  BY <1>2, AuthAssumption DEF AccessTokens, Ticks, AuthConstants
<1> QED BY <1>1, <1>2, <1>3, <1>4

(* What is done is done, and so are the tokens it gave out.                *)
DoneFrame == \A t \in Calls : Done(t) => call'[t] = call[t] /\ access'[t] = access[t]

(* Logouts after a step are those before, or one that takes effect now.    *)
LogoutsGrow ==
    \A t \in Calls : \A d \in Logouts(t)' :
        d \in Logouts(t) \/ (call'[d].seen = now /\ Done(t) /\ IsRevoked(t)')

KeepsOpen == \A t \in Calls : FailedOpen(t) => FailedOpen(t)'

(* A step keeps the invariant if what it changes is fine afterwards.       *)
LEMMA RevocationFrame ==
    ASSUME AuthInv, RevocationInv, DoneFrame, now' = now, LogoutsGrow, KeepsOpen,
           BlocklistFine', blocklist \subseteq blocklist',
           \A c \in Calls : call'[c] = call[c] \/ (ReplyFine(c)' /\ Held(c)'),
           \A g \in Gateways : \A t \in Calls : cache'[g][t] = cache[g][t] \/ EntryFine(g, t)'
    PROVE  RevocationInv'
<1>1. now \in Nat /\ CacheTTL \in Nat /\ RPCTimeout \in Nat
  BY AuthAssumption DEF AuthInv, TypeOK, AuthConstants
<1>2. ASSUME NEW t \in Calls, NEW d \in Logouts(t)'
      PROVE  /\ \/ d \in Logouts(t) /\ call'[d] = call[d]
                \/ call'[d].seen = now /\ IsRevoked(t)'
             /\ Done(t) /\ access'[t] = access[t]
  <2>1. CASE d \in Logouts(t)
    BY <2>1, LogoutFacts DEF DoneFrame
  <2>2. CASE call'[d].seen = now /\ Done(t) /\ IsRevoked(t)'
    BY <2>2 DEF DoneFrame
  <2> QED BY <2>1, <2>2 DEF LogoutsGrow
<1>3. LogoutsFine'
  <2>1. SUFFICES ASSUME NEW t \in Calls, NEW d \in Logouts(t)'
                 PROVE  (call[d].seen \in Nat /\ call[d].seen <= now /\ (IsRevoked(t) \/ now >= access[t].exp))'
    BY DEF LogoutsFine
  <2>2. CASE d \in Logouts(t) /\ call'[d] = call[d]
    <3>1. call[d].seen \in Nat /\ call[d].seen <= now /\ (IsRevoked(t) \/ now >= access[t].exp)
      BY <2>2 DEF RevocationInv, LogoutsFine
    <3>2. access'[t] = access[t]
      BY <1>2
    <3>3. IsRevoked(t) => IsRevoked(t)'
      BY <3>2 DEF IsRevoked, TokenID
    <3> QED BY <2>2, <3>1, <3>2, <3>3
  <2>3. CASE call'[d].seen = now /\ IsRevoked(t)'
    BY <1>1, <2>3
  <2> QED BY <1>2, <2>2, <2>3
<1>4. ASSUME NEW c \in Calls PROVE ReplyFine(c)'
  <2>1. CASE call'[c] = call[c]
    <3>1. SUFFICES ASSUME call[c].pc = "reply", call[c].ok, NEW d \in Logouts(Tok(c))'
                   PROVE  (call[c].at <= call[d].seen \/ now >= access[Tok(c)].exp \/ call[c].note)'
      BY <2>1 DEF ReplyFine
    <3>2. Tok(c)' = Tok(c) /\ Tok(c) \in Calls /\ call[c].at <= now
      BY <2>1, <3>1, CallFacts DEF Tok, Req, Stage
    <3>4. PICK t \in Calls : t = Tok(c)
      BY <3>2
    <3>5. d \in Logouts(t)'
      BY <2>1, <3>1, <3>4 DEF Logouts, Tok, Req
    <3>6. CASE d \in Logouts(t) /\ call'[d] = call[d]
      <4>1. call[c].at <= call[d].seen \/ now >= access[t].exp \/ call[c].note
        BY <3>1, <3>4, <3>6 DEF RevocationInv, ReplyFine
      <4>2. access'[t] = access[t]
        BY <1>2, <3>5
      <4> QED BY <2>1, <3>2, <3>4, <3>6, <4>1, <4>2
    <3>7. CASE call'[d].seen = now
      BY <2>1, <3>2, <3>7
    <3> QED BY <1>2, <3>5, <3>6, <3>7
  <2> QED BY <2>1
<1>5. ASSUME NEW c \in Calls PROVE Held(c)'
  <2>1. CASE call'[c] = call[c]
    <3>1. SUFFICES ASSUME Done(c), call[c].ok, Req(c).op = "USE", NEW d \in Logouts(Tok(c))'
                   PROVE  (\/ call[c].at <= call[d].seen + CacheTTL + RPCTimeout
                           \/ call[c].at >= access[Tok(c)].exp
                           \/ FailedOpen(Tok(c)))'
      BY <2>1 DEF Held, Done, Req
    <3>2. Tok(c)' = Tok(c) /\ Tok(c) \in Calls /\ call[c].at <= now /\ call[c].at \in Nat
      BY <2>1, <3>1, CallFacts, AuthAssumption DEF Tok, Req, Done, Served, AuthConstants
    <3>3. PICK t \in Calls : t = Tok(c)
      BY <3>2
    <3>4. d \in Logouts(t)'
      BY <2>1, <3>1, <3>3 DEF Logouts, Tok, Req
    <3>5. CASE d \in Logouts(t) /\ call'[d] = call[d]
      <4>1. \/ call[c].at <= call[d].seen + CacheTTL + RPCTimeout \/ call[c].at >= access[t].exp
            \/ FailedOpen(t)
        BY <3>1, <3>3, <3>5 DEF RevocationInv, Held
      <4>2. access'[t] = access[t] /\ (FailedOpen(t) => FailedOpen(t)')
        BY <1>2, <3>4 DEF KeepsOpen
      <4>3. (FailedOpen(t) => FailedOpen(Tok(c)))'
        BY <2>1, <3>3 DEF FailedOpen, Tok, Req
      <4> QED BY <2>1, <3>2, <3>3, <3>5, <4>1, <4>2, <4>3
    <3>6. CASE call'[d].seen = now
      <4>1. call[c].at <= now + CacheTTL + RPCTimeout
        BY <1>1, <3>2
      <4> QED BY <2>1, <3>6, <4>1
    <3> QED BY <1>2, <3>4, <3>5, <3>6
  <2> QED BY <2>1
<1>6. ASSUME NEW g \in Gateways, NEW t \in Calls PROVE EntryFine(g, t)'
  <2>1. CASE cache'[g][t] = cache[g][t]
    <3>1. SUFFICES ASSUME cache[g][t] # None
                   PROVE  (/\ cache[g][t] <= now + CacheTTL
                           /\ Done(t) /\ access[t] # None
                           /\ \A d \in Logouts(t) :
                                cache[g][t] <= call[d].seen + CacheTTL + RPCTimeout \/ FailedOpen(t))'
      BY <2>1 DEF EntryFine
    <3>2. /\ cache[g][t] <= now + CacheTTL /\ Done(t) /\ access[t] # None
          /\ \A d \in Logouts(t) : cache[g][t] <= call[d].seen + CacheTTL + RPCTimeout \/ FailedOpen(t)
      BY <3>1 DEF RevocationInv, EntryFine
    <3>3. Done(t)' /\ access'[t] = access[t]
      BY <3>2 DEF DoneFrame, Done
    <3>4. cache[g][t] \in Nat
      BY <3>1, AuthAssumption DEF AuthInv, TypeOK, Ticks, AuthConstants
    <3>5. ASSUME NEW d \in Logouts(t)'
          PROVE  cache[g][t] <= call'[d].seen + CacheTTL + RPCTimeout \/ FailedOpen(t)'
      <4>1. CASE d \in Logouts(t) /\ call'[d] = call[d]
        BY <3>2, <4>1 DEF KeepsOpen
      <4>2. CASE call'[d].seen = now
        BY <1>1, <3>2, <3>4, <4>2
      <4> QED BY <1>2, <4>1, <4>2
    <3> QED BY <2>1, <3>2, <3>3, <3>5
  <2> QED BY <2>1
<1> QED BY <1>3, <1>4, <1>5, <1>6 DEF RevocationInv

(* A step of one call, new or under way.                                   *)
Advances(c) ==
    /\ Others(c) /\ call[c].pc # "done" /\ now' = now
    /\ \A t \in Calls : t # c => access'[t] = access[t]
    /\ call[c].req = None \/ (call'[c].req = call[c].req /\ (call[c].note => call'[c].note))

(* Nothing that is settled changes under it.                               *)
LEMMA AdvanceFrame ==
    ASSUME AuthInv, RevocationInv, NEW c \in Calls, Advances(c)
    PROVE  DoneFrame /\ KeepsOpen /\ (blocklist' \subseteq blocklist => BlocklistFine')
<1>1. DoneFrame
  BY DEF DoneFrame, Advances, Others, Done
<1>2. KeepsOpen
  <2>1. SUFFICES ASSUME NEW t \in Calls, FailedOpen(t)
                 PROVE  FailedOpen(t)'
    BY DEF KeepsOpen
  <2>2. PICK d \in Calls : call[d].req # None /\ Req(d).op \in {"USE", "LOGOUT"} /\ Tok(d) = t /\ call[d].note
    BY <2>1 DEF FailedOpen
  <2>3. call'[d].req = call[d].req /\ call'[d].note
    BY <2>2 DEF Advances, Others
  <2> QED BY <2>2, <2>3 DEF FailedOpen, Req, Tok
<1>3. ASSUME blocklist' \subseteq blocklist PROVE BlocklistFine'
  <2>1. SUFFICES ASSUME NEW b \in blocklist'
                 PROVE  \E t \in Calls : (Done(t) /\ access[t] # None /\ b.id = TokenID(t) /\ b.exp = access[t].exp)'
    BY DEF BlocklistFine
  <2>2. PICK t \in Calls : Done(t) /\ access[t] # None /\ b.id = TokenID(t) /\ b.exp = access[t].exp
    BY <1>3, <2>1 DEF RevocationInv, BlocklistFine
  <2>3. Done(t)' /\ access'[t] = access[t]
    BY <1>1, <2>2 DEF DoneFrame, Done
  <2> QED BY <2>2, <2>3 DEF TokenID
<1> QED BY <1>1, <1>2, <1>3

(* A step that revokes nothing keeps the invariant if the call it moves    *)
(* and what it caches are fine.                                            *)
LEMMA RevocationQuiet ==
    ASSUME AuthInv, RevocationInv, NEW c \in Calls, Advances(c), UNCHANGED blocklist,
           ~(call'[c].pc = "done" /\ call'[c].req.op = "LOGOUT" /\ call'[c].seen # None),
           ReplyFine(c)', Held(c)',
           \A g \in Gateways : \A t \in Calls : cache'[g][t] = cache[g][t] \/ EntryFine(g, t)'
    PROVE  RevocationInv'
<1>1. DoneFrame /\ KeepsOpen /\ BlocklistFine'
  BY AdvanceFrame
<1>2. LogoutsGrow
  <2>1. SUFFICES ASSUME NEW t \in Calls, NEW d \in Logouts(t)'
                 PROVE  d \in Logouts(t)
    BY DEF LogoutsGrow
  <2>2. d \in Calls /\ d # c
    BY <2>1 DEF Logouts, Done, Req
  <2>3. call'[d] = call[d]
    BY <2>2 DEF Advances, Others
  <2> QED BY <2>1, <2>3 DEF Logouts, Done, Req, Tok
<1>3. \A d \in Calls : call'[d] = call[d] \/ (ReplyFine(d)' /\ Held(d)')
  BY DEF Advances, Others
<1> QED BY <1>1, <1>2, <1>3, RevocationFrame DEF Advances

(* Steps of logins and refreshes, and requests that arrive.                *)
LEMMA RevocationBySession ==
    ASSUME AuthInv, RevocationInv, NEW c \in Calls,
           CallStep(c) /\ Req(c).op \in {"LOGIN", "REFRESH"}
    PROVE  RevocationInv'
<1>1. /\ Others(c) /\ call'[c].req = call[c].req /\ call[c].pc \notin {"idle", "done"}
      /\ now' = now /\ \A t \in Calls : t # c => access'[t] = access[t]
      /\ call[c].note => call'[c].note
  BY StepFrame
<1>2. Advances(c)
  BY <1>1 DEF Advances
<1>3. call[c].pc \notin {"admit", "validate", "reply", "revoke"}
  BY CallFacts DEF Stage, Req
<1>4. UNCHANGED <<blocklist, cache>>
  BY <1>3 DEF CallStep, LoginExternal, FindByUsername, Unlock, WrongPassword, ResetFailures, IssueAccessToken,
     StoreRefreshToken, FindRefreshToken, RefreshExternal, RevokeRefreshToken, ClaimsCacheGet, ValidateToken,
     ValidateReply, RevokeToken, storeVars
<1>5. AuthInv'
  BY NextKeeps DEF Next
<1>6. call'[c].pc # "reply" /\ call'[c].req.op \notin {"USE", "LOGOUT"}
  <2>1. Stage(call'[c])
    BY <1>5 DEF AuthInv, Stage
  <2> QED BY <1>1, <2>1 DEF Stage, Req
<1>7. ReplyFine(c)' /\ Held(c)'
  BY <1>6 DEF ReplyFine, Held, Req
<1> QED BY <1>2, <1>4, <1>6, <1>7, RevocationQuiet

(* A request that arrives has not been judged yet.                         *)
LEMMA RevocationByArrival ==
    ASSUME AuthInv, RevocationInv, NEW c \in Calls, NEW r \in Requests[c], Arrives(c, r)
    PROVE  RevocationInv'
<1>1. PICK l \in {"login", "find", "admit"}, n \in BOOLEAN : Begin(c, r, l, n)
  BY ArrivalFacts
<1>2. Others(c) /\ call'[c].pc = l /\ call[c].pc = "idle" /\ UNCHANGED <<now, access, blocklist, cache>>
  BY <1>1, BeginFacts DEF Begin, storeVars
<1>3. call[c].req = None
  BY <1>2, CallFacts DEF Stage
<1>4. Advances(c)
  BY <1>2, <1>3 DEF Advances
<1>5. ReplyFine(c)' /\ Held(c)'
  BY <1>1, <1>2 DEF ReplyFine, Held, Done
<1> QED BY <1>1, <1>2, <1>4, <1>5, RevocationQuiet

(* The claims cache answers.                                               *)
LEMMA RevocationByCacheGet ==
    ASSUME AuthInv, RevocationInv, NEW c \in Calls, ClaimsCacheGet(c)
    PROVE  RevocationInv'
<1>1. /\ call[c].pc = "admit" /\ Others(c) /\ call'[c].req = call[c].req /\ call'[c].note = call[c].note
      /\ call'[c].at = now /\ call'[c].seen = None
      /\ call'[c].pc \in {"validate", "revoke", "done"}
      /\ call'[c].pc # "validate" => Cached(c)
      /\ UNCHANGED <<now, access, blocklist, cache>>
  BY CacheGetFacts DEF ClaimsCacheGet, storeVars
<1>2. Advances(c)
  BY <1>1 DEF Advances
<1>3. ReplyFine(c)'
  BY <1>1 DEF ReplyFine
<1>4. Held(c)'
  <2>1. SUFFICES ASSUME call'[c].pc = "done", NEW d \in Logouts(Tok(c))'
                 PROVE  (\/ call[c].at <= call[d].seen + CacheTTL + RPCTimeout
                         \/ FailedOpen(Tok(c)))'
    BY DEF Held, Done
  <2>2. PICK t : t = Tok(c)
    OBVIOUS
  <2>3. t \in Calls /\ Req(c).gw \in Gateways
    BY <1>1, <2>2, CallFacts DEF Stage, Req
  <2>4. Tok(c)' = t
    BY <1>1, <2>2 DEF Tok, Req
  <2>5. d \in Logouts(t)'
    BY <2>1, <2>4 DEF Logouts, Tok, Req
  <2>6. d \in Calls /\ d # c
    BY <1>1, <2>5 DEF Logouts
  <2>7. call'[d] = call[d]
    BY <1>1, <2>6 DEF Others
  <2>8. d \in Logouts(t)
    BY <2>5, <2>7 DEF Logouts, Done, Req, Tok
  <2>9. PICK e : e = cache[Req(c).gw][t]
    OBVIOUS
  <2>10. e # None /\ now <= e
    BY <1>1, <2>1, <2>2, <2>9 DEF Cached
  <2>11. e <= call[d].seen + CacheTTL + RPCTimeout \/ FailedOpen(t)
    BY <2>3, <2>8, <2>9, <2>10 DEF RevocationInv, EntryFine
  <2>12. e \in Nat /\ now \in Nat /\ call[d].seen \in Nat /\ CacheTTL \in Nat /\ RPCTimeout \in Nat
    BY <2>3, <2>8, <2>9, <2>10, LogoutFacts, AuthAssumption DEF AuthInv, TypeOK, Ticks, AuthConstants
  <2>13. FailedOpen(t) => FailedOpen(Tok(c))'
    <3>1. FailedOpen(t) => FailedOpen(t)'
      BY <1>2, <2>3, AdvanceFrame DEF KeepsOpen
    <3> QED BY <2>4, <3>1 DEF FailedOpen
  <2> QED BY <1>1, <2>7, <2>10, <2>11, <2>12, <2>13
<1> QED BY <1>1, <1>2, <1>3, <1>4, RevocationQuiet

(* A validation: a logout that has taken effect is seen, unless the token  *)
(* has come to its end or the blocklist could not be read.                 *)
LEMMA RevocationByValidate ==
    ASSUME AuthInv, RevocationInv, NEW c \in Calls, ValidateToken(c)
    PROVE  RevocationInv'
<1>1. /\ call[c].pc = "validate" /\ Others(c) /\ call'[c].req = call[c].req /\ call'[c].at = call[c].at
      /\ call'[c].pc = "reply" /\ call'[c].seen = None
      /\ call'[c].ok => ~Expired(Tok(c)) /\ (~IsRevoked(Tok(c)) \/ call'[c].note)
      /\ call[c].note => call'[c].note
      /\ UNCHANGED <<now, access, blocklist, cache>>
  BY ValidateFacts DEF ValidateToken, storeVars
<1>2. Advances(c)
  BY <1>1 DEF Advances
<1>3. Held(c)'
  BY <1>1 DEF Held, Done
<1>4. ReplyFine(c)'
  <2>1. SUFFICES ASSUME call'[c].ok, NEW d \in Logouts(Tok(c))'
                 PROVE  (now >= access[Tok(c)].exp \/ call[c].note)'
    BY DEF ReplyFine
  <2>2. PICK t : t = Tok(c)
    OBVIOUS
  <2>3. t \in Calls
    BY <1>1, <2>2, CallFacts DEF Stage, Req
  <2>4. Tok(c)' = t
    BY <1>1, <2>2 DEF Tok, Req
  <2>5. d \in Logouts(t)'
    BY <2>1, <2>4 DEF Logouts, Tok, Req
  <2>6. d \in Calls /\ d # c
    BY <1>1, <2>5 DEF Logouts, Done
  <2>7. call'[d] = call[d]
    BY <1>1, <2>6 DEF Others
  <2>8. d \in Logouts(t)
    BY <2>5, <2>7 DEF Logouts, Done, Req, Tok
  <2>9. IsRevoked(t) \/ now >= access[t].exp
    BY <2>3, <2>8 DEF RevocationInv, LogoutsFine
  <2>10. ~IsRevoked(t) \/ call'[c].note
    BY <1>1, <2>1, <2>2
  <2> QED BY <1>1, <2>4, <2>9, <2>10
<1> QED BY <1>1, <1>2, <1>3, <1>4, RevocationQuiet

(* The answer of a validation: it came within the deadline, so the logout  *)
(* it may have missed is at most that old.                                 *)
LEMMA RevocationByReply ==
    ASSUME AuthInv, RevocationInv, NEW c \in Calls, ValidateReply(c)
    PROVE  RevocationInv'
<1>1. /\ call[c].pc = "reply" /\ Others(c) /\ call'[c].req = call[c].req /\ call'[c].note = call[c].note
      /\ call'[c].pc \in {"revoke", "done"} /\ call'[c].seen = None
      /\ \/ call'[c].ok = FALSE /\ cache' = cache
         \/ call[c].ok /\ now <= call[c].at + RPCTimeout /\ call'[c].at = now
      /\ UNCHANGED <<now, access, blocklist>>
  BY ReplyFacts DEF ValidateReply, storeVars
<1>2. Advances(c)
  BY <1>1 DEF Advances
<1>3. ReplyFine(c)'
  BY <1>1 DEF ReplyFine
<1>4. CASE call'[c].ok = FALSE /\ cache' = cache
  <2>1. Held(c)'
    BY <1>4 DEF Held
  <2> QED BY <1>1, <1>2, <1>3, <1>4, <2>1, RevocationQuiet
<1>5. CASE call[c].ok /\ now <= call[c].at + RPCTimeout /\ call'[c].at = now
  <2>1. PICK t : t = Tok(c)
    OBVIOUS
  <2>2. /\ t \in Calls /\ Req(c).gw \in Gateways /\ Done(t) /\ access[t] \in AccessTokens
        /\ Req(c).op \in {"USE", "LOGOUT"} /\ call[c].req # None
    BY <1>1, <2>1, CallFacts DEF Stage, Req
  <2>3. Tok(c)' = t
    BY <1>1, <2>1 DEF Tok, Req
  <2>4. call[c].at \in Nat /\ now \in Nat /\ CacheTTL \in Nat /\ RPCTimeout \in Nat
    BY CallFacts, AuthAssumption DEF Served, AuthConstants
  <2>5. ASSUME NEW d \in Logouts(t)'
        PROVE  /\ \/ call[c].at <= call'[d].seen \/ now >= access[t].exp \/ FailedOpen(t)'
               /\ call'[d].seen \in Nat /\ access[t].exp \in Nat
    <3>1. d \in Calls /\ d # c
      BY <1>1, <2>5 DEF Logouts
    <3>2. call'[d] = call[d]
      BY <1>1, <3>1 DEF Others
    <3>3. d \in Logouts(t)
      BY <2>5, <3>2 DEF Logouts, Done, Req, Tok
    <3>4. call[d].seen \in Nat /\ access[t].exp \in Nat
      BY <2>2, <3>3, LogoutFacts
    <3>5. call[c].at <= call[d].seen \/ now >= access[t].exp \/ call[c].note
      BY <1>1, <1>5, <2>1, <3>3 DEF RevocationInv, ReplyFine
    <3>6. call[c].note => FailedOpen(t)'
      BY <1>1, <2>2, <2>3 DEF FailedOpen, Req
    <3> QED BY <3>2, <3>4, <3>5, <3>6
  <2>6. Held(c)'
    <3>1. SUFFICES ASSUME NEW d \in Logouts(Tok(c))'
                   PROVE  (\/ call[c].at <= call[d].seen + CacheTTL + RPCTimeout
                           \/ call[c].at >= access[Tok(c)].exp
                           \/ FailedOpen(Tok(c)))'
      BY DEF Held
    <3>2. d \in Logouts(t)'
      BY <2>3, <3>1 DEF Logouts, Tok, Req
    <3>3. /\ \/ call[c].at <= call'[d].seen \/ now >= access[t].exp \/ FailedOpen(t)'
          /\ call'[d].seen \in Nat /\ access[t].exp \in Nat
      BY <2>5, <3>2
    <3>4. FailedOpen(t)' => FailedOpen(Tok(c))'
      BY <2>3 DEF FailedOpen
    <3> QED BY <1>1, <1>5, <2>3, <2>4, <3>3, <3>4
  <2>7. ASSUME NEW g \in Gateways, NEW u \in Calls, cache'[g][u] # cache[g][u]
        PROVE  EntryFine(g, u)'
    <3>1. PICK e : e = CacheSet(t)
      OBVIOUS
    <3>2. cache' = IF e = None THEN cache
                   ELSE [cache EXCEPT ![Req(c).gw] = [@ EXCEPT ![t] = e]]
      BY <1>5, <2>1, <3>1 DEF ValidateReply
    <3>3. e # None /\ cache' = [cache EXCEPT ![Req(c).gw] = [@ EXCEPT ![t] = e]]
      BY <2>7, <3>2
    <3>4. e \in Ticks \cup {None} /\ e \in Nat /\ e <= now + CacheTTL /\ now < access[t].exp
      BY <2>2, <3>1, <3>3, CacheSetFacts
    <3>5. cache \in [Gateways -> [Calls -> Ticks \cup {None}]]
      BY DEF AuthInv, TypeOK
    <3>6. cache'[g][u] = e /\ u = t
      BY <2>2, <2>7, <3>3, <3>4, <3>5, CacheWritten
    <3>7. Done(t)' /\ access'[t] # None
      <4>1. t # c
        BY <1>1, <2>2 DEF Done
      <4>2. access[t] # None
        BY <2>2, NoneAssumption DEF NoneIsNothing
      <4> QED BY <1>1, <2>2, <4>1, <4>2 DEF Done, Others
    <3>8. ASSUME NEW d \in Logouts(t)'
          PROVE  e <= call'[d].seen + CacheTTL + RPCTimeout \/ FailedOpen(t)'
      <4>1. /\ \/ call[c].at <= call'[d].seen \/ now >= access[t].exp \/ FailedOpen(t)'
            /\ call'[d].seen \in Nat /\ access[t].exp \in Nat
        BY <2>5
      <4> QED BY <1>5, <2>4, <3>4, <4>1
    <3> QED BY <1>1, <3>4, <3>6, <3>7, <3>8 DEF EntryFine
  <2> QED BY <1>1, <1>2, <1>3, <2>6, <2>7, RevocationQuiet
<1> QED BY <1>1, <1>4, <1>5

(* A logout: the token is on the blocklist from now on.                    *)
LEMMA RevocationByLogout ==
    ASSUME AuthInv, RevocationInv, NEW c \in Calls, RevokeToken(c)
    PROVE  RevocationInv'
<1>1. /\ call[c].pc = "revoke" /\ Others(c) /\ Same(c) /\ call'[c].pc = "done"
      /\ UNCHANGED <<now, access, cache>>
  BY RevokeFacts DEF RevokeToken
<1>2. Advances(c)
  BY <1>1 DEF Advances, Same
<1>3. Req(c).op = "LOGOUT"
  BY <1>1, CallFacts DEF Stage, Req
<1>4. ReplyFine(c)' /\ Held(c)'
  BY <1>1, <1>3 DEF ReplyFine, Held, Same, Req
<1>5. CASE call'[c].seen = None /\ blocklist' = blocklist
  BY <1>1, <1>2, <1>4, <1>5, RevocationQuiet
<1>6. CASE ~(call'[c].seen = None /\ blocklist' = blocklist)
  <2>1. PICK t : t = Tok(c)
    OBVIOUS
  <2>2. t \in Calls /\ Done(t) /\ access[t] \in AccessTokens
    BY <1>1, <1>3, <2>1, CallFacts
  <2>3. PICK b : b = [id |-> TokenID(t), exp |-> access[t].exp]
    OBVIOUS
  <2>4. b.id = TokenID(t) /\ b.exp = access[t].exp
    BY <2>3
  <2>5. call'[c].seen = now /\ blocklist' = IF IsRevoked(t) THEN blocklist ELSE blocklist \cup {b}
    BY <1>6, <2>1, <2>3, RevokeFacts
  <2>6. IsRevoked(t)'
    BY <1>1, <2>4, <2>5 DEF IsRevoked, TokenID
  <2>7. DoneFrame /\ KeepsOpen
    BY <1>2, AdvanceFrame
  <2>8. BlocklistFine'
    <3>1. SUFFICES ASSUME NEW x \in blocklist'
                   PROVE  \E u \in Calls : (Done(u) /\ access[u] # None /\ x.id = TokenID(u) /\ x.exp = access[u].exp)'
      BY DEF BlocklistFine
    <3>2. PICK u \in Calls : Done(u) /\ access[u] # None /\ x.id = TokenID(u) /\ x.exp = access[u].exp
      <4>1. CASE x \in blocklist
        BY <4>1 DEF RevocationInv, BlocklistFine
      <4>2. CASE x = b
        BY <2>2, <2>4, <4>2, NoneAssumption DEF NoneIsNothing
      <4> QED BY <2>5, <4>1, <4>2
    <3>3. Done(u)' /\ access'[u] = access[u]
      BY <2>7, <3>2 DEF DoneFrame, Done
    <3> QED BY <3>2, <3>3 DEF TokenID
  <2>9. LogoutsGrow
    <3>1. SUFFICES ASSUME NEW u \in Calls, NEW d \in Logouts(u)'
                   PROVE  d \in Logouts(u) \/ (call'[d].seen = now /\ Done(u) /\ IsRevoked(u)')
      BY DEF LogoutsGrow
    <3>2. CASE d = c
      <4>1. u = t
        BY <1>1, <2>1, <3>1, <3>2 DEF Logouts, Tok, Req, Same
      <4> QED BY <2>2, <2>5, <2>6, <3>2, <4>1
    <3>3. CASE d # c
      <4>1. call'[d] = call[d]
        BY <1>1, <3>1, <3>3 DEF Others, Logouts
      <4> QED BY <3>1, <4>1 DEF Logouts, Done, Req, Tok
    <3> QED BY <3>2, <3>3
  <2>10. \A d \in Calls : call'[d] = call[d] \/ (ReplyFine(d)' /\ Held(d)')
    BY <1>1, <1>4 DEF Others
  <2>11. blocklist \subseteq blocklist'
    BY <2>5
  <2> QED BY <1>1, <2>7, <2>8, <2>9, <2>10, <2>11, RevocationFrame
<1> QED BY <1>5, <1>6

(* Tokens that share an id end together.                                   *)
LEMMA SameIDSameEnd ==
    ASSUME AuthInv, NEW t \in Calls, NEW u \in Calls, access[t] \in AccessTokens, access[u] \in AccessTokens,
           TokenID(t) = TokenID(u)
    PROVE  access[t].exp = access[u].exp
<1>1. access[t] # None /\ access[u] # None
  BY NoneAssumption DEF NoneIsNothing
<1>2. access[t].exp = access[t].iat + AccessTTL /\ access[u].exp = access[u].iat + AccessTTL
  BY <1>1 DEF AuthInv, TokensFine
<1>3. CASE access[t].src # "oidc"
  <2>1. access[u].src # "oidc"
    BY <1>3 DEF TokenID
  <2>2. <<"iat", access[t].iat>> = <<"iat", access[u].iat>>
    BY <1>3, <2>1 DEF TokenID
  <2> QED BY <1>2, <2>2
<1>4. CASE access[t].src = "oidc"
  <2>1. access[u].src = "oidc"
    BY <1>4 DEF TokenID
  <2>2. <<"jti", t>> = <<"jti", u>>
    BY <1>4, <2>1 DEF TokenID
  <2> QED BY <2>2
<1> QED BY <1>3, <1>4

(* The TTL monitor: a record it removes is of tokens that have ended.      *)
LEMMA RevocationByPurge ==
    ASSUME AuthInv, RevocationInv, PurgeExpired
    PROVE  RevocationInv'
<1>1. PICK b \in blocklist : b.exp <= now /\ blocklist' = blocklist \ {b}
  BY DEF PurgeExpired
<1>2. UNCHANGED <<now, access, cache, call>>
  BY DEF PurgeExpired
<1>3. BlocklistFine'
  BY <1>1, <1>2 DEF RevocationInv, BlocklistFine, Done, TokenID
<1>4. LogoutsFine'
  <2>1. SUFFICES ASSUME NEW t \in Calls, NEW d \in Logouts(t)
                 PROVE  (call[d].seen \in Nat /\ call[d].seen <= now /\ (IsRevoked(t) \/ now >= access[t].exp))'
    BY <1>2 DEF LogoutsFine, Logouts, Done, Req, Tok
  <2>2. call[d].seen \in Nat /\ call[d].seen <= now /\ (IsRevoked(t) \/ now >= access[t].exp)
    BY <2>1 DEF RevocationInv, LogoutsFine
  <2>3. ASSUME IsRevoked(t), ~IsRevoked(t)'
        PROVE  now >= access[t].exp
    <3>1. b.id = TokenID(t)
      BY <1>1, <1>2, <2>3 DEF IsRevoked, TokenID
    <3>2. PICK u \in Calls : access[u] # None /\ b.id = TokenID(u) /\ b.exp = access[u].exp
      BY <1>1 DEF RevocationInv, BlocklistFine
    <3>3. access[u] \in AccessTokens
      BY <3>2 DEF AuthInv, TypeOK
    <3>4. access[t] \in AccessTokens /\ access[t].exp \in Nat
      BY <2>1, LogoutFacts
    <3>5. access[t].exp = access[u].exp
      BY <3>1, <3>2, <3>3, <3>4, SameIDSameEnd
    <3>6. now \in Nat
      BY AuthAssumption DEF AuthInv, TypeOK, AuthConstants
    <3> QED BY <1>1, <3>2, <3>4, <3>5, <3>6
  <2> QED BY <1>2, <2>2, <2>3
<1>5. ASSUME NEW c \in Calls PROVE ReplyFine(c)' /\ Held(c)'
  BY <1>2 DEF RevocationInv, ReplyFine, Held, Logouts, FailedOpen, Done, Req, Tok
<1>6. ASSUME NEW g \in Gateways, NEW t \in Calls PROVE EntryFine(g, t)'
  BY <1>2 DEF RevocationInv, EntryFine, Logouts, FailedOpen, Done, Req, Tok
<1> QED BY <1>3, <1>4, <1>5, <1>6 DEF RevocationInv

(* Time passes, entries of the cache are dropped, or nothing happens here. *)
LEMMA RevocationByTime ==
    ASSUME AuthInv, RevocationInv, UNCHANGED <<access, blocklist, call>>, now' \in Nat, now' >= now,
           \A g \in Gateways : \A t \in Calls : cache'[g][t] \in {cache[g][t], None}
    PROVE  RevocationInv'
<1>1. now \in Nat /\ CacheTTL \in Nat
  BY AuthAssumption DEF AuthInv, TypeOK, AuthConstants
<1>2. BlocklistFine'
  BY DEF RevocationInv, BlocklistFine, Done, TokenID
<1>3. LogoutsFine'
  <2>1. SUFFICES ASSUME NEW t \in Calls, NEW d \in Logouts(t)
                 PROVE  (call[d].seen \in Nat /\ call[d].seen <= now /\ (IsRevoked(t) \/ now >= access[t].exp))'
    BY DEF LogoutsFine, Logouts, Done, Req, Tok
  <2>2. call[d].seen \in Nat /\ call[d].seen <= now /\ (IsRevoked(t) \/ now >= access[t].exp)
    BY <2>1 DEF RevocationInv, LogoutsFine
  <2>3. access[t].exp \in Nat
    BY <2>1, LogoutFacts
  <2>4. IsRevoked(t) => IsRevoked(t)'
    BY DEF IsRevoked, TokenID
  <2> QED BY <1>1, <2>2, <2>3, <2>4
<1>4. ASSUME NEW c \in Calls PROVE ReplyFine(c)'
  <2>1. SUFFICES ASSUME call[c].pc = "reply", call[c].ok, NEW d \in Logouts(Tok(c))
                 PROVE  call[c].at <= call[d].seen \/ now' >= access[Tok(c)].exp \/ call[c].note
    BY DEF ReplyFine, Logouts, Done, Req, Tok
  <2>2. call[c].at <= call[d].seen \/ now >= access[Tok(c)].exp \/ call[c].note
    BY <2>1 DEF RevocationInv, ReplyFine
  <2>3. Tok(c) \in Calls
    BY <2>1, CallFacts DEF Stage, Req
  <2>4. access[Tok(c)].exp \in Nat
    BY <2>1, <2>3, LogoutFacts
  <2> QED BY <1>1, <2>2, <2>4
<1>5. ASSUME NEW c \in Calls PROVE Held(c)'
  BY DEF RevocationInv, Held, Logouts, FailedOpen, Done, Req, Tok
<1>6. ASSUME NEW g \in Gateways, NEW t \in Calls PROVE EntryFine(g, t)'
  <2>1. CASE cache'[g][t] = None
    BY <2>1 DEF EntryFine
  <2>2. CASE cache'[g][t] # None
    <3>1. cache'[g][t] = cache[g][t] /\ cache[g][t] # None
      BY <2>2
    <3>2. cache[g][t] \in Nat
      BY <3>1, AuthAssumption DEF AuthInv, TypeOK, Ticks, AuthConstants
    <3>3. /\ cache[g][t] <= now + CacheTTL /\ Done(t) /\ access[t] # None
          /\ \A d \in Logouts(t) : cache[g][t] <= call[d].seen + CacheTTL + RPCTimeout \/ FailedOpen(t)
      BY <3>1 DEF RevocationInv, EntryFine
    <3>4. cache[g][t] <= now' + CacheTTL
      BY <1>1, <3>2, <3>3
    <3>5. Logouts(t)' = Logouts(t) /\ FailedOpen(t)' = FailedOpen(t) /\ Done(t)' = Done(t)
      BY DEF Logouts, FailedOpen, Done, Req, Tok
    <3> QED BY <3>1, <3>3, <3>4, <3>5 DEF EntryFine
  <2> QED BY <2>1, <2>2
<1> QED BY <1>2, <1>3, <1>4, <1>5, <1>6 DEF RevocationInv

(* Every step keeps the invariant of the revocation.                       *)
LEMMA RevocationKept ==
    ASSUME AuthInv, RevocationInv, [Next]_vars
    PROVE  RevocationInv'
<1>1. now \in Nat
  BY AuthAssumption DEF AuthInv, TypeOK, AuthConstants
<1>2. CASE UNCHANGED vars \/ Tick \/ HealthPoll
  <2>1. UNCHANGED <<access, blocklist, call, cache>> /\ now' \in Nat /\ now' >= now
    BY <1>1, <1>2 DEF vars, storeVars, Tick, HealthPoll
  <2> QED BY <2>1, RevocationByTime
<1>3. ASSUME NEW g \in Gateways, CleanupClaims(g) PROVE RevocationInv'
  <2>1. UNCHANGED <<access, blocklist, call, now>>
    BY <1>3 DEF CleanupClaims, storeVars
  <2>2. PICK stale : cache' = [cache EXCEPT ![g] = [t \in Calls |-> IF t \in stale THEN None ELSE @[t]]]
    BY <1>3 DEF CleanupClaims
  <2>3. \A h \in Gateways : \A t \in Calls : cache'[h][t] \in {cache[h][t], None}
    BY <2>2 DEF AuthInv, TypeOK
  <2> QED BY <1>1, <2>1, <2>3, RevocationByTime
<1>4. CASE PurgeExpired
  BY <1>4, RevocationByPurge
<1>5. ASSUME NEW c \in Calls, CallStep(c) PROVE RevocationInv'
  <2>1. call[c].pc # "idle" /\ Stage(call[c])
    BY <1>5, StepFrame, CallFacts
  <2>2. CASE Req(c).op \in {"LOGIN", "REFRESH"}
    BY <1>5, <2>2, RevocationBySession
  <2>3. CASE Req(c).op \notin {"LOGIN", "REFRESH"}
    <3>1. call[c].pc \notin {"login", "unlock", "compare", "find", "external", "rotate", "issue", "store"}
      BY <2>1, <2>3 DEF Stage, Req
    <3>2. ClaimsCacheGet(c) \/ ValidateToken(c) \/ ValidateReply(c) \/ RevokeToken(c)
      BY <1>5, <3>1 DEF CallStep, LoginExternal, FindByUsername, Unlock, WrongPassword, ResetFailures,
         IssueAccessToken, StoreRefreshToken, FindRefreshToken, RefreshExternal, RevokeRefreshToken
    <3> QED BY <3>2, RevocationByCacheGet, RevocationByValidate, RevocationByReply, RevocationByLogout
  <2> QED BY <2>2, <2>3
<1>6. ASSUME NEW c \in Calls, NEW r \in Requests[c], Arrives(c, r) PROVE RevocationInv'
  BY <1>6, RevocationByArrival
<1> QED BY <1>2, <1>3, <1>4, <1>5, <1>6 DEF Next, Arrives

(* A revoked token dies, for any number of gateways and any lives and      *)
(* deadlines: nobody admits it later than CacheTTL plus one deadline after *)
(* the logout, but for its last second and a blocklist that could not be   *)
(* read.                                                                   *)
THEOREM RevocationAlwaysTakesHold == Spec => []RevocationTakesHold
<1>1. Init => RevocationInv
  <2>1. ASSUME Init PROVE RevocationInv
    <3>1. \A c \in Calls : call[c].pc = "idle"
      BY <2>1 DEF Init, Idle
    <3>2. \A t \in Calls : Logouts(t) = {}
      BY <3>1 DEF Logouts, Done
    <3>3. blocklist = {} /\ \A g \in Gateways : \A t \in Calls : cache[g][t] = None
      BY <2>1 DEF Init
    <3>4. BlocklistFine /\ LogoutsFine
      BY <3>2, <3>3 DEF BlocklistFine, LogoutsFine
    <3>5. \A c \in Calls : ReplyFine(c) /\ Held(c)
      BY <3>1 DEF ReplyFine, Held, Done
    <3>6. \A g \in Gateways : \A t \in Calls : EntryFine(g, t)
      BY <3>3 DEF EntryFine
    <3> QED BY <3>4, <3>5, <3>6 DEF RevocationInv
  <2> QED BY <2>1
<1>2. AuthInv /\ RevocationInv /\ [Next]_vars => RevocationInv'
  BY RevocationKept
<1>3. RevocationInv => RevocationTakesHold
  BY DEF RevocationInv, Held, RevocationTakesHold
<1> QED BY <1>1, <1>2, <1>3, AuthInvariant, PTL DEF Spec
=============================================================================
