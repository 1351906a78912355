---------------------------- MODULE AuthService ----------------------------
(***************************************************************************)
(* Sessions of one user: the auth service (cmd/auth-service) with its user *)
(* store, refresh tokens and revocation list, and the gateway's login,     *)
(* refresh and logout handlers and AuthMiddleware, whose claims cache      *)
(* admits a token without asking the auth service.                         *)
(*                                                                         *)
(* A token pair is named after the call that issued it.  One tick is one   *)
(* second.  A call may stop at any step, which is also how a crash looks.  *)
(***************************************************************************)
EXTENDS Naturals, FiniteSets

CONSTANTS
    Gateways,     \* gateway pods, each with a claims cache
    Calls,        \* HTTP requests; each is made at most once
    Requests,     \* call -> what it may ask for, see Begin
    MaxFailed,    \* maxFailedLogins
    LockTicks,    \* DefaultLockoutDuration
    AccessTTL,    \* life of an access token
    RefreshTTL,   \* refreshTokenTTL
    CacheTTL,     \* life of an entry of the claims cache
    RPCTimeout,   \* deadline of the gateway's ValidateToken call
    MaxTime,      \* bound on the clock
    MaxFaults,    \* bound on failed database operations
    None

Operations == {"LOGIN", "REFRESH", "LOGOUT", "USE"}

AuthConstants ==
    /\ MaxFailed \in Nat \ {0} /\ LockTicks \in Nat /\ RefreshTTL \in Nat
    /\ AccessTTL \in Nat /\ CacheTTL \in Nat /\ RPCTimeout \in Nat
    /\ MaxTime \in Nat /\ MaxFaults \in Nat
    /\ \A c \in Calls : \A r \in Requests[c] :
         /\ r.op \in Operations
         /\ r.op = "LOGIN" => r.password \in BOOLEAN /\ r.external \in BOOLEAN
         /\ r.op # "LOGIN" => r.token \in Calls /\ r.gw \in Gateways

ASSUME AuthAssumption == AuthConstants

(* Times, token documents, and None, which is none of them.  A bare token  *)
(* is one of the OIDC provider's without a jti.                            *)
Sources == {"local", "oidc", "bare"}
Ticks == 0..(MaxTime + AccessTTL + CacheTTL + LockTicks + RefreshTTL)
AccessTokens == [iat : Ticks, exp : Ticks, src : Sources]
RefreshTokens == [revoked : BOOLEAN, exp : Ticks]

NoneIsNothing ==
    /\ None \notin Nat /\ None \notin AccessTokens /\ None \notin RefreshTokens
    /\ \A c \in Calls : None \notin Requests[c]

ASSUME NoneAssumption == NoneIsNothing

VARIABLES
    now,
    user,       \* the document of users: [status, failed, until]
    refresh,    \* refresh_tokens: call -> None or [revoked, exp]
    access,     \* access tokens: call -> None or [iat, exp, src]
    blocklist,  \* revoked_tokens: a set of [id, exp]
    cache,      \* gateway -> token -> None or the tick its entry expires
    healthy,    \* KeycloakProvider.isHealthy
    call,
    wrong,      \* wrong passwords compared since the last success or unlock
    overlap,    \* have two logins ever been between their read and their write?
    faults

storeVars == <<user, refresh, blocklist>>
vars == <<now, storeVars, access, cache, healthy, call, wrong, overlap, faults>>

Idle == [pc |-> "idle", req |-> None, seen |-> None, at |-> 0, ok |-> FALSE, note |-> FALSE]

Init ==
    /\ now = 0
    /\ user \in [status : {"ACTIVE", "SUSPENDED"}, failed : {0}, until : {None}]
    /\ refresh = [c \in Calls |-> None]
    /\ access = [c \in Calls |-> None]
    /\ blocklist = {}
    /\ cache = [g \in Gateways |-> [c \in Calls |-> None]]
    /\ healthy = FALSE
    /\ call = [c \in Calls |-> Idle]
    /\ wrong = 0 /\ overlap = FALSE /\ faults = 0

Fail == faults < MaxFaults /\ faults' = faults + 1
Ok == UNCHANGED faults
Req(c) == call[c].req
Tok(c) == Req(c).token
Goto(c, l) == call' = [call EXCEPT ![c] = [@ EXCEPT !.pc = l]]
Answer(c, ok) == call' = [call EXCEPT ![c] = [@ EXCEPT !.pc = "done", !.ok = ok, !.seen = None]]
Done(c) == call[c].pc = "done"

(* A request reaches a gateway.  note remembers, for a refresh, that an     *)
(* earlier one with the same token had already been answered.              *)
Begin(c, r, pc, note) ==
    /\ call[c].pc = "idle"
    /\ call' = [call EXCEPT ![c] = [Idle EXCEPT !.req = r, !.pc = pc, !.note = note]]
    /\ UNCHANGED <<now, storeVars, access, cache, healthy, wrong, overlap, faults>>

(* Only a token that a client was given can be presented.                  *)
Given(t) == Done(t) /\ call[t].ok /\ access[t] # None

HandleLogin(c, r) == r.op = "LOGIN" /\ Begin(c, r, "login", FALSE)

HandleRefresh(c, r) ==
    /\ r.op = "REFRESH" /\ Given(r.token)
    /\ Begin(c, r, "find", \E d \in Calls : /\ Done(d) /\ call[d].ok
                                           /\ Req(d).op = "REFRESH" /\ Tok(d) = r.token)

(* Logout and every protected route pass AuthMiddleware first.             *)
HandleLogout(c, r) == r.op = "LOGOUT" /\ Given(r.token) /\ Begin(c, r, "admit", FALSE)
AuthMiddleware(c, r) == r.op = "USE" /\ Given(r.token) /\ Begin(c, r, "admit", FALSE)

-----------------------------------------------------------------------------
(* The health poller of the OIDC provider: a failed ping marks it          *)
(* degraded, a successful ping and Reconnect mark it healthy again.        *)
HealthPoll ==
    /\ healthy' = ~healthy
    /\ UNCHANGED <<now, storeVars, access, cache, call, wrong, overlap, faults>>

(* What the OIDC provider issues, when it accepts.                         *)
OIDCToken(s) == [iat |-> now, exp |-> now + AccessTTL, src |-> s]

(* HybridProvider.Authenticate: the OIDC provider first, when it is        *)
(* healthy; whatever it refuses is tried against the local user store.     *)
LoginExternal(c) ==
    /\ call[c].pc = "login"
    /\ healthy /\ Req(c).external /\ Req(c).password
    /\ \E s \in {"oidc", "bare"} : access' = [access EXCEPT ![c] = OIDCToken(s)]
    /\ Answer(c, TRUE)
    /\ UNCHANGED <<now, storeVars, cache, healthy, wrong, overlap, faults>>

InLogin == {c \in Calls : call[c].pc \in {"unlock", "compare"}}

(* UserStore.Authenticate reads the user; a lock whose time has passed is  *)
(* lifted, any other refuses, and so does a suspension.                    *)
FindByUsername(c) ==
    /\ call[c].pc = "login"
    /\ \/ Fail /\ Answer(c, FALSE) /\ UNCHANGED overlap
       \/ /\ Ok
          /\ LET locked == user.status = "LOCKED"
                 over == user.until # None /\ now > user.until
             IN IF user.status = "SUSPENDED" \/ (locked /\ ~over)
                THEN Answer(c, FALSE) /\ UNCHANGED overlap
                ELSE /\ call' = [call EXCEPT ![c] = [@ EXCEPT !.pc = IF locked THEN "unlock" ELSE "compare",
                                                           !.seen = IF locked THEN 0 ELSE user.failed]]
                     /\ overlap' = (overlap \/ InLogin # {})
    /\ UNCHANGED <<now, storeVars, access, cache, healthy, wrong>>

Unlock(c) ==
    /\ call[c].pc = "unlock"
    /\ \/ /\ Ok /\ user' = [status |-> "ACTIVE", failed |-> 0, until |-> None] /\ wrong' = 0
       \/ /\ Fail /\ UNCHANGED <<user, wrong>>
    /\ Goto(c, "compare")
    /\ UNCHANGED <<now, refresh, blocklist, access, cache, healthy, overlap>>

(* Plausible error: a successful login does not reset the count.           *)
ResetForgotten(c) ==
    /\ call[c].pc = "compare" /\ Req(c).password
    /\ wrong' = 0
    /\ Goto(c, "issue")
    /\ UNCHANGED <<now, storeVars, access, cache, healthy, overlap, faults>>

(* A wrong password writes back the count that was read, plus one, and     *)
(* locks at the limit; the error of the update is ignored.                 *)
WrongPassword(c) ==
    LET n == call[c].seen + 1 IN
    /\ call[c].pc = "compare" /\ ~Req(c).password
    /\ \/ /\ Ok
          /\ user' = IF n >= MaxFailed
                     THEN [status |-> "LOCKED", failed |-> n, until |-> now + LockTicks]
                     ELSE [user EXCEPT !.failed = n]
       \/ Fail /\ UNCHANGED user
    /\ wrong' = wrong + 1
    /\ Answer(c, FALSE)
    /\ UNCHANGED <<now, refresh, blocklist, access, cache, healthy, overlap>>

(* The right one resets the count and locked_until, but not the status.    *)
ResetFailures(c) ==
    /\ call[c].pc = "compare" /\ Req(c).password
    /\ \/ Ok /\ user' = [user EXCEPT !.failed = 0, !.until = None]
       \/ Fail /\ UNCHANGED user
    /\ wrong' = 0
    /\ Goto(c, "issue")
    /\ UNCHANGED <<now, refresh, blocklist, access, cache, healthy, overlap>>

(* The access token is signed; then the refresh token is stored, and a     *)
(* failure there refuses the login.                                        *)
IssueAccessToken(c) ==
    /\ call[c].pc = "issue"
    /\ access' = [access EXCEPT ![c] = [iat |-> now, exp |-> now + AccessTTL, src |-> "local"]]
    /\ Goto(c, IF Req(c).op = "REFRESH" THEN "rotate" ELSE "store")
    /\ UNCHANGED <<now, storeVars, cache, healthy, wrong, overlap, faults>>

StoreRefreshToken(c) ==
    /\ call[c].pc = "store"
    /\ \/ /\ Ok /\ refresh' = [refresh EXCEPT ![c] = [revoked |-> FALSE, exp |-> now + RefreshTTL]]
          /\ Answer(c, TRUE)
       \/ Fail /\ Answer(c, FALSE) /\ UNCHANGED refresh
    /\ UNCHANGED <<now, user, blocklist, access, cache, healthy, wrong, overlap>>

-----------------------------------------------------------------------------
(* RefreshToken: look the token up, issue, revoke the old one (an error is *)
(* ignored), store the new one.  Two calls may both find it live.          *)
Live(t) == refresh[t] # None /\ ~refresh[t].revoked /\ refresh[t].exp > now

FindRefreshToken(c) ==
    /\ call[c].pc = "find"
    /\ \/ Ok /\ Live(Tok(c)) /\ Goto(c, "issue")
       \/ (IF Live(Tok(c)) THEN Fail ELSE Ok) /\ Goto(c, "external")
    /\ UNCHANGED <<now, storeVars, access, cache, healthy, wrong, overlap>>

(* What the local store does not know is offered to the OIDC provider.     *)
RefreshExternal(c) ==
    /\ call[c].pc = "external"
    /\ \/ /\ healthy /\ access[Tok(c)].src # "local"
          /\ \E s \in {"oidc", "bare"} : access' = [access EXCEPT ![c] = OIDCToken(s)]
          /\ Answer(c, TRUE)
       \/ Answer(c, FALSE) /\ UNCHANGED access
    /\ UNCHANGED <<now, storeVars, cache, healthy, wrong, overlap, faults>>

(* Plausible error: the new refresh token is stored and the old one kept.  *)
RotateWithoutRevoking(c) ==
    /\ call[c].pc = "rotate"
    /\ Goto(c, "store")
    /\ UNCHANGED <<now, storeVars, access, cache, healthy, wrong, overlap, faults>>

RevokeRefreshToken(c) ==
    /\ call[c].pc = "rotate"
    /\ \/ Ok /\ refresh' = [refresh EXCEPT ![Tok(c)] = [@ EXCEPT !.revoked = TRUE]]
       \/ Fail /\ UNCHANGED refresh
    /\ Goto(c, "store")
    /\ UNCHANGED <<now, user, blocklist, access, cache, healthy, wrong, overlap>>

-----------------------------------------------------------------------------
(* The jti of an OIDC token that has one; else deriveTokenID: subject and  *)
(* second of issue, so tokens of one second share it.                      *)
TokenID(t) == IF access[t].src = "oidc" THEN <<"jti", t>> ELSE <<"iat", access[t].iat>>
Expired(t) == now > access[t].exp
IsRevoked(t) == \E b \in blocklist : b.id = TokenID(t)

(* AuthMiddleware.  at is when the call was sent and then when the request *)
(* was admitted.                                                           *)
Cached(c) == LET e == cache[Req(c).gw][Tok(c)] IN e # None /\ now <= e
Admitted(c) == [call[c] EXCEPT !.at = now, !.ok = TRUE,
                               !.pc = IF Req(c).op = "LOGOUT" THEN "revoke" ELSE "done"]

ClaimsCacheGet(c) ==
    /\ call[c].pc = "admit"
    /\ call' = [call EXCEPT ![c] = IF Cached(c) THEN Admitted(c)
                                   ELSE [call[c] EXCEPT !.pc = "validate", !.at = now]]
    /\ UNCHANGED <<now, storeVars, access, cache, healthy, wrong, overlap, faults>>

(* authServer.ValidateToken: signature and expiry, then the blocklist.  If *)
(* that cannot be read the token counts as not revoked (note remembers it).*)
ValidateToken(c) ==
    /\ call[c].pc = "validate"
    /\ \/ /\ Ok
          /\ call' = [call EXCEPT ![c] = [@ EXCEPT !.pc = "reply", !.ok = ~Expired(Tok(c)) /\ ~IsRevoked(Tok(c))]]
       \/ /\ Fail
          /\ call' = [call EXCEPT ![c] = [@ EXCEPT !.pc = "reply", !.ok = ~Expired(Tok(c)), !.note = TRUE]]
    /\ UNCHANGED <<now, storeVars, access, cache, healthy, wrong, overlap>>

(* Plausible error: an entry lives as long as its token.                   *)
CacheUntilExpiry(t) == IF access[t].exp <= now THEN None ELSE access[t].exp

(* A valid token is cached, no longer than it lives.                       *)
CacheSet(t) == IF access[t].exp <= now THEN None
               ELSE IF access[t].exp < now + CacheTTL THEN access[t].exp ELSE now + CacheTTL

(* The answer comes within the deadline or not at all.                     *)
ValidateReply(c) ==
    /\ call[c].pc = "reply"
    /\ IF call[c].ok /\ now <= call[c].at + RPCTimeout
       THEN /\ cache' = IF CacheSet(Tok(c)) = None THEN cache
                        ELSE [cache EXCEPT ![Req(c).gw] = [@ EXCEPT ![Tok(c)] = CacheSet(Tok(c))]]
            /\ call' = [call EXCEPT ![c] = Admitted(c)]
       ELSE Answer(c, FALSE) /\ UNCHANGED cache
    /\ UNCHANGED <<now, storeVars, access, healthy, wrong, overlap, faults>>

(* handleLogout: the token goes to the blocklist until it would expire;    *)
(* the answer is success whatever happens.  seen is when it took effect.   *)
(* What does not validate is tried as a refresh token, and an access token *)
(* is none.                                                                *)
RevokeToken(c) ==
    /\ call[c].pc = "revoke"
    /\ \/ /\ Ok /\ ~Expired(Tok(c))
          /\ blocklist' = IF IsRevoked(Tok(c)) THEN blocklist
                          ELSE blocklist \cup {[id |-> TokenID(Tok(c)), exp |-> access[Tok(c)].exp]}
          /\ call' = [call EXCEPT ![c] = [@ EXCEPT !.pc = "done", !.seen = now]]
       \/ /\ IF Expired(Tok(c)) THEN Ok ELSE Fail
          /\ Goto(c, "done") /\ UNCHANGED blocklist
    /\ UNCHANGED <<now, user, refresh, access, cache, healthy, wrong, overlap>>

(* MongoDB's TTL monitor removes a record from its expires_at on.          *)
PurgeExpired ==
    /\ \E b \in blocklist : b.exp <= now /\ blocklist' = blocklist \ {b}
    /\ UNCHANGED <<now, user, refresh, access, cache, healthy, call, wrong, overlap, faults>>

(* The cleanup loop of the claims cache.                                   *)
CleanupClaims(g) ==
    LET stale == {t \in Calls : cache[g][t] # None /\ now > cache[g][t]} IN
    /\ stale # {}
    /\ cache' = [cache EXCEPT ![g] = [t \in Calls |-> IF t \in stale THEN None ELSE @[t]]]
    /\ UNCHANGED <<now, storeVars, access, healthy, call, wrong, overlap, faults>>

Tick == now < MaxTime /\ now' = now + 1
        /\ UNCHANGED <<storeVars, access, cache, healthy, call, wrong, overlap, faults>>

CallStep(c) ==
    \/ LoginExternal(c) \/ FindByUsername(c) \/ Unlock(c) \/ WrongPassword(c) \/ ResetFailures(c)
    \/ IssueAccessToken(c) \/ StoreRefreshToken(c)
    \/ FindRefreshToken(c) \/ RefreshExternal(c) \/ RevokeRefreshToken(c)
    \/ ClaimsCacheGet(c) \/ ValidateToken(c) \/ ValidateReply(c) \/ RevokeToken(c)

Next ==
    \/ Tick \/ HealthPoll \/ PurgeExpired
    \/ \E g \in Gateways : CleanupClaims(g)
    \/ \E c \in Calls : CallStep(c) \/ \E r \in Requests[c] : \/ HandleLogin(c, r) \/ HandleRefresh(c, r)
                                                           \/ HandleLogout(c, r) \/ AuthMiddleware(c, r)

Spec == Init /\ [][Next]_vars

-----------------------------------------------------------------------------
Statuses == {"ACTIVE", "LOCKED", "SUSPENDED"}
TokenIDs == ({"iat"} \X Ticks) \cup ({"jti"} \X Calls)
Labels == {"idle", "login", "unlock", "compare", "find", "external", "issue", "rotate", "store",
           "admit", "validate", "reply", "revoke", "done"}
Served == [pc : Labels, req : (UNION {Requests[c] : c \in Calls}) \cup {None}, seen : Nat \cup {None},
           at : 0..MaxTime, ok : BOOLEAN, note : BOOLEAN]

(* Documents, tokens and cache entries have the shape the code gives them. *)
TypeOK ==
    /\ now \in 0..MaxTime /\ faults \in 0..MaxFaults /\ wrong \in Nat
    /\ user \in [status : Statuses, failed : 0..MaxFailed, until : Ticks \cup {None}]
    /\ refresh \in [Calls -> RefreshTokens \cup {None}]
    /\ access \in [Calls -> AccessTokens \cup {None}]
    /\ blocklist \subseteq [id : TokenIDs, exp : Ticks]
    /\ cache \in [Gateways -> [Calls -> Ticks \cup {None}]]
    /\ call \in [Calls -> Served]
    /\ healthy \in BOOLEAN /\ overlap \in BOOLEAN

Logouts(t) == {d \in Calls : Done(d) /\ Req(d).op = "LOGOUT" /\ Tok(d) = t /\ call[d].seen # None}
FailedOpen(t) == \E d \in Calls : call[d].req # None /\ Req(d).op \in {"USE", "LOGOUT"}
                                  /\ Tok(d) = t /\ call[d].note

(* A revoked token dies: CacheTTL plus one RPC deadline after a logout no  *)
(* gateway admits it any more, although no gateway is told of the logout   *)
(* and a validation may have been under way.  The exceptions are a         *)
(* blocklist that could not be read, and a token in its last second, when  *)
(* the TTL monitor may have dropped the record already.                    *)
RevocationTakesHold ==
    \A c \in Calls :
        (Done(c) /\ call[c].ok /\ Req(c).op = "USE") =>
            \A d \in Logouts(Tok(c)) :
                \/ call[c].at <= call[d].seen + CacheTTL + RPCTimeout
                \/ call[c].at >= access[Tok(c)].exp
                \/ FailedOpen(Tok(c))

(* Refresh tokens are used once, one after the other: after a refresh has  *)
(* been answered, a later one with the same token is refused.  (Two at a   *)
(* time may both succeed.)                                                 *)
RotatedIsDead ==
    \A c \in Calls :
        (Done(c) /\ call[c].ok /\ Req(c).op = "REFRESH" /\ call[c].note
         /\ access[Tok(c)].src = "local") => faults > 0

(* One login at a time and without faults, maxFailedLogins holds exactly:  *)
(* no more wrong passwords are compared before the account locks, the      *)
(* stored count is their number, and every lock has an end.                *)
LockoutAlone ==
    (~overlap /\ faults = 0) =>
        /\ wrong <= MaxFailed
        /\ InLogin = {} => user.failed = wrong
        /\ user.status = "LOCKED" => user.until # None /\ wrong = MaxFailed

-----------------------------------------------------------------------------
(* Claims of the repository that the code does not keep.                   *)

(* server.go:111: "RevokeToken adds a token to the blocklist and           *)
(* invalidates refresh sessions": after a logout the session's refresh     *)
(* token is of no use.                                                     *)
LogoutEndsSession ==
    [][\A c \in Calls :
        (call[c].pc = "find" /\ call[c]'.pc = "issue" /\ faults = 0) => Logouts(Tok(c)) = {}]_vars

(* revocation.go:30: "The local claim cache in the API Gateway is also     *)
(* invalidated when a token is revoked": no gateway finds it cached after. *)
RevokedAtOnce ==
    \A t \in Calls, g \in Gateways :
        Logouts(t) # {} => cache[g][t] = None \/ now > cache[g][t]

(* SECURITY.md:37: "automatic 15-minute temporary lockout auto-expiration":*)
(* every lock has an end.                                                  *)
LocksEnd == faults = 0 /\ user.status = "LOCKED" => user.until # None
=============================================================================
