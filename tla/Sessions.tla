------------------------------ MODULE Sessions ------------------------------
(***************************************************************************)
(* Logging in and staying logged in (auth/enforcer.go, auth/endpoints.go,  *)
(* auth/oidc.go, auth/saml.go, auth/ldap.go, auth/jwt.go).  All the state  *)
(* of a session or of a login under way is in the cookies of the browser,  *)
(* so a handler works with what the browser had when it sent the request,  *)
(* and what it sets reaches the browser later, in any order, or not at     *)
(* all.  A pod keeps signing keys only.                                    *)
(*                                                                         *)
(* External: the OpenID Connect provider redeems a code once and, if it    *)
(* rotates them, a refresh token once; the SAML provider and the directory *)
(* only answer.  Any call may find them unreachable (a mishap).            *)
(***************************************************************************)
EXTENDS Cookies, FiniteSets

CONSTANTS
    Browsers, Pods,
    Lifetime,        \* of a session
    TokenLifetime,   \* of the tokens of the OpenID Connect provider
    StateLifetime,   \* of a login under way
    MaxKeys,         \* signing keys of the provider
    MaxFlight,       \* responses on their way
    Scenarios        \* what may happen: which requests of each browser, sessions of which
                     \* sizes, until when, how many requests that set cookies and how many
                     \* mishaps, changes of keys included, and whether
                     \* the provider rotates refresh tokens

ASSUME SessionsAssumption ==
    /\ Lifetime \in Nat /\ TokenLifetime \in Nat /\ StateLifetime \in Nat
    /\ MaxKeys \in Nat \ {0}
    /\ \A sc \in Scenarios :
          sc.sizes \subseteq Nat \ {0} /\ sc.until \in Nat /\ sc.rotates \in BOOLEAN

VARIABLES
    now,
    jar,           \* the cookies of each browser
    flight,        \* responses on their way
    sealed,        \* all sessions that were sealed
    tokens,        \* the random tokens: for whom and for what
    redeemed,      \* codes the provider has redeemed
    current,       \* the refresh token that is valid, for each login
    published,     \* its signing keys; it signs with the last one
    idKeys,        \* the keys each pod has for ID tokens
    bearerKeys,    \* and for bearer tokens
    scenario, sent, mishaps,
    last,          \* (auxiliary) how the last request was let through or refused
    settled,       \* (auxiliary) the session the last response left
    lost,          \* (auxiliary) whether a refresh went astray
    changedAt,     \* (auxiliary) when a key was published or retired
    failedAt       \* (auxiliary) when a pod's last fetch failed

browserVars == <<jar, flight, settled>>
providerVars == <<redeemed, current, published, changedAt>>
keyVars == <<idKeys, bearerKeys, failedAt>>
vars == <<now, browserVars, sealed, tokens, providerVars, keyVars, scenario, sent, mishaps, last, lost>>

Nobody == [result |-> "none"]
Unknown == -1
NoToken == [grant |-> 0, turn |-> 0]

\* A login through the provider at time 0, or none.
LoggedIn(b) ==
    [provider |-> "oidc", expiresAt |-> Lifetime, tokenExpiresAt |-> TokenLifetime,
     refresh |-> [grant |-> 0, turn |-> 1], size |-> 1, login |-> 0, browser |-> b, token |-> 0]

Init ==
    /\ scenario \in Scenarios
    /\ now = 0
    /\ \E b \in Browsers :
           /\ sealed = IF "page" \in scenario.may[b] THEN <<LoggedIn(b)>> ELSE <<>>
           /\ jar = [c \in Browsers |->
                        IF c = b /\ "page" \in scenario.may[b]
                        THEN Apply(SealSession(EmptyJar, 1, 1), EmptyJar) ELSE EmptyJar]
    /\ flight = {} /\ settled = [b \in Browsers |-> Unknown]
    /\ tokens = <<>> /\ redeemed = {} /\ current = [g \in {0} |-> 1]
    /\ published = {1} /\ changedAt = [k \in 1 .. MaxKeys |-> 0]
    /\ idKeys = [p \in Pods |-> NoKeys] /\ bearerKeys = [p \in Pods |-> NoKeys]
    /\ failedAt = [p \in Pods |-> -Backoff - 1]
    /\ sent = 0 /\ mishaps = 0 /\ last = Nobody
    /\ lost = [b \in Browsers |-> FALSE]

SizeOf == [n \in DOMAIN sealed |-> sealed[n].size]

\* OpenSession and OpenState
OpenSession(b) ==
    LET n == Decrypted(jar[b], SizeOf)
    IN  IF n # 0 /\ now < sealed[n].expiresAt THEN n ELSE 0

HasState(b) == jar[b]["state"] # NoCookie /\ now < jar[b]["state"].expires

SigningKey == CHOOSE k \in published : \A l \in published : l <= k

-----------------------------------------------------------------------------
\* What the handlers have in common.

ChunksOf(b) == [n \in ChunkNames |-> jar[b][n]]

\* A response that sets cookies; session is the number of the session it
\* seals, 0 if it clears it, Unknown if it leaves it alone.
Reply(b, set, session) ==
    /\ sent < scenario.requests /\ Cardinality(flight) < MaxFlight
    /\ sent' = sent + 1
    /\ flight' = flight \cup {[id |-> sent, to |-> b, had |-> ChunksOf(b), set |-> set,
                               session |-> session]}
    /\ UNCHANGED <<now, jar, settled, published, changedAt, scenario>>

\* One that sets none.
NoCookies == UNCHANGED <<now, browserVars, sealed, published, changedAt, scenario, sent>>

\* Every call gets through, or it is a mishap that one does not.
Reach(up) ==
    /\ ~up => mishaps < scenario.mishaps
    /\ mishaps' = IF up THEN mishaps ELSE mishaps + 1

Session(b, provider, tokenExpiresAt, refresh, size, token) ==
    [provider |-> provider, expiresAt |-> now + Lifetime, tokenExpiresAt |-> tokenExpiresAt,
     refresh |-> refresh, size |-> size, login |-> now, browser |-> b, token |-> token]

NoChange == [x \in {} |-> NoCookie]

\* SealSession at the end of a login, which also consumes the state; a
\* session beyond the budget leaves only that.
LogIn(b, session, consumed) ==
    LET n == Len(sealed) + 1
        fits == session.size <= MaxChunks
    IN  /\ sealed' = IF fits THEN Append(sealed, session) ELSE sealed
        /\ Reply(b, IF fits THEN Both(SealSession(jar[b], n, session.size), consumed)
                    ELSE consumed,
                 IF fits THEN n ELSE Unknown)
        /\ last' = Nobody

-----------------------------------------------------------------------------
\* Evaluate: a request to a protected rule.

Alive(n) == sealed[n].tokenExpiresAt = 0 \/ now < sealed[n].tokenExpiresAt

\* 1. The session, as long as its tokens are valid.
BySession(b) ==
    /\ OpenSession(b) # 0 /\ Alive(OpenSession(b))
    /\ last' = [result |-> "session", login |-> sealed[OpenSession(b)].login]
    /\ NoCookies
    /\ UNCHANGED <<tokens, redeemed, current, keyVars, mishaps, lost>>

\* The refresh token is accepted, and another one takes its place if the
\* provider rotates them.
Exchanges(n, up) ==
    /\ sealed[n].refresh # NoToken /\ up
    /\ sealed[n].refresh.turn = current[sealed[n].refresh.grant]

Rotate(n) ==
    current' = IF scenario.rotates THEN [current EXCEPT ![sealed[n].refresh.grant] = @ + 1] ELSE current

IdKeys(p, up) == KeysFor(idKeys[p], SigningKey, published, up, now)

FailedAt(p, result) == [failedAt EXCEPT ![p] = IF result = "unavailable" THEN now ELSE @]

\* (mutant) The refreshed session lives as long as a new one.
RefreshRenewed(n, size) ==
    [sealed[n] EXCEPT !.expiresAt = now + Lifetime, !.tokenExpiresAt = now + TokenLifetime,
                      !.size = size, !.refresh.turn = IF scenario.rotates THEN @ + 1 ELSE @]

\* (mutant) The refresh token that comes with the answer is not kept.
RefreshKept(n, size) ==
    [sealed[n] EXCEPT !.tokenExpiresAt = now + TokenLifetime, !.size = size]

\* Refresh: the session with new claims and tokens, until its old expiry.
Refreshed(n, size) ==
    [sealed[n] EXCEPT !.tokenExpiresAt = now + TokenLifetime, !.size = size,
                      !.refresh.turn = IF scenario.rotates THEN @ + 1 ELSE @]

\* refreshIfNeeded, when it succeeds.
ByRefresh(b, p, keysUp, size) ==
    LET n == OpenSession(b)
        keys == IdKeys(p, keysUp)
    IN  /\ size <= MaxChunks /\ Reach(keysUp)
        /\ n # 0 /\ ~Alive(n) /\ Exchanges(n, TRUE) /\ keys.result = "found"
        /\ Rotate(n)
        /\ idKeys' = [idKeys EXCEPT ![p] = keys.cache]
        /\ sealed' = Append(sealed, Refreshed(n, size))
        /\ Reply(b, SealSession(jar[b], Len(sealed) + 1, size), Len(sealed) + 1)
        /\ last' = [result |-> "session", login |-> sealed[n].login]
        /\ UNCHANGED <<tokens, redeemed, bearerKeys, failedAt, lost>>

\* There is no session, or its refresh fails: before the exchange, or after
\* it, when the old refresh token may be worth nothing any more.
NoSession(b, p, up, keysUp, size) ==
    LET n == OpenSession(b)
    IN  \/ n = 0 /\ UNCHANGED <<current, idKeys, lost>>
        \/ n # 0 /\ ~Alive(n) /\ ~Exchanges(n, up) /\ UNCHANGED <<current, idKeys, lost>>
        \/ /\ n # 0 /\ ~Alive(n) /\ Exchanges(n, up)
           /\ IdKeys(p, keysUp).result # "found" \/ size > MaxChunks
           /\ Rotate(n)
           /\ idKeys' = [idKeys EXCEPT ![p] = IdKeys(p, keysUp).cache]
           /\ lost' = [lost EXCEPT ![b] = TRUE]

\* 2. A bearer token, signed with any key.
ByBearer(b, p, kid, up, keysUp, size) ==
    LET keys == KeysFor(bearerKeys[p], kid, published, keysUp, now)
    IN  /\ Reach(up /\ keysUp) /\ NoSession(b, p, up, keysUp, size)
        /\ bearerKeys' = [bearerKeys EXCEPT ![p] = keys.cache]
        /\ failedAt' = FailedAt(p, keys.result)
        /\ last' = IF keys.result = "found" THEN [result |-> "accepted", kid |-> kid]
                   ELSE IF keys.result = "no key" THEN [result |-> "refused", kid |-> kid, pod |-> p]
                   ELSE Nobody
        /\ NoCookies
        /\ UNCHANGED <<tokens, redeemed>>

\* 3. Basic credentials: a bind that succeeds mints a session.
ByBind(b, p, up, keysUp, size) ==
    /\ size <= MaxChunks
    /\ Reach(up /\ keysUp) /\ NoSession(b, p, up, keysUp, size)
    /\ LogIn(b, Session(b, "ldap", 0, NoToken, size, 0), NoChange)
    /\ UNCHANGED <<tokens, redeemed, bearerKeys, failedAt>>

\* 4. Anything else is sent to the login page or turned away, and so is a
\* bind that fails or yields a session beyond the budget.
Unauthenticated(b, p, up, keysUp, size) ==
    /\ Reach(up /\ keysUp) /\ NoSession(b, p, up, keysUp, size)
    /\ last' = Nobody
    /\ NoCookies
    /\ UNCHANGED <<tokens, redeemed, bearerKeys, failedAt>>

-----------------------------------------------------------------------------
\* The endpoints.

NewToken(b, use) == tokens' = Append(tokens, [browser |-> b, use |-> use])

Rejected ==
    /\ last' = Nobody
    /\ NoCookies
    /\ UNCHANGED <<tokens, redeemed, current, keyVars, lost>>

\* serveLogin: a new state, in place of any other login under way.
ServeLogin(b) ==
    /\ NewToken(b, "form")
    /\ Reply(b, SealState([form |-> Len(tokens) + 1, oidc |-> 0, saml |-> 0,
                           expires |-> now + StateLifetime]), Unknown)
    /\ last' = Nobody
    /\ UNCHANGED <<sealed, redeemed, current, keyVars, mishaps, lost>>

\* serveOIDCStart and serveSAMLStart: the state gains the material of the
\* flow, which also goes to the provider.
ServeStart(b, provider, up) ==
    /\ Reach(up)
    /\ \/ ~(up /\ HasState(b)) /\ Rejected
       \/ /\ up /\ HasState(b)
          /\ NewToken(b, provider)
          /\ Reply(b, SealState([jar[b]["state"] EXCEPT ![provider] = Len(tokens) + 1,
                                                        !.expires = now + StateLifetime]), Unknown)
          /\ last' = Nobody
          /\ UNCHANGED <<sealed, redeemed, current, keyVars, lost>>

\* (mutant) Any login under way will do.
CallbackOfAny(b, provider, token) == HasState(b) /\ jar[b]["state"][provider] # 0

\* The callback belongs to the login under way in this browser.
CallbackOfFlow(b, provider, token) ==
    HasState(b) /\ jar[b]["state"][provider] # 0 /\ jar[b]["state"][provider] = token

\* serveOIDCCallback: the code is redeemed with the verifier of the state,
\* then the ID token and its nonce are validated.
ServeOIDCCallback(b, p, token, up, keysUp, size) ==
    LET known == CallbackOfFlow(b, "oidc", token)
        redeems == known /\ up /\ token \notin redeemed /\ jar[b]["state"].oidc = token
        keys == IdKeys(p, keysUp)
    IN  /\ tokens[token].use = "oidc" /\ Reach(up /\ keysUp)
        /\ \/ ~redeems /\ Rejected
           \/ /\ redeems /\ redeemed' = redeemed \cup {token}
              /\ idKeys' = [idKeys EXCEPT ![p] = keys.cache]
              /\ UNCHANGED <<tokens, bearerKeys, failedAt, lost>>
              /\ \/ keys.result # "found" /\ last' = Nobody /\ NoCookies
                    /\ UNCHANGED current
                 \/ /\ keys.result = "found"
                    /\ current' = [g \in DOMAIN current \cup {token} |->
                                      IF g = token THEN 1 ELSE current[g]]
                    /\ LogIn(b, Session(b, "oidc", now + TokenLifetime,
                                        [grant |-> token, turn |-> 1], size, token), ClearState)

\* serveSAMLACS: the assertion answers the request of the state.
ServeSAMLACS(b, token, up, size) ==
    /\ tokens[token].use = "saml" /\ Reach(up)
    /\ \/ ~(up /\ CallbackOfFlow(b, "saml", token)) /\ Rejected
       \/ /\ up /\ CallbackOfFlow(b, "saml", token)
          /\ LogIn(b, Session(b, "saml", 0, NoToken, size, token), ClearState)
          /\ UNCHANGED <<tokens, redeemed, current, keyVars, lost>>

\* serveLDAPLogin: the form's token is the state's and the bind succeeds;
\* a failed one shows the form again.
ServeLDAPLogin(b, token, up, bound, size) ==
    /\ tokens[token].use = "form" /\ Reach(up)
    /\ \/ ~(up /\ bound /\ CallbackOfFlow(b, "form", token)) /\ Rejected
       \/ /\ up /\ bound /\ CallbackOfFlow(b, "form", token)
          /\ LogIn(b, Session(b, "ldap", 0, NoToken, size, token), ClearState)
          /\ UNCHANGED <<tokens, redeemed, current, keyVars, lost>>

Clear(b) ==
    /\ Reply(b, ClearSession(jar[b]), 0)
    /\ last' = Nobody
    /\ UNCHANGED <<sealed, tokens, redeemed, current, keyVars, lost>>

ServeLogout(b) == Clear(b) /\ UNCHANGED mishaps

\* serveSAMLSLO: a logout that the SAML provider asks for.
ServeSAMLSLO(b, up) ==
    /\ Reach(up)
    /\ IF up THEN Clear(b) ELSE Rejected

-----------------------------------------------------------------------------
\* The surroundings.

Quiet == UNCHANGED <<sealed, tokens, redeemed, current, idKeys, scenario, sent>>

\* A response reaches its browser: what it leaves is known for sure if no
\* other response came in between.
Deliver(r) ==
    /\ r \in flight /\ flight' = flight \ {r}
    /\ jar' = [jar EXCEPT ![r.to] = Apply(r.set, @)]
    /\ settled' = [settled EXCEPT ![r.to] = IF r.session = Unknown THEN @
                                            ELSE IF ChunksOf(r.to) = r.had THEN r.session
                                            ELSE Unknown]
    /\ last' = Nobody
    /\ Quiet /\ UNCHANGED <<now, published, changedAt, bearerKeys, failedAt, mishaps, lost>>

Lose(r) ==
    /\ r \in flight /\ flight' = flight \ {r}
    /\ Reach(FALSE)
    /\ lost' = [lost EXCEPT ![r.to] = TRUE]
    /\ last' = Nobody
    /\ Quiet /\ UNCHANGED <<now, jar, settled, published, changedAt, bearerKeys, failedAt>>

\* The provider publishes a key and signs with it, or retires an old one.
ChangeKeys(keys, k) ==
    /\ Reach(FALSE)
    /\ published' = keys
    /\ changedAt' = [changedAt EXCEPT ![k] = now]
    /\ last' = Nobody
    /\ Quiet /\ UNCHANGED <<now, browserVars, bearerKeys, failedAt, lost>>

PublishKey == SigningKey < MaxKeys /\ ChangeKeys(published \cup {SigningKey + 1}, SigningKey + 1)

RetireKey(k) == k \in published /\ k # SigningKey /\ ChangeKeys(published \ {k}, k)

\* A swap of the tables makes new validators, without keys.
Reload(p) ==
    /\ Reach(FALSE)
    /\ idKeys' = [idKeys EXCEPT ![p] = NoKeys]
    /\ bearerKeys' = [bearerKeys EXCEPT ![p] = NoKeys]
    /\ last' = Nobody
    /\ UNCHANGED <<now, browserVars, sealed, tokens, providerVars, failedAt, scenario, sent, lost>>

Tick ==
    /\ now < scenario.until /\ now' = now + 1
    /\ last' = Nobody
    /\ Quiet /\ UNCHANGED <<browserVars, published, changedAt, bearerKeys, failedAt, mishaps, lost>>

\* A page is asked for with a session, which may have to be refreshed, with
\* a password or with a token.
Evaluate(b, p, up, keysUp, size) ==
    \/ /\ "page" \in scenario.may[b]
       /\ ByRefresh(b, p, keysUp, size) \/ Unauthenticated(b, p, up, keysUp, size)
    \/ "bind" \in scenario.may[b] /\ ByBind(b, p, up, keysUp, size)
    \/ /\ "bearer" \in scenario.may[b]
       /\ \E kid \in 1 .. MaxKeys : ByBearer(b, p, kid, up, keysUp, size)

Return(b, p, token, up, keysUp, size) ==
    \/ ServeOIDCCallback(b, p, token, up, keysUp, size)
    \/ ServeSAMLACS(b, token, up, size)
    \/ \E bound \in BOOLEAN : ServeLDAPLogin(b, token, up, bound, size)

Request(b) ==
    \/ "page" \in scenario.may[b] /\ BySession(b)
    \/ \E p \in Pods, up \in BOOLEAN, keysUp \in BOOLEAN, size \in scenario.sizes :
           Evaluate(b, p, up, keysUp, size)
    \/ /\ "login" \in scenario.may[b]
       /\ \/ ServeLogin(b)
          \/ \E provider \in {"oidc", "saml"}, up \in BOOLEAN : ServeStart(b, provider, up)
          \/ \E p \in Pods, token \in DOMAIN tokens, up \in BOOLEAN, keysUp \in BOOLEAN,
                size \in scenario.sizes : Return(b, p, token, up, keysUp, size)
    \/ /\ "logout" \in scenario.may[b]
       /\ ServeLogout(b) \/ \E up \in BOOLEAN : ServeSAMLSLO(b, up)

Next ==
    \/ \E b \in Browsers : Request(b)
    \/ \E r \in flight : Deliver(r) \/ Lose(r)
    \/ PublishKey
    \/ \E k \in published : RetireKey(k)
    \/ \E p \in Pods : Reload(p)
    \/ Tick

Spec == Init /\ [][Next]_vars

-----------------------------------------------------------------------------

\* However often its tokens are refreshed, a login is good for one session
\* lifetime: no request is let through by a session later than that
\* (Refresh preserves the expiry; OpenSession checks it).
SessionCapped == last.result = "session" => now < last.login + Lifetime

\* A session that comes out of a login flow goes to the browser that began
\* the flow, whatever callbacks and forms reach the endpoints from whom
\* (the state, PKCE, InResponseTo and form token checks).
FlowBound ==
    \A n \in DOMAIN sealed :
        sealed[n].token # 0 => tokens[sealed[n].token].browser = sealed[n].browser

\* A browser that applied one response at a time has the session that the
\* last one sealed, or none if it cleared it: chunks of an older, larger
\* session never spoil it (SealSession and ClearSession expire them).
LatestKept ==
    \A b \in Browsers : settled[b] # Unknown => Decrypted(jar[b], SizeOf) = settled[b]

\* Once all responses have arrived, the refresh token in a browser's
\* session is the one the provider accepts, even if several requests tried
\* to refresh at once; only a response that was lost, or a refresh that
\* failed after the exchange, leaves an old one (Refresh, refreshIfNeeded).
RefreshCurrent ==
    \A b \in Browsers :
        LET n == Decrypted(jar[b], SizeOf)
        IN  (n # 0 /\ ~lost[b] /\ \A r \in flight : r.to # b) =>
                \/ sealed[n].refresh = NoToken
                \/ sealed[n].refresh.turn = current[sealed[n].refresh.grant]

\* A pod follows the signing keys of the provider.  A published key is
\* refused at most one window after it was published or the provider was
\* last out of reach, whatever other tokens with unknown keys arrive
\* (missedAt in keysFor); a retired one is accepted no longer than keys are
\* kept, even while the provider is out of reach (the stale check, which
\* fails rather than use old keys).
KeysFollowed ==
    /\ last.result = "refused" /\ last.kid \in published =>
          \/ now <= changedAt[last.kid] + Backoff
          \/ now <= failedAt[last.pod] + Backoff
    /\ last.result = "accepted" /\ last.kid \notin published => now <= changedAt[last.kid] + TTL
=============================================================================
