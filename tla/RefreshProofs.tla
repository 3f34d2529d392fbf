---------------------------- MODULE RefreshProofs ----------------------------
(***************************************************************************)
(* Signing keys and refresh tokens, for any browsers, pods, lifetimes,     *)
(* cache lives and requests.                                               *)
(***************************************************************************)
EXTENDS SessionsProofs

\* A grant of the provider belongs to one login; its refresh tokens are
\* numbered, and a provider that rotates them seals each into one session.
Turns ==
    /\ redeemed \subseteq DOMAIN tokens
    /\ DOMAIN current \subseteq {0} \cup redeemed
    /\ current = [g \in DOMAIN current |-> current[g]]
    /\ \A g \in DOMAIN current : current[g] \in Nat
    /\ \A n \in DOMAIN sealed : sealed[n].refresh # NoToken =>
          /\ sealed[n].refresh.grant \in DOMAIN current
          /\ sealed[n].refresh.turn <= current[sealed[n].refresh.grant]
          /\ ~scenario.rotates => sealed[n].refresh.turn = current[sealed[n].refresh.grant]
    /\ scenario.rotates => \A n, m \in DOMAIN sealed :
          sealed[n].refresh = sealed[m].refresh /\ sealed[n].refresh # NoToken => n = m

\* The session's refresh token is not the one the provider accepts.
Outdated(n) ==
    /\ sealed[n].refresh # NoToken
    /\ sealed[n].refresh.turn # current[sealed[n].refresh.grant]

\* A session on its way is nobody's yet, so nobody has refreshed it; one
\* that was refreshed is in the jar only until its successor arrives.
Pursued ==
    /\ \A r \in flight : r.session \in DOMAIN sealed =>
          /\ ~Outdated(r.session)
          /\ \A b \in Browsers : ~Holds(b, r.session)
          /\ \A q \in flight : q.session = r.session => q = r
    /\ \A b \in Browsers, n \in DOMAIN sealed :
          Holds(b, n) /\ Outdated(n) /\ ~lost[b] =>
            \E r \in flight : r.to = b /\ r.session \in DOMAIN sealed

\* The keys a pod may have, and the provider's.
KeyCache == [keys : SUBSET (1 .. MaxKeys), fetchedAt : Int, missedAt : Int]

KeysTyped ==
    /\ published \subseteq 1 .. MaxKeys
    /\ \E k \in published : \A l \in published : l <= k
    /\ changedAt \in [1 .. MaxKeys -> Nat]
    /\ bearerKeys \in [Pods -> KeyCache] /\ failedAt \in [Pods -> Int]

\* A key that a pod lacks was published, or not to be had, after the pod
\* missed one; a key it has too many was retired after it fetched them.
CacheOK(p) ==
    /\ bearerKeys[p].fetchedAt <= now /\ bearerKeys[p].missedAt <= now /\ failedAt[p] <= now
    /\ \A k \in published \ bearerKeys[p].keys :
          bearerKeys[p].missedAt <= changedAt[k] \/ bearerKeys[p].missedAt <= failedAt[p]
    /\ \A k \in bearerKeys[p].keys \ published : bearerKeys[p].fetchedAt <= changedAt[k]

KeysInv == KeysTyped /\ (\A p \in Pods : CacheOK(p)) /\ KeysFollowed

-----------------------------------------------------------------------------
\* What keysFor does with a pod's keys: it uses the ones it has, which are
\* not too old; it fails; or it has fetched the keys now published.
Outcome(k, c, kid, keys, t) ==
    /\ k.cache \in KeyCache
    /\ \/ /\ k.cache = c
          /\ \/ k.result = "found" /\ kid \in c.keys /\ t - c.fetchedAt <= TTL
             \/ k.result = "no key" /\ kid \notin c.keys /\ t - c.missedAt <= Backoff
       \/ /\ k.result = "unavailable"
          /\ k.cache.keys = c.keys /\ k.cache.fetchedAt = c.fetchedAt
          /\ k.cache.missedAt \in {c.missedAt, t}
       \/ /\ k.cache.keys = keys /\ k.cache.fetchedAt = t
          /\ k.cache.missedAt \in {c.missedAt, t}
          /\ \/ k.result = "found" /\ kid \in keys
             \/ k.result = "no key" /\ kid \notin keys

\* A fetch.
LEMMA FetchedIs ==
  ASSUME NEW c \in KeyCache, NEW keys \in SUBSET (1 .. MaxKeys), NEW t \in Nat
  PROVE  /\ Fetched(c, keys, t) \in KeyCache /\ Fetched(c, keys, t).keys = keys
         /\ Fetched(c, keys, t).fetchedAt = t
         /\ Fetched(c, keys, t).missedAt = c.missedAt
  <1> DEFINE e == [c EXCEPT !.keys = keys]
             f == [e EXCEPT !.fetchedAt = t]
  <1>1. /\ e \in KeyCache /\ e.keys = keys /\ e.fetchedAt = c.fetchedAt
        /\ e.missedAt = c.missedAt
    BY DEF KeyCache
  <1>2. Fetched(c, keys, t) = f
    BY DEF Fetched, KeyCache
  <1> HIDE DEF e
  <1>3. f \in KeyCache /\ f.keys = e.keys /\ f.fetchedAt = t /\ f.missedAt = e.missedAt
    BY <1>1 DEF KeyCache
  <1> HIDE DEF f
  <1> QED
    BY <1>1, <1>2, <1>3

\* A miss that is noted.
LEMMA MissedIs ==
  ASSUME NEW c \in KeyCache, NEW t \in Nat
  PROVE  LET m == [c EXCEPT !.missedAt = t]
         IN  /\ m \in KeyCache /\ m.keys = c.keys /\ m.fetchedAt = c.fetchedAt
             /\ m.missedAt = t
  BY DEF KeyCache

\* keysFor has one of these outcomes.
LEMMA KeysForIs ==
  ASSUME NEW c \in KeyCache, NEW kid, NEW keys \in SUBSET (1 .. MaxKeys), NEW up \in BOOLEAN,
         NEW t \in Nat
  PROVE  Outcome(KeysFor(c, kid, keys, up, t), c, kid, keys, t)
  <1> DEFINE k == KeysFor(c, kid, keys, up, t)
             f == Fetched(c, keys, t)
             m == [c EXCEPT !.missedAt = t]
             g == Fetched(m, keys, t)
             n == [f EXCEPT !.missedAt = t]
             h == Fetched(n, keys, t)
  <1> SUFFICES Outcome(k, c, kid, keys, t)
    OBVIOUS
  <1>1. /\ f \in KeyCache /\ f.keys = keys /\ f.fetchedAt = t /\ f.missedAt = c.missedAt
        /\ m \in KeyCache /\ m.keys = c.keys /\ m.fetchedAt = c.fetchedAt /\ m.missedAt = t
    BY FetchedIs, MissedIs
  <1>2. \A d : Found(d, kid).cache = d
               /\ Found(d, kid).result = IF kid \in d.keys THEN "found" ELSE "no key"
    BY DEF Found
  <1>3. CASE ~IsStale(c, t)
    <2>1. k = IF kid \in c.keys \/ t - c.missedAt <= Backoff THEN Found(c, kid)
              ELSE IF ~up THEN [cache |-> m, result |-> "unavailable"] ELSE Found(g, kid)
      BY <1>3 DEF KeysFor, Missed
    <2>2. t - c.fetchedAt <= TTL
      BY <1>3, CookiesAssumption DEF IsStale, KeyCache
    <2> HIDE DEF m
    <2>3. g \in KeyCache /\ g.keys = keys /\ g.fetchedAt = t /\ g.missedAt = t
      BY <1>1, FetchedIs
    <2> HIDE DEF k, g
    <2>4. CASE k = Found(c, kid) /\ (kid \in c.keys \/ t - c.missedAt <= Backoff)
      BY <1>2, <2>2, <2>4, Zenon DEF Outcome
    <2>5. CASE k = [cache |-> m, result |-> "unavailable"]
      BY <1>1, <2>5 DEF Outcome
    <2>6. CASE k = Found(g, kid)
      BY <1>2, <2>3, <2>6, Zenon DEF Outcome
    <2> QED
      BY <2>1, <2>4, <2>5, <2>6
  <1>4. CASE IsStale(c, t) /\ up
    <2>1. k = Found(f, kid) \/ k = Found(h, kid)
      BY <1>4 DEF KeysFor, Missed
    <2> HIDE DEF f
    <2>2. n \in KeyCache /\ n.missedAt = t
      BY <1>1, MissedIs
    <2> HIDE DEF n, m, g, k
    <2>3. h \in KeyCache /\ h.keys = keys /\ h.fetchedAt = t /\ h.missedAt = t
      BY <2>2, FetchedIs
    <2> HIDE DEF h
    <2> QED
      BY <1>1, <1>2, <2>1, <2>3, Zenon DEF Outcome
  <1>5. CASE IsStale(c, t) /\ ~up
    <2>1. k = [cache |-> c, result |-> "unavailable"]
      BY <1>5 DEF KeysFor
    <2> HIDE DEF k
    <2> QED
      BY <2>1 DEF Outcome
  <1> QED
    BY <1>3, <1>4, <1>5

\* A request looks at the keys for bearer tokens, or leaves them alone.
Asks(p, kid, up) ==
    LET keys == KeysFor(bearerKeys[p], kid, published, up, now)
    IN  /\ bearerKeys' = [bearerKeys EXCEPT ![p] = keys.cache]
        /\ failedAt' = FailedAt(p, keys.result)
        /\ last' = IF keys.result = "found" THEN [result |-> "accepted", kid |-> kid]
                   ELSE IF keys.result = "no key" THEN [result |-> "refused", kid |-> kid, pod |-> p]
                   ELSE Nobody

AsksNot == UNCHANGED <<bearerKeys, failedAt>> /\ last'.result \in {"none", "session"}

\* A request asks one pod for at most one key.
LEMMA RequestAsks ==
  ASSUME NEW b, Request(b)
  PROVE  AsksNot \/ \E p \in Pods, kid \in 1 .. MaxKeys, up \in BOOLEAN : Asks(p, kid, up)
  <1>0. Nobody.result = "none"
    BY DEF Nobody
  <1>1. Rejected => AsksNot
    BY <1>0 DEF Rejected, AsksNot, keyVars
  <1>2. CASE BySession(b)
    BY <1>2 DEF BySession, AsksNot, keyVars
  <1>3. ASSUME NEW p \in Pods, NEW up \in BOOLEAN, NEW keysUp \in BOOLEAN, NEW size,
               Evaluate(b, p, up, keysUp, size)
        PROVE  AsksNot \/ \E kid \in 1 .. MaxKeys : Asks(p, kid, keysUp)
    <2>1. CASE ByRefresh(b, p, keysUp, size)
      BY <2>1 DEF ByRefresh, AsksNot
    <2>2. CASE Unauthenticated(b, p, up, keysUp, size)
      BY <1>0, <2>2 DEF Unauthenticated, AsksNot
    <2>3. CASE ByBind(b, p, up, keysUp, size)
      BY <1>0, <2>3 DEF ByBind, LogIn, AsksNot
    <2>4. ASSUME NEW kid \in 1 .. MaxKeys, ByBearer(b, p, kid, up, keysUp, size)
          PROVE  Asks(p, kid, keysUp)
      BY <2>4, Zenon DEF ByBearer, Asks
    <2> QED
      BY <1>3, <2>1, <2>2, <2>3, <2>4 DEF Evaluate
  <1>4. CASE ServeLogin(b)
    BY <1>0, <1>4 DEF ServeLogin, AsksNot, keyVars
  <1>5. ASSUME NEW provider, NEW up, ServeStart(b, provider, up) PROVE AsksNot
    BY <1>0, <1>1, <1>5, Zenon DEF ServeStart, AsksNot, keyVars
  <1>6. ASSUME NEW p, NEW token, NEW up, NEW keysUp, NEW size,
               Return(b, p, token, up, keysUp, size)
        PROVE  AsksNot
    <2>1. CASE ServeOIDCCallback(b, p, token, up, keysUp, size)
      BY <1>0, <1>1, <2>1 DEF ServeOIDCCallback, LogIn, AsksNot
    <2>2. CASE ServeSAMLACS(b, token, up, size)
      BY <1>0, <1>1, <2>2 DEF ServeSAMLACS, LogIn, AsksNot, keyVars
    <2>3. CASE \E bound \in BOOLEAN : ServeLDAPLogin(b, token, up, bound, size)
      BY <1>0, <1>1, <2>3 DEF ServeLDAPLogin, LogIn, AsksNot, keyVars
    <2> QED
      BY <1>6, <2>1, <2>2, <2>3 DEF Return
  <1>7. CASE ServeLogout(b) \/ \E up \in BOOLEAN : ServeSAMLSLO(b, up)
    BY <1>0, <1>1, <1>7 DEF ServeLogout, ServeSAMLSLO, Clear, AsksNot, keyVars
  <1> QED
    BY <1>2, <1>3, <1>4, <1>5, <1>6, <1>7 DEF Request
\* The key the provider signs with is the last of those it has published.
LEMMA SigningKeyIs == KeysTyped => SigningKey \in published /\ \A l \in published : l <= SigningKey
  BY Zenon DEF KeysTyped, SigningKey

\* A bearer token is checked: the keys of the pod stay in order, and what
\* the request gets is in keeping with them.
LEMMA AsksStep ==
  ASSUME BaseInv, KeysInv, NEW p \in Pods, NEW kid \in 1 .. MaxKeys, NEW up \in BOOLEAN,
         Asks(p, kid, up), UNCHANGED <<now, published, changedAt>>
  PROVE  KeysInv'
  <1> DEFINE c == bearerKeys[p]
             k == KeysFor(c, kid, published, up, now)
  <1>0. now \in Nat /\ TTL \in Nat /\ Backoff \in Nat
    BY CookiesAssumption DEF BaseInv, Typed
  <1>1. KeysTyped /\ c \in KeyCache /\ failedAt[p] \in Int
    BY DEF KeysInv, KeysTyped
  <1>2. Outcome(k, c, kid, published, now)
    BY <1>0, <1>1, KeysForIs DEF KeysTyped
  <1>3. /\ bearerKeys' = [bearerKeys EXCEPT ![p] = k.cache]
        /\ failedAt' = [failedAt EXCEPT ![p] = IF k.result = "unavailable" THEN now ELSE @]
        /\ last' = IF k.result = "found" THEN [result |-> "accepted", kid |-> kid]
                   ELSE IF k.result = "no key" THEN [result |-> "refused", kid |-> kid, pod |-> p]
                   ELSE Nobody
    BY Zenon DEF Asks, FailedAt
  <1> HIDE DEF k
  <1>4. KeysTyped'
    <2>1. k.cache \in KeyCache
      BY <1>2, Zenon DEF Outcome
    <2>2. bearerKeys' \in [Pods -> KeyCache]
      BY <1>1, <1>3, <2>1, Zenon DEF KeysTyped
    <2>3. failedAt' \in [Pods -> Int]
      <3>1. failedAt \in [Pods -> Int] /\ now \in Int
        BY <1>0, <1>1 DEF KeysTyped
      <3>2. failedAt' \in {failedAt, [failedAt EXCEPT ![p] = now]}
        BY <1>3, <3>1, Zenon
      <3> QED
        BY <3>1, <3>2
    <2>4. UNCHANGED <<published, changedAt>>
      OBVIOUS
    <2> QED
      BY <1>1, <2>2, <2>3, <2>4 DEF KeysTyped
  <1>5. /\ bearerKeys'[p] = k.cache
        /\ failedAt'[p] = IF k.result = "unavailable" THEN now ELSE failedAt[p]
        /\ \A q \in Pods \ {p} : bearerKeys'[q] = bearerKeys[q] /\ failedAt'[q] = failedAt[q]
    BY <1>1, <1>3, Zenon DEF KeysTyped
  <1>6. CacheOK(p)
    BY DEF KeysInv
  <1>7. \A n \in 1 .. MaxKeys : changedAt[n] \in Int
    BY <1>1 DEF KeysTyped
  <1>8. published \subseteq 1 .. MaxKeys /\ c.keys \subseteq 1 .. MaxKeys
          /\ c.missedAt \in Int /\ c.fetchedAt \in Int
    BY <1>1 DEF KeysTyped, KeyCache
  <1>9. /\ c.fetchedAt <= now /\ c.missedAt <= now /\ failedAt[p] <= now
        /\ \A n \in published \ c.keys : c.missedAt <= changedAt[n] \/ c.missedAt <= failedAt[p]
        /\ \A n \in c.keys \ published : c.fetchedAt <= changedAt[n]
    BY <1>6 DEF CacheOK
  <1> HIDE DEF c
  <1>10. CacheOK(p)'
    <2> DEFINE d == k.cache
    <2>1. CASE d = c
      <3>1. failedAt[p] <= failedAt'[p] /\ failedAt'[p] <= now /\ failedAt'[p] \in Int
        BY <1>0, <1>1, <1>5, <1>9
      <3>2. \A n \in published \ c.keys : c.missedAt <= changedAt[n] \/ c.missedAt <= failedAt'[p]
        BY <1>1, <1>8, <1>9, <3>1
      <3> QED
        BY <1>5, <1>9, <2>1, <3>1, <3>2 DEF CacheOK
    <2>2. CASE k.result = "unavailable" /\ d.keys = c.keys /\ d.fetchedAt = c.fetchedAt
                 /\ d.missedAt \in {c.missedAt, now}
      BY <1>0, <1>5, <1>8, <1>9, <2>2 DEF CacheOK
    <2>3. CASE d.keys = published /\ d.fetchedAt = now /\ d.missedAt \in {c.missedAt, now}
      <3>1. failedAt'[p] <= now
        BY <1>0, <1>5, <1>9
      <3> QED
        BY <1>0, <1>5, <1>8, <1>9, <2>3, <3>1 DEF CacheOK
    <2> QED
      BY <1>2, <2>1, <2>2, <2>3, Zenon DEF Outcome
  <1>11. \A q \in Pods \ {p} : CacheOK(q)'
    BY <1>5 DEF KeysInv, CacheOK
  <1>12. KeysFollowed'
    <2>1. CASE k.result = "found"
      <3>1. last'.result = "accepted" /\ last'.kid = kid
        BY <1>3, <2>1
      <3>2. ASSUME kid \notin published PROVE now <= changedAt[kid] + TTL
        <4>1. kid \in c.keys /\ now - c.fetchedAt <= TTL
          BY <1>2, <2>1, <3>2 DEF Outcome
        <4>2. c.fetchedAt <= changedAt[kid]
          BY <1>9, <3>2, <4>1
        <4> QED
          BY <1>0, <1>7, <1>8, <4>1, <4>2
      <3> QED
        BY <3>1, <3>2 DEF KeysFollowed
    <2>2. CASE k.result = "no key"
      <3>1. last'.result = "refused" /\ last'.kid = kid /\ last'.pod = p
        BY <1>3, <2>2, Zenon
      <3>2. ASSUME kid \in published
            PROVE  now <= changedAt[kid] + Backoff \/ now <= failedAt'[p] + Backoff
        <4>1. kid \notin c.keys /\ now - c.missedAt <= Backoff
          BY <1>2, <2>2, <3>2, Zenon DEF Outcome
        <4>2. c.missedAt <= changedAt[kid] \/ c.missedAt <= failedAt[p]
          BY <1>9, <3>2, <4>1
        <4>3. failedAt'[p] = failedAt[p]
          BY <1>5, <2>2, Zenon
        <4> QED
          BY <1>0, <1>1, <1>7, <1>8, <4>1, <4>2, <4>3
      <3> QED
        BY <3>1, <3>2 DEF KeysFollowed
    <2>3. CASE k.result \notin {"found", "no key"}
      <3>1. last'.result = "none"
        BY <1>3, <2>3, Zenon DEF Nobody
      <3> QED
        BY <3>1 DEF KeysFollowed
    <2> QED
      BY <2>1, <2>2, <2>3, Zenon
  <1> QED
    BY <1>4, <1>10, <1>11, <1>12 DEF KeysInv

\* Every step keeps the caches in order: keys come and go at the provider,
\* pods fetch, miss and fail to fetch, and the clock moves on.
LEMMA KeysStep == BaseInv /\ BaseInv' /\ KeysInv /\ [Next]_vars => KeysInv'
  <1> SUFFICES ASSUME BaseInv, BaseInv', KeysInv, [Next]_vars PROVE KeysInv'
    OBVIOUS
  <1>0. /\ now \in Nat /\ now' \in Nat /\ Backoff \in Nat
        /\ \A p \in Pods : bearerKeys[p] \in KeyCache /\ failedAt[p] \in Int
        /\ \A k \in 1 .. MaxKeys : changedAt[k] \in Nat
        /\ published \subseteq 1 .. MaxKeys
    BY CookiesAssumption, Zenon DEF BaseInv, Typed, KeysInv, KeysTyped
  <1>1. ASSUME UNCHANGED <<published, changedAt, bearerKeys, failedAt>>, now <= now'
        PROVE  KeysTyped' /\ \A p \in Pods : CacheOK(p)'
    <2>1. KeysTyped'
      BY <1>1 DEF KeysInv, KeysTyped
    <2>2. ASSUME NEW p \in Pods PROVE CacheOK(p)'
      <3>1. bearerKeys[p].fetchedAt \in Int /\ bearerKeys[p].missedAt \in Int
        BY <1>0 DEF KeyCache
      <3> QED
        BY <1>0, <1>1, <3>1 DEF KeysInv, CacheOK
    <2> QED
      BY <2>1, <2>2
  <1>2. last'.result \in {"none", "session"} => KeysFollowed'
    BY DEF KeysFollowed
  <1>3. Nobody.result = "none"
    BY DEF Nobody
  <1>4. ASSUME NEW b \in Browsers, Request(b) PROVE KeysInv'
    <2>1. UNCHANGED <<now, published, changedAt>>
      BY <1>4, RequestQuick DEF Quick
    <2>2. CASE AsksNot
      BY <1>0, <1>1, <1>2, <2>1, <2>2 DEF AsksNot, KeysInv
    <2>3. CASE \E p \in Pods, kid \in 1 .. MaxKeys, up \in BOOLEAN : Asks(p, kid, up)
      BY <2>1, <2>3, AsksStep
    <2> QED
      BY <1>4, <2>2, <2>3, RequestAsks
  <1>5. ASSUME NEW r \in flight, Deliver(r) \/ Lose(r) PROVE KeysInv'
    <2>1. UNCHANGED <<now, published, changedAt, bearerKeys, failedAt>> /\ last' = Nobody
      BY <1>5, Zenon DEF Deliver, Lose
    <2> QED
      BY <1>0, <1>1, <1>2, <1>3, <2>1 DEF KeysInv
  <1>6. ASSUME NEW keys \in SUBSET (1 .. MaxKeys), NEW k \in 1 .. MaxKeys, ChangeKeys(keys, k),
               \A l \in (1 .. MaxKeys) \ {k} : l \in keys <=> l \in published,
               \E m \in keys : \A l \in keys : l <= m
        PROVE  KeysInv'
    <2>1. /\ published' = keys /\ changedAt' = [changedAt EXCEPT ![k] = now]
          /\ UNCHANGED <<now, bearerKeys, failedAt>> /\ last' = Nobody
      BY <1>6 DEF ChangeKeys
    <2>2. /\ changedAt'[k] = now
          /\ \A l \in (1 .. MaxKeys) \ {k} : changedAt'[l] = changedAt[l]
      BY <2>1 DEF KeysInv, KeysTyped
    <2>3. KeysTyped'
      BY <1>0, <1>6, <2>1 DEF KeysInv, KeysTyped
    <2>4. ASSUME NEW p \in Pods PROVE CacheOK(p)'
      <3>1. /\ bearerKeys[p].keys \subseteq 1 .. MaxKeys
            /\ bearerKeys[p].fetchedAt \in Int /\ bearerKeys[p].missedAt \in Int
        BY <1>0 DEF KeyCache
      <3>2. CacheOK(p)
        BY DEF KeysInv
      <3> QED
        BY <1>0, <1>6, <2>1, <2>2, <3>1, <3>2 DEF CacheOK
    <2> QED
      BY <1>2, <1>3, <2>1, <2>3, <2>4 DEF KeysInv
  <1>7. KeysTyped /\ SigningKey \in 1 .. MaxKeys /\ MaxKeys \in Nat
    BY <1>0, SigningKeyIs, SessionsAssumption, Zenon DEF KeysInv
  <1>8. CASE PublishKey
    <2> DEFINE k == SigningKey + 1
               keys == published \cup {k}
    <2>1. k \in 1 .. MaxKeys /\ ChangeKeys(keys, k)
      BY <1>7, <1>8 DEF PublishKey
    <2>2. \A l \in keys : l <= k
      BY <1>0, <1>7, SigningKeyIs
    <2> HIDE DEF k
    <2>3. keys \in SUBSET (1 .. MaxKeys) /\ k \in keys
      BY <1>0, <2>1
    <2>4. \A l \in (1 .. MaxKeys) \ {k} : l \in keys <=> l \in published
      OBVIOUS
    <2> HIDE DEF keys
    <2> QED
      BY <1>6, <2>1, <2>2, <2>3, <2>4
  <1>9. ASSUME NEW k \in published, RetireKey(k) PROVE KeysInv'
    <2> DEFINE keys == published \ {k}
    <2>1. k \in 1 .. MaxKeys /\ ChangeKeys(keys, k) /\ k # SigningKey
      BY <1>0, <1>9 DEF RetireKey
    <2>2. SigningKey \in keys /\ \A l \in keys : l <= SigningKey
      BY <1>7, <2>1, SigningKeyIs
    <2>3. keys \in SUBSET (1 .. MaxKeys)
      BY <1>0
    <2>4. \A l \in (1 .. MaxKeys) \ {k} : l \in keys <=> l \in published
      OBVIOUS
    <2> HIDE DEF keys
    <2> QED
      BY <1>6, <2>1, <2>2, <2>3, <2>4
  <1>10. ASSUME NEW p \in Pods, Reload(p) PROVE KeysInv'
    <2>1. /\ bearerKeys' = [bearerKeys EXCEPT ![p] = NoKeys] /\ last' = Nobody
          /\ UNCHANGED <<now, published, changedAt, failedAt>>
      BY <1>10 DEF Reload, providerVars
    <2>2. /\ NoKeys \in KeyCache /\ NoKeys.keys = {} /\ NoKeys.fetchedAt = 0
          /\ NoKeys.missedAt = -Backoff - 1
      BY <1>0 DEF NoKeys, KeyCache
    <2> HIDE DEF NoKeys
    <2>3. KeysTyped'
      BY <2>1, <2>2 DEF KeysInv, KeysTyped
    <2>4. /\ bearerKeys'[p] = NoKeys
          /\ \A q \in Pods \ {p} : bearerKeys'[q] = bearerKeys[q]
      BY <2>1 DEF KeysInv, KeysTyped
    <2>5. CacheOK(p)'
      BY <1>0, <2>1, <2>2, <2>4 DEF KeysInv, CacheOK
    <2>6. \A q \in Pods \ {p} : CacheOK(q)'
      BY <2>1, <2>4 DEF KeysInv, CacheOK
    <2> QED
      BY <1>2, <1>3, <2>1, <2>3, <2>5, <2>6 DEF KeysInv
  <1>11. CASE Tick
    <2>1. /\ UNCHANGED <<published, changedAt, bearerKeys, failedAt>> /\ last' = Nobody
          /\ now' = now + 1
      BY <1>11 DEF Tick
    <2> QED
      BY <1>0, <1>1, <1>2, <1>3, <2>1 DEF KeysInv
  <1>12. CASE UNCHANGED vars
    <2>1. UNCHANGED <<now, published, changedAt, bearerKeys, failedAt, last>>
      BY <1>12 DEF vars, providerVars, keyVars
    <2> QED
      BY <1>0, <1>1, <2>1 DEF KeysInv, KeysFollowed
  <1> QED
    BY <1>4, <1>5, <1>8, <1>9, <1>10, <1>11, <1>12 DEF Next

\* A published key is refused at most one window after it was published or
\* the provider was last out of reach, and a retired one is accepted no
\* longer than keys are kept, for any tokens, keys, pods and outages
\* (keysFor, missedAt and the stale check).
THEOREM SigningKeysFollowed == Spec => []KeysFollowed
  <1>1. Init => KeysInv
    <2> SUFFICES ASSUME Init PROVE KeysInv
      OBVIOUS
    <2>1. /\ NoKeys \in KeyCache /\ NoKeys.keys = {} /\ NoKeys.fetchedAt = 0
          /\ NoKeys.missedAt = -Backoff - 1
      BY CookiesAssumption DEF NoKeys, KeyCache
    <2>2. /\ now = 0 /\ published = {1} /\ changedAt = [k \in 1 .. MaxKeys |-> 0]
          /\ bearerKeys = [p \in Pods |-> NoKeys]
          /\ failedAt = [p \in Pods |-> -Backoff - 1] /\ last = Nobody
      BY DEF Init
    <2> HIDE DEF NoKeys
    <2>3. KeysTyped
      BY <2>1, <2>2, CookiesAssumption, SessionsAssumption DEF KeysTyped
    <2>4. \A p \in Pods : CacheOK(p)
      BY <2>1, <2>2, CookiesAssumption, SessionsAssumption DEF CacheOK
    <2>5. KeysFollowed
      BY <2>2 DEF KeysFollowed, Nobody
    <2> QED
      BY <2>3, <2>4, <2>5 DEF KeysInv
  <1>2. KeysInv => KeysFollowed
    BY DEF KeysInv
  <1> QED
    BY <1>1, <1>2, BaseInit, BaseStep, KeysStep, PTL DEF Spec
-----------------------------------------------------------------------------
\* What requests do to the grants of the provider: nothing, a refresh in
\* vain, a refresh, and the redemption of a code.
Mints(t) ==
    sealed' = sealed \/ \E s \in SessionSet : sealed' = Append(sealed, s) /\ s.refresh = t

Accepted(b, n) ==
    /\ n \in DOMAIN sealed /\ Holds(b, n) /\ sealed[n].refresh # NoToken
    /\ sealed[n].refresh.turn = current[sealed[n].refresh.grant]

KeepsGrants == UNCHANGED <<current, redeemed, lost>> /\ Mints(NoToken)

InVain(b, n) ==
    /\ Accepted(b, n) /\ Rotate(n) /\ redeemed' = redeemed
    /\ lost' = [lost EXCEPT ![b] = TRUE] /\ Mints(NoToken)

Renews(b, n) ==
    /\ Accepted(b, n) /\ Rotate(n) /\ UNCHANGED <<redeemed, lost>>
    /\ \E s \in SessionSet :
          /\ sealed' = Append(sealed, s) /\ s.refresh.grant = sealed[n].refresh.grant
          /\ s.refresh.turn = IF scenario.rotates THEN sealed[n].refresh.turn + 1
                              ELSE sealed[n].refresh.turn

Redeems(token) ==
    /\ token \in DOMAIN tokens /\ token \notin redeemed /\ redeemed' = redeemed \cup {token}
    /\ lost' = lost
    /\ \/ current' = current /\ sealed' = sealed
       \/ /\ current' = [g \in DOMAIN current \cup {token} |-> IF g = token THEN 1 ELSE current[g]]
          /\ Mints([grant |-> token, turn |-> 1])

Granted(b) ==
    \/ KeepsGrants
    \/ \E n : InVain(b, n) \/ Renews(b, n)
    \/ \E token : Redeems(token)

\* A request that is turned away leaves the grants alone.
LEMMA RejectedGrants == ASSUME Rejected, NEW b PROVE Granted(b)
  BY DEF Rejected, NoCookies, Granted, KeepsGrants, Mints

\* A request without a session leaves the grants, or spends a refresh token.
LEMMA NoSessionGrants ==
  ASSUME BaseInv, NEW b \in Browsers, NEW p, NEW up, NEW keysUp, NEW size,
         NoSession(b, p, up, keysUp, size), redeemed' = redeemed, Mints(NoToken)
  PROVE  Granted(b)
  <1> DEFINE n == OpenSession(b)
  <1>1. CASE UNCHANGED <<current, lost>>
    BY <1>1 DEF Granted, KeepsGrants
  <1>2. CASE n # 0 /\ Exchanges(n, up) /\ Rotate(n) /\ lost' = [lost EXCEPT ![b] = TRUE]
    <2>1. n \in DOMAIN sealed /\ Holds(b, n)
      BY <1>2, OpenOwn DEF BaseInv
    <2>2. sealed[n].refresh # NoToken /\ sealed[n].refresh.turn = current[sealed[n].refresh.grant]
      BY <1>2 DEF Exchanges
    <2> HIDE DEF n
    <2>3. InVain(b, n)
      BY <1>2, <2>1, <2>2 DEF InVain, Accepted
    <2> QED
      BY <2>3 DEF Granted
  <1> QED
    BY <1>1, <1>2 DEF NoSession

\* A login mints a session with the token it was given.
LEMMA LogInMints ==
  ASSUME NEW b, NEW s, NEW consumed, LogIn(b, s, consumed), s.size <= MaxChunks => s \in SessionSet
  PROVE  Mints(s.refresh)
  BY DEF LogIn, Mints

\* A page request uses a grant only through refreshIfNeeded.
LEMMA EvaluateGrants ==
  ASSUME BaseInv, NEW b \in Browsers, NEW p \in Pods, NEW up \in BOOLEAN,
         NEW keysUp \in BOOLEAN, NEW size \in scenario.sizes,
         Evaluate(b, p, up, keysUp, size)
  PROVE  Granted(b)
  <1>0. size \in Nat \ {0} /\ Typed /\ CookiesOK
    BY SizesPositive DEF BaseInv
  <1>1. CASE ByRefresh(b, p, keysUp, size)
    <2> DEFINE n == OpenSession(b)
    <2>1. /\ size <= MaxChunks /\ n # 0 /\ Exchanges(n, TRUE) /\ Rotate(n)
          /\ sealed' = Append(sealed, Refreshed(n, size)) /\ UNCHANGED <<redeemed, lost>>
      BY <1>1, Zenon DEF ByRefresh
    <2>2. n \in DOMAIN sealed /\ Holds(b, n)
      BY <1>0, <2>1, OpenOwn
    <2>3. size \in Slots
      BY <1>0, <2>1, CookiesAssumption DEF Slots
    <2>4. sealed[n].refresh # NoToken /\ sealed[n].refresh.turn = current[sealed[n].refresh.grant]
      BY <2>1 DEF Exchanges
    <2> HIDE DEF n
    <2> DEFINE s == Refreshed(n, size)
    <2>5. /\ s \in SessionSet /\ s.refresh.grant = sealed[n].refresh.grant
          /\ s.refresh.turn = IF scenario.rotates THEN sealed[n].refresh.turn + 1
                              ELSE sealed[n].refresh.turn
      BY <1>0, <2>2, <2>3, RefreshedKeeps
    <2>6. sealed' = Append(sealed, s)
      BY <2>1
    <2> HIDE DEF s
    <2>7. Renews(b, n)
      BY <2>1, <2>2, <2>4, <2>5, <2>6 DEF Renews, Accepted
    <2> QED
      BY <2>7 DEF Granted
  <1>2. CASE Unauthenticated(b, p, up, keysUp, size)
    <2>1. NoSession(b, p, up, keysUp, size) /\ redeemed' = redeemed /\ Mints(NoToken)
      BY <1>2, Zenon DEF Unauthenticated, NoCookies, Mints
    <2> QED
      BY <2>1, NoSessionGrants
  <1>3. CASE ByBind(b, p, up, keysUp, size)
    <2> DEFINE s == Session(b, "ldap", 0, NoToken, size, 0)
    <2>1. /\ NoSession(b, p, up, keysUp, size) /\ redeemed' = redeemed
          /\ LogIn(b, s, NoChange)
      BY <1>3 DEF ByBind
    <2>2. (s.size <= MaxChunks => s \in SessionSet) /\ s.refresh = NoToken
      BY <1>0, OtherFresh
    <2> HIDE DEF s
    <2>3. Mints(NoToken)
      BY <2>1, <2>2, LogInMints
    <2> QED
      BY <2>1, <2>3, NoSessionGrants
  <1>4. ASSUME NEW kid, ByBearer(b, p, kid, up, keysUp, size) PROVE Granted(b)
    <2>1. NoSession(b, p, up, keysUp, size) /\ redeemed' = redeemed /\ Mints(NoToken)
      BY <1>4, Zenon DEF ByBearer, NoCookies, Mints
    <2> QED
      BY <2>1, NoSessionGrants
  <1> QED
    BY <1>1, <1>2, <1>3, <1>4 DEF Evaluate

\* A callback redeems its code once, and opens one grant.
LEMMA ReturnGrants ==
  ASSUME BaseInv, NEW b \in Browsers, NEW p \in Pods, NEW token \in DOMAIN tokens,
         NEW up \in BOOLEAN, NEW keysUp \in BOOLEAN, NEW size \in scenario.sizes,
         Return(b, p, token, up, keysUp, size)
  PROVE  Granted(b)
  <1>0. /\ size \in Nat \ {0} /\ token \in Nat /\ now + TokenLifetime \in Int
        /\ Typed
    BY SizesPositive, SessionsAssumption DEF BaseInv, Typed
  <1>1. CASE Rejected
    BY <1>1, RejectedGrants
  <1>2. CASE ServeOIDCCallback(b, p, token, up, keysUp, size) /\ ~Rejected
    <2> DEFINE t == [grant |-> token, turn |-> 1]
               s == Session(b, "oidc", now + TokenLifetime, t, size, token)
    <2>1. t \in [grant : Nat, turn : Nat]
      BY <1>0
    <2>2. (s.size <= MaxChunks => s \in SessionSet) /\ s.refresh = t
      BY <1>0, <2>1, SessionFresh
    <2>3. /\ token \notin redeemed /\ redeemed' = redeemed \cup {token} /\ lost' = lost
          /\ \/ NoCookies /\ current' = current
             \/ /\ current' = [g \in DOMAIN current \cup {token} |->
                                  IF g = token THEN 1 ELSE current[g]]
                /\ LogIn(b, s, ClearState)
      BY <1>2 DEF ServeOIDCCallback
    <2> HIDE DEF s
    <2>4. LogIn(b, s, ClearState) => Mints(t)
      BY <2>2, LogInMints
    <2>5. NoCookies => sealed' = sealed
      BY DEF NoCookies
    <2>6. Redeems(token)
      BY <2>3, <2>4, <2>5 DEF Redeems
    <2> QED
      BY <2>6 DEF Granted
  <1>3. ASSUME NEW provider \in {"saml", "ldap"},
               LogIn(b, Session(b, provider, 0, NoToken, size, token), ClearState),
               UNCHANGED <<redeemed, current, lost>>
        PROVE  Granted(b)
    <2> DEFINE s == Session(b, provider, 0, NoToken, size, token)
    <2>1. (s.size <= MaxChunks => s \in SessionSet) /\ s.refresh = NoToken
      BY <1>0, OtherFresh
    <2>2. LogIn(b, s, ClearState)
      BY <1>3
    <2> HIDE DEF s
    <2>3. Mints(NoToken)
      BY <2>1, <2>2, LogInMints
    <2> QED
      BY <1>3, <2>3 DEF Granted, KeepsGrants
  <1>4. CASE ServeSAMLACS(b, token, up, size) /\ ~Rejected
    BY <1>3, <1>4, Zenon DEF ServeSAMLACS
  <1>5. ASSUME NEW bound \in BOOLEAN, ServeLDAPLogin(b, token, up, bound, size), ~Rejected
        PROVE  Granted(b)
    BY <1>3, <1>5 DEF ServeLDAPLogin
  <1> QED
    BY <1>1, <1>2, <1>4, <1>5 DEF Return

\* Whatever a request is, it treats the grants so.
LEMMA RequestGrants ==
  ASSUME BaseInv, NEW b \in Browsers, Request(b) PROVE Granted(b)
  <1>1. UNCHANGED <<current, redeemed, lost, sealed>> => Granted(b)
    BY DEF Granted, KeepsGrants, Mints
  <1>2. CASE BySession(b)
    BY <1>1, <1>2 DEF BySession, NoCookies
  <1>3. CASE ServeLogin(b)
    BY <1>1, <1>3 DEF ServeLogin
  <1>4. ASSUME NEW provider, NEW up, ServeStart(b, provider, up) PROVE Granted(b)
    BY <1>1, <1>4, RejectedGrants, Zenon DEF ServeStart
  <1>5. CASE ServeLogout(b) \/ \E up \in BOOLEAN : ServeSAMLSLO(b, up)
    BY <1>1, <1>5, RejectedGrants DEF ServeLogout, ServeSAMLSLO, Clear
  <1> QED
    BY <1>2, <1>3, <1>4, <1>5, EvaluateGrants, ReturnGrants DEF Request
\* Sealing one session adds it at the end.
LEMMA SealedGrows ==
  ASSUME Typed, NEW s \in SessionSet, sealed' = Append(sealed, s)
  PROVE  /\ DOMAIN sealed' = DOMAIN sealed \cup {Len(sealed) + 1}
         /\ Len(sealed) + 1 \notin DOMAIN sealed /\ sealed'[Len(sealed) + 1] = s
         /\ \A n \in DOMAIN sealed : sealed'[n] = sealed[n]
  <1>1. ASSUME NEW T, sealed \in Seq(T), NEW t \in T, sealed' = Append(sealed, t)
        PROVE  /\ DOMAIN sealed' = DOMAIN sealed \cup {Len(sealed) + 1}
               /\ Len(sealed) + 1 \notin DOMAIN sealed /\ sealed'[Len(sealed) + 1] = t
               /\ \A n \in DOMAIN sealed : sealed'[n] = sealed[n]
    BY <1>1, AppendProperties
  <1> QED
    BY <1>1 DEF Typed

\* The refresh token of a session, as pairs of numbers.
LEMMA RefreshTyped ==
  ASSUME Typed, NEW n \in DOMAIN sealed
  PROVE  /\ sealed[n].refresh \in [grant : Nat, turn : Nat]
         /\ sealed[n].refresh.grant \in Nat /\ sealed[n].refresh.turn \in Nat
  <1>1. sealed[n] \in SessionSet
    BY DEF Typed
  <1> QED
    BY <1>1 DEF SessionSet

\* The provider takes the refresh token, and accepts the next one from then.
LEMMA Rotated ==
  ASSUME Typed, Turns, NEW b, NEW n, Accepted(b, n), Rotate(n)
  PROVE  LET g == sealed[n].refresh.grant
         IN  /\ g \in DOMAIN current /\ DOMAIN current' = DOMAIN current
             /\ current' = [h \in DOMAIN current' |-> current'[h]]
             /\ current'[g] = IF scenario.rotates THEN current[g] + 1 ELSE current[g]
             /\ \A h \in DOMAIN current : h # g => current'[h] = current[h]
             /\ \A h \in DOMAIN current : current'[h] \in Nat /\ current[h] <= current'[h]
  <1> DEFINE g == sealed[n].refresh.grant
  <1>1. g \in DOMAIN current /\ n \in DOMAIN sealed
    BY DEF Accepted, Turns
  <1>2. /\ current = [h \in DOMAIN current |-> current[h]]
        /\ \A h \in DOMAIN current : current[h] \in Nat
    BY DEF Turns
  <1>3. current' = IF scenario.rotates THEN [current EXCEPT ![g] = @ + 1] ELSE current
    BY DEF Rotate
  <1> HIDE DEF g
  <1>4. /\ DOMAIN current' = DOMAIN current
        /\ current' = [h \in DOMAIN current' |-> current'[h]]
        /\ current'[g] = IF scenario.rotates THEN current[g] + 1 ELSE current[g]
        /\ \A h \in DOMAIN current : h # g => current'[h] = current[h]
    BY <1>1, <1>2, <1>3
  <1>5. \A h \in DOMAIN current : current'[h] \in Nat /\ current[h] <= current'[h]
    BY <1>1, <1>2, <1>4
  <1> QED
    BY <1>1, <1>4, <1>5 DEF g

\* The tokens of the sessions that were sealed before stay in order when the
\* provider's counters only grow, and not at all if it does not rotate.
Ordered(n) ==
    sealed[n].refresh # NoToken =>
       /\ sealed[n].refresh.grant \in DOMAIN current
       /\ sealed[n].refresh.turn <= current[sealed[n].refresh.grant]
       /\ ~scenario.rotates => sealed[n].refresh.turn = current[sealed[n].refresh.grant]

\* A session stays at or before the current turn of its grant.
LEMMA OrderedKept ==
  ASSUME Typed, Turns, NEW n \in DOMAIN sealed, sealed'[n] = sealed[n], scenario' = scenario,
         DOMAIN current \subseteq DOMAIN current',
         \A h \in DOMAIN current : current'[h] \in Nat /\ current[h] <= current'[h],
         ~scenario.rotates => \A h \in DOMAIN current : current'[h] = current[h]
  PROVE  Ordered(n)'
  <1> DEFINE g == sealed[n].refresh.grant
             u == sealed[n].refresh.turn
  <1>1. sealed'[n].refresh = sealed[n].refresh
    OBVIOUS
  <1>2. g \in Nat /\ u \in Nat
    BY RefreshTyped
  <1>3. ASSUME sealed[n].refresh # NoToken
        PROVE  /\ g \in DOMAIN current' /\ u <= current'[g]
               /\ ~scenario.rotates => u = current'[g]
    <2>1. /\ g \in DOMAIN current /\ u <= current[g] /\ current[g] \in Nat
          /\ ~scenario.rotates => u = current[g]
      BY <1>3 DEF Turns
    <2> HIDE DEF g, u
    <2> QED
      BY <1>2, <2>1
  <1> QED
    BY <1>1, <1>3 DEF Ordered
\* A new session carries the token that is accepted now, and no other does.
Current(s) ==
    s.refresh # NoToken =>
       /\ s.refresh.grant \in DOMAIN current' /\ s.refresh.turn = current'[s.refresh.grant]
       /\ scenario.rotates => \A m \in DOMAIN sealed : sealed[m].refresh # s.refresh

Advances ==
    /\ DOMAIN current \subseteq DOMAIN current'
    /\ \A h \in DOMAIN current : current'[h] \in Nat /\ current[h] <= current'[h]
    /\ ~scenario.rotates => \A h \in DOMAIN current : current'[h] = current[h]
    /\ sealed' = sealed \/ \E s \in SessionSet : sealed' = Append(sealed, s) /\ Current(s)

\* Opening a grant, or taking its next turn, keeps the turns in order.
LEMMA TurnsAdvance ==
  ASSUME Typed, Turns, scenario' = scenario, Advances,
         redeemed' \subseteq DOMAIN tokens', DOMAIN current' \subseteq {0} \cup redeemed',
         current' = [g \in DOMAIN current' |-> current'[g]],
         \A g \in DOMAIN current' : current'[g] \in Nat
  PROVE  Turns'
  <1>1. ASSUME NEW n \in DOMAIN sealed, sealed'[n] = sealed[n] PROVE Ordered(n)'
    BY <1>1, OrderedKept DEF Advances
  <1>2. CASE sealed' = sealed
    <2>1. \A n \in DOMAIN sealed' : Ordered(n)'
      BY <1>1, <1>2
    <2>2. scenario.rotates => \A n, m \in DOMAIN sealed' :
            sealed'[n].refresh = sealed'[m].refresh /\ sealed'[n].refresh # NoToken => n = m
      BY <1>2 DEF Turns
    <2> QED
      BY <2>1, <2>2 DEF Turns, Ordered
  <1>3. ASSUME NEW s \in SessionSet, sealed' = Append(sealed, s), Current(s) PROVE Turns'
    <2>1. PICK N : /\ DOMAIN sealed' = DOMAIN sealed \cup {N} /\ N \notin DOMAIN sealed
                   /\ sealed'[N] = s /\ \A n \in DOMAIN sealed : sealed'[n] = sealed[n]
      BY <1>3, SealedGrows
    <2>2. Ordered(N)'
      <3>1. s.refresh.turn \in Nat
        BY DEF SessionSet
      <3> QED
        BY <1>3, <2>1, <3>1 DEF Ordered, Current
    <2>3. \A n \in DOMAIN sealed' : Ordered(n)'
      BY <1>1, <2>1, <2>2
    <2>4. ASSUME scenario.rotates, NEW n \in DOMAIN sealed', NEW m \in DOMAIN sealed',
                 sealed'[n].refresh = sealed'[m].refresh, sealed'[n].refresh # NoToken
          PROVE  n = m
      <3>1. CASE n = N /\ m # N
        BY <1>3, <2>1, <2>4, <3>1 DEF Current
      <3>2. CASE n # N /\ m = N
        BY <1>3, <2>1, <2>4, <3>2 DEF Current
      <3>3. CASE n # N /\ m # N
        BY <2>1, <2>4, <3>3 DEF Turns
      <3> QED
        BY <3>1, <3>2, <3>3
    <2> QED
      BY <2>3, <2>4 DEF Turns, Ordered
  <1> QED
    BY <1>2, <1>3 DEF Advances

\* Every request advances the grants.
LEMMA GrantedAdvances ==
  ASSUME BaseInv, Turns, NEW b, Granted(b) PROVE Advances
  <1>0. Typed /\ \A h \in DOMAIN current : current[h] \in Nat
    BY DEF BaseInv, Turns
  <1>1. Mints(NoToken) =>
          sealed' = sealed \/ \E s \in SessionSet : sealed' = Append(sealed, s) /\ Current(s)
    BY DEF Mints, Current
  <1>2. CASE KeepsGrants
    BY <1>0, <1>1, <1>2 DEF KeepsGrants, Advances
  <1>3. ASSUME NEW n, InVain(b, n) PROVE Advances
    <2>1. Accepted(b, n) /\ Rotate(n)
      BY <1>3 DEF InVain
    <2> DEFINE g == sealed[n].refresh.grant
    <2>2. /\ g \in DOMAIN current /\ DOMAIN current' = DOMAIN current
          /\ current'[g] = IF scenario.rotates THEN current[g] + 1 ELSE current[g]
          /\ \A h \in DOMAIN current : h # g => current'[h] = current[h]
          /\ \A h \in DOMAIN current : current'[h] \in Nat /\ current[h] <= current'[h]
      BY <1>0, <2>1, Rotated
    <2> HIDE DEF g
    <2> QED
      BY <1>1, <1>3, <2>2 DEF InVain, Advances
  <1>4. ASSUME NEW n, Renews(b, n) PROVE Advances
    <2>1. Accepted(b, n) /\ Rotate(n)
      BY <1>4 DEF Renews
    <2> DEFINE g == sealed[n].refresh.grant
               u == sealed[n].refresh.turn
    <2>2. /\ g \in DOMAIN current /\ DOMAIN current' = DOMAIN current
          /\ current'[g] = IF scenario.rotates THEN current[g] + 1 ELSE current[g]
          /\ \A h \in DOMAIN current : h # g => current'[h] = current[h]
          /\ \A h \in DOMAIN current : current'[h] \in Nat /\ current[h] <= current'[h]
      BY <1>0, <2>1, Rotated
    <2>3. n \in DOMAIN sealed /\ u = current[g]
      BY <2>1 DEF Accepted
    <2>4. PICK s \in SessionSet :
            /\ sealed' = Append(sealed, s) /\ s.refresh.grant = g
            /\ s.refresh.turn = IF scenario.rotates THEN u + 1 ELSE u
      BY <1>4 DEF Renews
    <2>5. ASSUME scenario.rotates, NEW m \in DOMAIN sealed, sealed[m].refresh = s.refresh
          PROVE  sealed[m].refresh = NoToken
      <3>1. sealed[m].refresh # NoToken => sealed[m].refresh.turn <= current[sealed[m].refresh.grant]
        BY DEF Turns
      <3>2. sealed[m].refresh.grant = g /\ sealed[m].refresh.turn = u + 1
        BY <2>4, <2>5
      <3> HIDE DEF g, u
      <3> QED
        BY <1>0, <2>2, <2>3, <3>1, <3>2
    <2> HIDE DEF g, u
    <2>6. Current(s)
      BY <2>2, <2>3, <2>4, <2>5 DEF Current
    <2> QED
      BY <2>2, <2>4, <2>6 DEF Advances
  <1>5. ASSUME NEW token, Redeems(token) PROVE Advances
    <2>1. CASE current' = current /\ sealed' = sealed
      BY <1>0, <2>1 DEF Advances
    <2>2. CASE /\ current' = [g \in DOMAIN current \cup {token} |-> IF g = token THEN 1 ELSE current[g]]
               /\ Mints([grant |-> token, turn |-> 1])
      <3>1. token \notin DOMAIN current
        BY <1>0, <1>5 DEF Redeems, Turns, Typed
      <3>2. /\ DOMAIN current' = DOMAIN current \cup {token} /\ current'[token] = 1
            /\ \A h \in DOMAIN current : current'[h] = current[h]
        BY <2>2, <3>1
      <3>3. ASSUME NEW s \in SessionSet, s.refresh = [grant |-> token, turn |-> 1]
            PROVE  Current(s)
        <4>1. s.refresh.grant = token /\ s.refresh.turn = 1
          BY <3>3
        <4>2. ASSUME NEW m \in DOMAIN sealed, sealed[m].refresh = s.refresh
              PROVE  sealed[m].refresh = NoToken
          BY <3>1, <4>1, <4>2 DEF Turns
        <4> QED
          BY <3>2, <4>1, <4>2 DEF Current
      <3> QED
        BY <1>0, <2>2, <3>2, <3>3 DEF Advances, Mints
    <2> QED
      BY <1>5, <2>1, <2>2 DEF Redeems
  <1> QED
    BY <1>2, <1>3, <1>4, <1>5 DEF Granted

\* Every step keeps the turns in order.
LEMMA TurnsStep == BaseInv /\ Turns /\ [Next]_vars => Turns'
  <1> SUFFICES ASSUME BaseInv, Turns, [Next]_vars PROVE Turns'
    OBVIOUS
  <1>0. Grown /\ Typed
    BY CookiesStep DEF BaseInv
  <1>1. ASSUME UNCHANGED <<sealed, tokens, redeemed, current, scenario>> PROVE Turns'
    BY <1>1 DEF Turns
  <1>2. ASSUME NEW b \in Browsers, Request(b) PROVE Turns'
    <2>1. Granted(b) /\ Advances /\ scenario' = scenario
      BY <1>2, RequestGrants, GrantedAdvances, RequestQuick DEF Quick
    <2>2. /\ redeemed \subseteq DOMAIN tokens' /\ DOMAIN tokens \subseteq DOMAIN tokens'
          /\ DOMAIN current \subseteq {0} \cup redeemed
          /\ current = [g \in DOMAIN current |-> current[g]]
          /\ \A g \in DOMAIN current : current[g] \in Nat
      BY <1>0 DEF Grown, Turns
    <2>3. /\ redeemed' \subseteq DOMAIN tokens' /\ DOMAIN current' \subseteq {0} \cup redeemed'
          /\ current' = [g \in DOMAIN current' |-> current'[g]]
          /\ \A g \in DOMAIN current' : current'[g] \in Nat
      <3>1. CASE KeepsGrants
        BY <2>2, <3>1 DEF KeepsGrants
      <3>2. ASSUME NEW n, Accepted(b, n), Rotate(n), redeemed' = redeemed
            PROVE  /\ redeemed' \subseteq DOMAIN tokens' /\ DOMAIN current' \subseteq {0} \cup redeemed'
                   /\ current' = [g \in DOMAIN current' |-> current'[g]]
                   /\ \A g \in DOMAIN current' : current'[g] \in Nat
        BY <1>0, <2>2, <3>2, Rotated
      <3>3. ASSUME NEW token, Redeems(token)
            PROVE  /\ redeemed' \subseteq DOMAIN tokens' /\ DOMAIN current' \subseteq {0} \cup redeemed'
                   /\ current' = [g \in DOMAIN current' |-> current'[g]]
                   /\ \A g \in DOMAIN current' : current'[g] \in Nat
        <4>1. token \in DOMAIN tokens /\ redeemed' = redeemed \cup {token}
          BY <3>3 DEF Redeems
        <4>2. CASE current' = current
          BY <2>2, <4>1, <4>2
        <4>3. CASE current' = [g \in DOMAIN current \cup {token} |-> IF g = token THEN 1 ELSE current[g]]
          <5>1. /\ DOMAIN current' = DOMAIN current \cup {token}
                /\ \A g \in DOMAIN current' : current'[g] = IF g = token THEN 1 ELSE current[g]
            BY <4>3
          <5>2. current' = [g \in DOMAIN current' |-> current'[g]]
            BY <4>3, <5>1
          <5> QED
            BY <2>2, <4>1, <5>1, <5>2
        <4> QED
          BY <3>3, <4>2, <4>3 DEF Redeems
      <3> QED
        BY <2>1, <3>1, <3>2, <3>3 DEF Granted, InVain, Renews
    <2> QED
      BY <1>0, <2>1, <2>3, TurnsAdvance
  <1>3. CASE Outside
    BY <1>1, <1>3, OutsideSeals, Zenon
       DEF Outside, Deliver, Lose, PublishKey, RetireKey, ChangeKeys, Reload, Tick, Quiet,
           providerVars
  <1>4. CASE UNCHANGED vars
    BY <1>1, <1>4 DEF vars, providerVars
  <1> QED
    BY <1>2, <1>3, <1>4 DEF Next, Outside

\* Only the session that is refreshed is overtaken: its browser gets another
\* one, or the refresh is in vain.
LEMMA Overtaken ==
  ASSUME BaseInv, Turns, NEW b \in Browsers, Granted(b),
         NEW m \in DOMAIN sealed, ~Outdated(m), sealed[m].refresh # NoToken,
         sealed[m].refresh.turn # current'[sealed[m].refresh.grant]
  PROVE  Holds(b, m) /\ (lost'[b] \/ \E s \in SessionSet : sealed' = Append(sealed, s))
  <1> DEFINE t == sealed[m].refresh
  <1>0. /\ Typed /\ t \in [grant : Nat, turn : Nat] /\ t.grant \in DOMAIN current
        /\ t.turn = current[t.grant]
    BY RefreshTyped DEF BaseInv, Turns, Outdated
  <1>1. CASE KeepsGrants
    BY <1>0, <1>1, Zenon DEF KeepsGrants
  <1>2. ASSUME NEW n, Accepted(b, n), Rotate(n) PROVE Holds(b, m)
    <2> DEFINE u == sealed[n].refresh
    <2>1. /\ DOMAIN current' = DOMAIN current
          /\ current'[u.grant] = IF scenario.rotates THEN current[u.grant] + 1 ELSE current[u.grant]
          /\ \A h \in DOMAIN current : h # u.grant => current'[h] = current[h]
      BY <1>0, <1>2, Rotated
    <2>2. n \in DOMAIN sealed /\ Holds(b, n) /\ u.turn = current[u.grant]
      BY <1>2 DEF Accepted
    <2>3. u \in [grant : Nat, turn : Nat]
      BY <1>0, <2>2, RefreshTyped
    <2>4. t.grant = u.grant /\ scenario.rotates
      BY <1>0, <2>1
    <2>5. t = u
      BY <1>0, <2>2, <2>3, <2>4
    <2>6. m = n
      BY <2>2, <2>4, <2>5 DEF Turns
    <2> QED
      BY <2>2, <2>6
  <1>3. ASSUME NEW n, InVain(b, n) PROVE lost'[b] /\ Holds(b, m)
    <2>1. lost'[b]
      BY <1>0, <1>3 DEF InVain, Typed
    <2> QED
      BY <1>2, <1>3, <2>1 DEF InVain
  <1>4. ASSUME NEW n, Renews(b, n)
        PROVE  Holds(b, m) /\ \E s \in SessionSet : sealed' = Append(sealed, s)
    BY <1>2, <1>4 DEF Renews
  <1>5. ASSUME NEW token, Redeems(token) PROVE FALSE
    <2>1. token \notin DOMAIN current
      BY <1>0, <1>5 DEF Redeems, Turns, Typed
    <2>2. current'[t.grant] = current[t.grant]
      BY <1>0, <1>5, <2>1 DEF Redeems
    <2> QED
      BY <1>0, <2>2
  <1> QED
    BY <1>1, <1>3, <1>4, <1>5, Zenon DEF Granted
\* At most one response is sent, and it is the one that carries a session
\* that was sealed.
LEMMA AnsweredFlight ==
  ASSUME BaseInv, NEW b \in Browsers, Answered(b)
  PROVE  /\ flight \subseteq flight'
         /\ \A q, r \in flight' \ flight : q = r
         /\ \A r \in flight' \ flight :
               r.session \in DOMAIN sealed' => r.to = b /\ r.session \notin DOMAIN sealed
         /\ \A s \in SessionSet : sealed' = Append(sealed, s) =>
               \E r \in flight' : r.to = b /\ r.session \in DOMAIN sealed'
  <1>0. Typed /\ \A n \in DOMAIN sealed : n \in Nat \ {0}
    BY DEF BaseInv, Typed
  <1>1. ASSUME sealed' = sealed, NEW s \in SessionSet PROVE sealed' # Append(sealed, s)
    <2> SUFFICES ASSUME sealed' = Append(sealed, s) PROVE FALSE
      OBVIOUS
    <2>1. Len(sealed) + 1 \in DOMAIN sealed' /\ Len(sealed) + 1 \notin DOMAIN sealed
      BY <1>0, SealedGrows
    <2> QED
      BY <1>1, <2>1
  <1>2. CASE Still
    BY <1>1, <1>2 DEF Still
  <1>3. ASSUME NEW set, NEW session, Sends(b, set, session)
        PROVE  /\ flight \subseteq flight' /\ \A q, r \in flight' \ flight : q = r
               /\ \A r \in flight' \ flight : r.to = b /\ r.session = session
               /\ \E r \in flight' : r.to = b /\ r.session = session
    <2> DEFINE a == Answer(b, set, session)
    <2>1. a.to = b /\ a.session = session
      BY DEF Answer
    <2>2. flight' = flight \cup {a}
      BY <1>3 DEF Sends
    <2> HIDE DEF a
    <2> QED
      BY <2>1, <2>2
  <1>4. ASSUME NEW set, Plain(b, set) PROVE sealed' = sealed /\ Sends(b, set, Unknown)
    BY <1>4 DEF Plain
  <1>5. CASE \E set : Plain(b, set)
    BY <1>0, <1>1, <1>3, <1>4, <1>5 DEF Unknown
  <1>6. CASE Clears(b)
    BY <1>0, <1>1, <1>3, <1>6 DEF Clears
  <1>7. ASSUME NEW s, NEW consumed, Seals(b, s, consumed)
        PROVE  /\ flight \subseteq flight' /\ \A q, r \in flight' \ flight : q = r
               /\ \A r \in flight' \ flight : r.to = b /\ r.session \notin DOMAIN sealed
               /\ \E r \in flight' : r.to = b /\ r.session \in DOMAIN sealed'
    <2>1. /\ sealed' = Append(sealed, s) /\ s \in SessionSet
          /\ Sends(b, Both(SealSession(jar[b], Len(sealed) + 1, s.size), consumed), Len(sealed) + 1)
      BY <1>7 DEF Seals
    <2>2. Len(sealed) + 1 \in DOMAIN sealed' /\ Len(sealed) + 1 \notin DOMAIN sealed
      BY <1>0, <2>1, SealedGrows
    <2> QED
      BY <1>3, <2>1, <2>2
  <1> QED
    BY <1>2, <1>5, <1>6, <1>7, Zenon DEF Answered

\* A new session is the one the provider accepts.
LEMMA NewCurrent ==
  ASSUME BaseInv, Advances, NEW m \in DOMAIN sealed' \ DOMAIN sealed PROVE ~Outdated(m)'
  <1>1. Typed
    BY DEF BaseInv
  <1>2. ASSUME NEW s \in SessionSet, sealed' = Append(sealed, s), Current(s) PROVE ~Outdated(m)'
    <2>1. sealed'[m] = s
      BY <1>1, <1>2, SealedGrows
    <2> QED
      BY <1>2, <2>1 DEF Outdated, Current
  <1> QED
    BY <1>2 DEF Advances

\* Whoever has a session has one of its own.
LEMMA HoldsOwn ==
  ASSUME BaseInv, NEW b \in Browsers, NEW n, Holds(b, n)
  PROVE  n \in DOMAIN sealed /\ sealed[n].browser = b
  BY SlotNames DEF Holds, BaseInv, CookiesOK, JarOK

\* A request that refreshes an old session sends its successor after it.
LEMMA PursuedRequest ==
  ASSUME BaseInv, Turns, Pursued, NEW b \in Browsers, Request(b) PROVE Pursued'
  <1>1. Answered(b) /\ Draws /\ Granted(b) /\ Advances /\ jar' = jar
    BY RequestAnswers, RequestGrants, GrantedAdvances, RequestQuick DEF Quick
  <1>2. Grown
    BY <1>1, AnsweredGrows DEF BaseInv
  <1>3. lost' \in {lost, [lost EXCEPT ![b] = TRUE]} /\ lost \in [Browsers -> BOOLEAN]
    BY RequestQuick DEF Quick, BaseInv, Typed
  <1>4. \A c \in Browsers : ~lost'[c] => ~lost[c]
    BY <1>3
  <1>5. \A c, n : Holds(c, n)' <=> Holds(c, n)
    BY <1>1 DEF Holds
  <1>6. ASSUME NEW m \in DOMAIN sealed, ~Outdated(m), Outdated(m)'
        PROVE  Holds(b, m) /\ (lost'[b] \/ \E s \in SessionSet : sealed' = Append(sealed, s))
    <2>1. /\ sealed[m].refresh # NoToken
          /\ sealed[m].refresh.turn # current'[sealed[m].refresh.grant]
      BY <1>2, <1>6 DEF Grown, Outdated
    <2> QED
      BY <1>1, <1>6, <2>1, Overtaken
  <1>7. ASSUME NEW r \in flight, r.session \in DOMAIN sealed' PROVE r.session \in DOMAIN sealed
    <2>1. AnswerOK(r)
      BY DEF BaseInv, CookiesOK
    <2>2. r.session # Unknown /\ r.session # 0
      <3>1. Typed'
        BY SealedStep DEF Next
      <3> QED
        BY <1>7, <3>1 DEF Typed, Unknown
    <2> QED
      BY <2>1, <2>2 DEF AnswerOK
  <1>8. ASSUME NEW r \in flight', r.session \in DOMAIN sealed'
        PROVE  /\ ~Outdated(r.session)'
               /\ \A c \in Browsers : ~Holds(c, r.session)
               /\ \A q \in flight' : q.session = r.session => q = r
    <2>1. CASE r \in flight
      <3>1. r.session \in DOMAIN sealed
        BY <1>7, <1>8, <2>1
      <3>2. /\ ~Outdated(r.session) /\ \A c \in Browsers : ~Holds(c, r.session)
            /\ \A q \in flight : q.session = r.session => q = r
        BY <2>1, <3>1 DEF Pursued
      <3>3. ~Outdated(r.session)'
        <4> SUFFICES ASSUME NEW m, m = r.session, Outdated(m)' PROVE FALSE
          OBVIOUS
        <4> QED
          BY <1>6, <3>1, <3>2
      <3>4. ASSUME NEW q \in flight' \ flight, q.session = r.session PROVE FALSE
        BY <1>1, <1>8, <3>1, <3>4, AnsweredFlight
      <3> QED
        BY <3>2, <3>3, <3>4
    <2>2. CASE r \notin flight
      <3>1. r.session \notin DOMAIN sealed
        BY <1>1, <1>8, <2>2, AnsweredFlight
      <3>2. ~Outdated(r.session)'
        BY <1>1, <1>8, <3>1, NewCurrent
      <3>3. \A c \in Browsers : ~Holds(c, r.session)
        BY <3>1, HoldsOwn
      <3>4. ASSUME NEW q \in flight', q.session = r.session PROVE q = r
        <4>1. q \notin flight
          BY <1>7, <1>8, <3>1, <3>4
        <4> QED
          BY <1>1, <2>2, <4>1, AnsweredFlight
      <3> QED
        BY <3>2, <3>3, <3>4
    <2> QED
      BY <2>1, <2>2
  <1>9. ASSUME NEW c \in Browsers, NEW m \in DOMAIN sealed', Holds(c, m), Outdated(m)', ~lost'[c]
        PROVE  \E r \in flight' : r.to = c /\ r.session \in DOMAIN sealed'
    <2>1. m \in DOMAIN sealed /\ sealed[m].browser = c
      BY <1>9, HoldsOwn
    <2>2. CASE Outdated(m)
      <3>1. PICK r \in flight : r.to = c /\ r.session \in DOMAIN sealed
        BY <1>4, <1>9, <2>1, <2>2 DEF Pursued
      <3> QED
        BY <1>1, <1>2, <3>1, AnsweredFlight DEF Grown
    <2>3. CASE ~Outdated(m)
      <3>1. Holds(b, m) /\ (lost'[b] \/ \E s \in SessionSet : sealed' = Append(sealed, s))
        BY <1>6, <1>9, <2>1, <2>3
      <3>2. b = c
        BY <2>1, <3>1, HoldsOwn
      <3> QED
        BY <1>1, <1>9, <3>1, <3>2, AnsweredFlight
    <2> QED
      BY <2>2, <2>3
  <1> QED
    BY <1>5, <1>8, <1>9 DEF Pursued
\* A response that arrives leaves the first chunk, expires it, or replaces
\* it by that of its own session.
LEMMA DeliveredFirst ==
  ASSUME BaseInv, NEW r \in flight, Deliver(r), NEW m, Holds(r.to, m)'
  PROVE  \/ r.session = Unknown /\ Holds(r.to, m)
         \/ r.session \in DOMAIN sealed /\ m = r.session
  <1> DEFINE b == r.to
             c == ChunkName[1]
  <1>1. AnswerOK(r) /\ b \in Browsers /\ JarOK(b)
    BY DEF BaseInv, CookiesOK, AnswerOK
  <1>2. jar'[b] = Apply(r.set, jar[b])
    BY <1>1 DEF BaseInv, Typed, Deliver
  <1>3. c \in DOMAIN jar[b]
    BY <1>1, SlotNames DEF JarOK
  <1>4. jar'[b][c] = IF c \in DOMAIN r.set THEN r.set[c] ELSE jar[b][c]
    BY <1>2, <1>3 DEF Apply
  <1>5. jar'[b][c] # NoCookie /\ jar'[b][c].session = m
    BY DEF Holds
  <1>6. CASE r.session = Unknown /\ SetsNone(r)
    BY <1>4, <1>5, <1>6, SlotNames DEF SetsNone, Holds
  <1>7. CASE r.session = 0 /\ SetsCleared(r)
    BY <1>4, <1>5, <1>7, SlotNames DEF SetsCleared
  <1>8. CASE r.session \in DOMAIN sealed /\ SetsSealed(r, sealed[r.session].size)
    <2>1. sealed[r.session] \in SessionSet
      BY <1>8 DEF BaseInv, Typed
    <2>2. 1 \in 1 .. sealed[r.session].size
      BY <2>1, CookiesAssumption DEF SessionSet, Slots
    <2>3. c \in DOMAIN r.set /\ r.set[c] = Part(r.session, 1)
      BY <1>8, <2>2 DEF SetsSealed
    <2>4. r.set[c].session = r.session
      BY <2>3 DEF Part
    <2> QED
      BY <1>4, <1>5, <1>8, <2>3, <2>4
  <1> QED
    BY <1>1, <1>6, <1>7, <1>8 DEF AnswerOK

\* Every step keeps the pursuit: the successor is on its way until it
\* arrives, or is lost and the browser is marked so.
LEMMA PursuedStep == BaseInv /\ Turns /\ Pursued /\ [Next]_vars => Pursued'
  <1> SUFFICES ASSUME BaseInv, Turns, Pursued, [Next]_vars PROVE Pursued'
    OBVIOUS
  <1>1. ASSUME NEW b \in Browsers, Request(b) PROVE Pursued'
    BY <1>1, PursuedRequest
  <1>2. ASSUME NEW r \in flight, Deliver(r) PROVE Pursued'
    <2>1. /\ flight' = flight \ {r} /\ UNCHANGED <<sealed, current, lost>>
          /\ jar' = [jar EXCEPT ![r.to] = Apply(r.set, @)]
      BY <1>2 DEF Deliver, Quiet
    <2>2. \A m : Outdated(m)' <=> Outdated(m)
      BY <2>1 DEF Outdated
    <2>3. \A c \in Browsers \ {r.to} : \A m : Holds(c, m)' <=> Holds(c, m)
      BY <2>1 DEF Holds, BaseInv, Typed
    <2>4. Unknown \notin DOMAIN sealed
      BY DEF BaseInv, Typed, Unknown
    <2>5. ASSUME NEW q \in flight', q.session \in DOMAIN sealed
          PROVE  /\ ~Outdated(q.session) /\ \A c \in Browsers : ~Holds(c, q.session)'
                 /\ \A p \in flight' : p.session = q.session => p = q
      <3>1. /\ q \in flight /\ q # r /\ ~Outdated(q.session)
            /\ \A c \in Browsers : ~Holds(c, q.session)
            /\ \A p \in flight : p.session = q.session => p = q
        BY <2>1, <2>5 DEF Pursued
      <3>2. ASSUME NEW m, m = q.session, Holds(r.to, m)', r.to \in Browsers PROVE FALSE
        BY <1>2, <3>1, <3>2, DeliveredFirst, Zenon
      <3>3. \A c \in Browsers : ~Holds(c, q.session)'
        BY <2>3, <3>1, <3>2
      <3> QED
        BY <2>1, <3>1, <3>3
    <2>6. ASSUME NEW c \in Browsers, NEW m \in DOMAIN sealed, Holds(c, m)', Outdated(m), ~lost[c]
          PROVE  \E q \in flight' : q.to = c /\ q.session \in DOMAIN sealed
      <3>1. CASE c # r.to
        BY <2>1, <2>3, <2>6, <3>1 DEF Pursued
      <3>2. CASE c = r.to
        <4>1. CASE r.session = Unknown /\ Holds(c, m)
          BY <2>1, <2>4, <2>6, <4>1 DEF Pursued
        <4>2. CASE r.session \in DOMAIN sealed /\ m = r.session
          BY <2>6, <4>2 DEF Pursued
        <4> QED
          BY <1>2, <2>6, <3>2, <4>1, <4>2, DeliveredFirst, SMTT(30)
      <3> QED
        BY <3>1, <3>2
    <2> QED
      BY <2>1, <2>2, <2>5, <2>6 DEF Pursued
  <1>3. ASSUME NEW r \in flight, Lose(r) PROVE Pursued'
    <2>1. /\ flight' = flight \ {r} /\ UNCHANGED <<sealed, current, jar>>
          /\ lost' = [lost EXCEPT ![r.to] = TRUE]
      BY <1>3 DEF Lose, Quiet
    <2>2. \A m : Outdated(m)' <=> Outdated(m)
      BY <2>1 DEF Outdated
    <2>3. \A c, m : Holds(c, m)' <=> Holds(c, m)
      BY <2>1 DEF Holds
    <2>4. \A c \in Browsers : ~lost'[c] => ~lost[c] /\ c # r.to
      BY <2>1 DEF BaseInv, Typed
    <2>5. ASSUME NEW c \in Browsers, NEW m \in DOMAIN sealed, Holds(c, m), Outdated(m), ~lost'[c]
          PROVE  \E q \in flight' : q.to = c /\ q.session \in DOMAIN sealed
      BY <2>1, <2>4, <2>5 DEF Pursued
    <2> QED
      BY <2>1, <2>2, <2>3, <2>5 DEF Pursued
  <1>4. ASSUME UNCHANGED <<flight, sealed, current, jar, lost>> PROVE Pursued'
    BY <1>4 DEF Pursued, Outdated, Holds
  <1>5. ASSUME PublishKey \/ (\E k \in published : RetireKey(k)) \/ (\E p \in Pods : Reload(p))
                 \/ Tick \/ UNCHANGED vars
        PROVE  UNCHANGED <<flight, sealed, current, jar, lost>>
    BY <1>5, Zenon DEF PublishKey, RetireKey, ChangeKeys, Reload, Tick, Quiet, browserVars,
                providerVars, vars
  <1> QED
    BY <1>1, <1>2, <1>3, <1>4, <1>5 DEF Next

\* Initially the browser that is logged in has the current refresh token.
LEMMA GrantsInit == Init => Turns /\ Pursued
  <1> SUFFICES ASSUME Init PROVE Turns /\ Pursued
    OBVIOUS
  <1>1. /\ tokens = <<>> /\ redeemed = {} /\ current = [g \in {0} |-> 1] /\ flight = {}
    BY Zenon DEF Init
  <1>2. PICK b \in Browsers : sealed = IF "page" \in scenario.may[b] THEN <<LoggedIn(b)>> ELSE <<>>
    BY DEF Init
  <1>3. LoggedIn(b).refresh.grant = 0 /\ LoggedIn(b).refresh.turn = 1
    BY DEF LoggedIn
  <1>4. \A n \in DOMAIN sealed : n = 1 /\ sealed[n] = LoggedIn(b)
    BY <1>2
  <1>5. DOMAIN current = {0} /\ current[0] = 1
    BY <1>1
  <1> HIDE DEF LoggedIn
  <1>6. \A n \in DOMAIN sealed : Ordered(n) /\ ~Outdated(n)
    BY <1>3, <1>4, <1>5 DEF Ordered, Outdated
  <1>7. Turns
    BY <1>1, <1>4, <1>5, <1>6 DEF Turns, Ordered
  <1>8. Pursued
    BY <1>1, <1>6 DEF Pursued
  <1> QED
    BY <1>7, <1>8

\* Once all responses have arrived, the refresh token in a browser's session
\* is the one the provider accepts, however many requests tried to refresh
\* at once and in whatever order their responses came, unless one was lost
\* or a refresh failed after the exchange (Refresh, refreshIfNeeded).
THEOREM RefreshTokensCurrent == Spec => []RefreshCurrent
  <1>1. BaseInv /\ Pursued => RefreshCurrent
    <2> SUFFICES ASSUME BaseInv, Pursued, NEW b \in Browsers,
                        Decrypted(jar[b], SizeOf) # 0, ~lost[b], \A r \in flight : r.to # b
                 PROVE  ~Outdated(Decrypted(jar[b], SizeOf))
      BY DEF RefreshCurrent, Outdated
    <2> DEFINE n == Decrypted(jar[b], SizeOf)
    <2>1. Holds(b, n)
      BY DecryptedFirst DEF Holds
    <2> HIDE DEF n
    <2>2. n \in DOMAIN sealed
      BY <2>1, HoldsOwn
    <2>3. ~Outdated(n)
      BY <2>1, <2>2 DEF Pursued
    <2> QED
      BY <2>3 DEF n
  <1> QED
    BY <1>1, BaseInit, BaseStep, GrantsInit, TurnsStep, PursuedStep, PTL DEF Spec
=============================================================================
