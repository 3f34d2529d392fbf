--------------------------- MODULE SessionsProofs ----------------------------
(***************************************************************************)
(* Logins and sessions, for any browsers, pods, lifetimes and requests.    *)
(***************************************************************************)
EXTENDS Sessions, SequenceTheorems, TLAPS

Slots == 1 .. MaxChunks

Part(n, i) == [session |-> n, part |-> i]

\* What a login or a refresh seals.
SessionSet ==
    [provider : {"oidc", "saml", "ldap"}, expiresAt : Int, tokenExpiresAt : Int,
     refresh : [grant : Nat, turn : Nat], size : Slots, login : Int, browser : Browsers,
     token : Nat]

StateSet == [form : Nat, oidc : Nat, saml : Nat, expires : Int]

Typed ==
    /\ now \in Nat /\ scenario \in Scenarios
    /\ sealed \in Seq(SessionSet)
    /\ tokens \in Seq([browser : Browsers, use : {"form", "oidc", "saml"}])
    /\ DOMAIN jar = Browsers
    /\ lost \in [Browsers -> BOOLEAN]

\* Refresh keeps the expiry that the login gave a session.
Capped == \A n \in DOMAIN sealed : sealed[n].expiresAt = sealed[n].login + Lifetime

\* The state of a login under way holds tokens drawn for its browser.
Begun(b, state) ==
    /\ state \in StateSet
    /\ \A use \in {"form", "oidc", "saml"} :
          state[use] # 0 => state[use] \in DOMAIN tokens /\ tokens[state[use]].browser = b

\* A browser has chunks of its own sessions, and states of its own logins.
JarOK(b) ==
    /\ DOMAIN jar[b] = ChunkNames \cup {"state"}
    /\ \A i \in Slots : jar[b][ChunkName[i]] # NoCookie =>
          LET n == jar[b][ChunkName[i]].session
          IN  n \in DOMAIN sealed /\ sealed[n].browser = b
    /\ jar[b]["state"] # NoCookie => Begun(b, jar[b]["state"])

\* A response on its way leaves the chunks alone, expires the first one, or
\* sets those of one session and expires what its browser had beyond.
SetsNone(r) == \A i \in Slots : ChunkName[i] \notin DOMAIN r.set

SetsCleared(r) ==
    /\ ChunkName[1] \in DOMAIN r.set
    /\ \A i \in Slots : ChunkName[i] \in DOMAIN r.set => r.set[ChunkName[i]] = NoCookie

SetsSealed(r, size) ==
    /\ \A i \in 1 .. size : ChunkName[i] \in DOMAIN r.set
                             /\ r.set[ChunkName[i]] = Part(r.session, i)
    /\ \A i \in size + 1 .. MaxChunks :
          /\ ChunkName[i] \in DOMAIN r.set => r.set[ChunkName[i]] = NoCookie
          /\ ChunkName[i] \notin DOMAIN r.set => r.had[ChunkName[i]] = NoCookie

AnswerOK(r) ==
    /\ r.to \in Browsers
    /\ \/ r.session = Unknown /\ SetsNone(r)
       \/ r.session = 0 /\ SetsCleared(r)
       \/ /\ r.session \in DOMAIN sealed /\ sealed[r.session].browser = r.to
          /\ SetsSealed(r, sealed[r.session].size)
    /\ "state" \in DOMAIN r.set /\ r.set["state"] # NoCookie => Begun(r.to, r.set["state"])

CookiesOK == (\A b \in Browsers : JarOK(b)) /\ (\A r \in flight : AnswerOK(r))

\* The token of a session was drawn.
Drawn == \A n \in DOMAIN sealed : sealed[n].token # 0 => sealed[n].token \in DOMAIN tokens

BaseInv == Typed /\ Capped /\ Drawn /\ FlowBound /\ CookiesOK /\ SessionCapped

\* The browser has the first chunk of session n.
Holds(b, n) == jar[b][ChunkName[1]] # NoCookie /\ jar[b][ChunkName[1]].session = n

SettledInv == settled \in [Browsers -> Int] /\ LatestKept

-----------------------------------------------------------------------------
\* The names of the chunks differ from each other and from the state's.
LEMMA SlotNames ==
  /\ \A i, k \in Slots : ChunkName[i] = ChunkName[k] => i = k
  /\ \A i \in Slots : ChunkName[i] # "state" /\ ChunkName[i] \in ChunkNames
  /\ \A c \in ChunkNames : \E i \in Slots : c = ChunkName[i]
  /\ 1 \in Slots
  BY CookiesAssumption DEF Slots, ChunkName, ChunkNames

\* A chunk is a cookie.
LEMMA PartReal == \A n, i : Part(n, i) # NoCookie
  <1> SUFFICES ASSUME NEW n, NEW i, Part(n, i) = NoCookie PROVE FALSE
    OBVIOUS
  <1>1. DOMAIN Part(n, i) = {"session", "part"}
    BY DEF Part
  <1>2. DOMAIN NoCookie = {"none"}
    BY DEF NoCookie
  <1> QED
    BY <1>1, <1>2

\* What SealSession sets: the chunks of the session, and the end of those
\* beyond that the browser had.
LEMMA SealSets ==
  ASSUME NEW j, NEW n, NEW size \in Slots
  PROVE  LET set == SealSession(j, n, size)
         IN  /\ DOMAIN set \subseteq ChunkNames
             /\ \A i \in 1 .. size : /\ ChunkName[i] \in DOMAIN set
                                     /\ set[ChunkName[i]] = Part(n, i)
             /\ \A i \in size + 1 .. MaxChunks :
                   /\ ChunkName[i] \in DOMAIN set => set[ChunkName[i]] = NoCookie
                   /\ ChunkName[i] \notin DOMAIN set => j[ChunkName[i]] = NoCookie
  <1> DEFINE stale == Stale(j, size + 1)
             first == {ChunkName[i] : i \in 1 .. size}
             set == SealSession(j, n, size)
  <1>1. size \in 1 .. MaxChunks /\ MaxChunks \in 1 .. 4
    BY CookiesAssumption DEF Slots
  <1>2. \A i \in 1 .. size : i \in Slots
    BY <1>1 DEF Slots
  <1>3. \A i \in size + 1 .. MaxChunks : i \in Slots
    BY <1>1 DEF Slots
  <1>4. stale \subseteq {ChunkName[i] : i \in size + 1 .. MaxChunks}
    BY DEF Stale
  <1>5. \A i \in 1 .. size : ChunkName[i] \notin stale
    BY <1>1, <1>2, <1>3, <1>4, SlotNames
  <1>6. \A i \in size + 1 .. MaxChunks : ChunkName[i] \notin first
    BY <1>1, <1>2, <1>3, SlotNames
  <1>7. DOMAIN set = first \cup stale
    BY DEF SealSession
  <1>8. ASSUME NEW i \in 1 .. size PROVE set[ChunkName[i]] = Part(n, i)
    <2>1. (CHOOSE k \in 1 .. size : ChunkName[k] = ChunkName[i]) = i
      BY <1>2, SlotNames
    <2>2. set[ChunkName[i]] =
            Chunks(n, size)[CHOOSE k \in 1 .. size : ChunkName[k] = ChunkName[i]]
      BY <1>5, Zenon DEF SealSession
    <2> QED
      BY <2>1, <2>2, Zenon DEF Chunks, Part
  <1>9. ASSUME NEW i \in size + 1 .. MaxChunks
        PROVE  /\ ChunkName[i] \in DOMAIN set => set[ChunkName[i]] = NoCookie
               /\ ChunkName[i] \notin DOMAIN set => j[ChunkName[i]] = NoCookie
    <2>1. ChunkName[i] \in DOMAIN set <=> ChunkName[i] \in stale
      BY <1>6, <1>7
    <2>2. ChunkName[i] \in stale => set[ChunkName[i]] = NoCookie
      BY <1>7 DEF SealSession
    <2>3. ChunkName[i] \notin stale => j[ChunkName[i]] = NoCookie
      BY DEF Stale
    <2> QED
      BY <2>1, <2>2, <2>3
  <1> HIDE DEF stale, first, set
  <1>10. DOMAIN set \subseteq ChunkNames
    BY <1>2, <1>3, <1>4, <1>7, SlotNames DEF first
  <1> QED
    BY <1>7, <1>8, <1>9, <1>10 DEF set, first

\* What ClearSession sets: the end of the first chunk, and of others.
LEMMA ClearSets ==
  ASSUME NEW j
  PROVE  LET set == ClearSession(j)
         IN  /\ DOMAIN set \subseteq ChunkNames /\ ChunkName[1] \in DOMAIN set
             /\ \A c \in DOMAIN set : set[c] = NoCookie
  <1>1. Stale(j, 2) \subseteq ChunkNames
    BY CookiesAssumption, SlotNames DEF Stale, Slots
  <1> QED
    BY <1>1, SlotNames DEF ClearSession

-----------------------------------------------------------------------------
\* How many chunks OpenSession joins: all up to the first that is missing.
Full(j, m) == \A i \in 1 .. m : j[ChunkName[i]] # NoCookie

Count(j, m) == m \in 0 .. MaxChunks /\ Full(j, m) /\ (m < MaxChunks => ~Full(j, m + 1))

\* The chunks of a jar end somewhere.
LEMMA JoinedSome == \A j : \E m : Count(j, m)
  <1> SUFFICES ASSUME NEW j, \A m : ~Count(j, m) PROVE FALSE
    OBVIOUS
  <1>1. MaxChunks \in {1, 2, 3, 4}
    BY CookiesAssumption
  <1>2. Full(j, 0)
    BY DEF Full
  <1>3. Full(j, 1)
    BY <1>1, <1>2 DEF Count
  <1>4. MaxChunks > 1 /\ Full(j, 2)
    BY <1>1, <1>3 DEF Count
  <1>5. MaxChunks > 2 /\ Full(j, 3)
    BY <1>1, <1>4 DEF Count
  <1>6. MaxChunks > 3 /\ Full(j, 4)
    BY <1>1, <1>5 DEF Count
  <1> QED
    BY <1>1, <1>6 DEF Count

\* joinChunks reads up to there.
LEMMA JoinedIs ==
  ASSUME NEW j, NEW m, Count(j, m)
  PROVE  Joined(j) = [i \in 1 .. m |-> j[ChunkName[i]]]
  <1> DEFINE Q(k) == Full(j, k) /\ (k < MaxChunks => ~Full(j, k + 1))
             count == CHOOSE k \in 0 .. MaxChunks : Q(k)
  <1>1. MaxChunks \in Nat
    BY CookiesAssumption
  <1>2. m \in 0 .. MaxChunks /\ Q(m)
    BY DEF Count
  <1>3. count \in 0 .. MaxChunks /\ Q(count)
    BY <1>2
  <1> HIDE DEF count
  <1>4. ~(count < m)
    <2> SUFFICES ASSUME count < m PROVE FALSE
      OBVIOUS
    <2>1. \A i \in 1 .. count + 1 : i \in 1 .. m
      BY <1>1, <1>2, <1>3
    <2>2. Full(j, count + 1)
      BY <1>2, <2>1 DEF Full
    <2> QED
      BY <1>1, <1>2, <1>3, <2>2
  <1>5. ~(m < count)
    <2> SUFFICES ASSUME m < count PROVE FALSE
      OBVIOUS
    <2>1. \A i \in 1 .. m + 1 : i \in 1 .. count
      BY <1>1, <1>2, <1>3
    <2>2. Full(j, m + 1)
      BY <1>3, <2>1 DEF Full
    <2> QED
      BY <1>1, <1>2, <1>3, <2>2
  <1>6. count = m
    BY <1>1, <1>2, <1>3, <1>4, <1>5
  <1>7. Joined(j) = [i \in 1 .. count |-> j[ChunkName[i]]]
    BY DEF Joined, count, Full
  <1> QED
    BY <1>6, <1>7

\* A session that can be read is the one of the first chunk.
LEMMA DecryptedFirst ==
  ASSUME NEW j, NEW sizes, Decrypted(j, sizes) # 0
  PROVE  j[ChunkName[1]] # NoCookie /\ Decrypted(j, sizes) = j[ChunkName[1]].session
  BY DEF Decrypted

\* Without a first chunk there is no session.
LEMMA DecryptedNone ==
  ASSUME NEW j, NEW sizes, j[ChunkName[1]] = NoCookie
  PROVE  Decrypted(j, sizes) = 0
  BY DEF Decrypted

\* It depends on the chunks alone, and on the size of their session.
LEMMA DecryptedSame ==
  ASSUME NEW j, NEW k, NEW sizes, NEW other,
         \A i \in Slots : k[ChunkName[i]] = j[ChunkName[i]],
         j[ChunkName[1]] # NoCookie =>
            other[j[ChunkName[1]].session] = sizes[j[ChunkName[1]].session]
  PROVE  Decrypted(k, other) = Decrypted(j, sizes)
  <1>1. Joined(k) = Joined(j)
    <2>1. PICK m : Count(j, m)
      BY JoinedSome
    <2>2. \A i \in 1 .. m : i \in Slots
      BY <2>1, CookiesAssumption DEF Slots, Count
    <2>3. m < MaxChunks => \A i \in 1 .. m + 1 : i \in Slots
      BY <2>1, CookiesAssumption DEF Slots, Count
    <2>4. Full(k, m)
      BY <2>1, <2>2 DEF Count, Full
    <2>5. m < MaxChunks => ~Full(k, m + 1)
      BY <2>1, <2>3 DEF Count, Full
    <2>6. Count(k, m)
      BY <2>1, <2>4, <2>5 DEF Count
    <2>7. Joined(j) = [i \in 1 .. m |-> j[ChunkName[i]]]
      BY <2>1, JoinedIs
    <2>8. Joined(k) = [i \in 1 .. m |-> k[ChunkName[i]]]
      BY <2>6, JoinedIs
    <2> QED
      BY <2>2, <2>7, <2>8
  <1> QED
    BY <1>1, SlotNames DEF Decrypted

\* The chunks of one session and no others are read as that session.
LEMMA DecryptedSealed ==
  ASSUME NEW j, NEW n, NEW size \in Slots, NEW sizes, sizes[n] = size,
         \A i \in 1 .. size : j[ChunkName[i]] = Part(n, i),
         \A i \in size + 1 .. MaxChunks : j[ChunkName[i]] = NoCookie
  PROVE  Decrypted(j, sizes) = n
  <1>1. size \in 1 .. MaxChunks /\ MaxChunks \in Nat
    BY CookiesAssumption DEF Slots
  <1>2. Count(j, size)
    <2>1. Full(j, size)
      BY PartReal DEF Full
    <2>2. size < MaxChunks => ~Full(j, size + 1)
      BY <1>1 DEF Full
    <2> QED
      BY <1>1, <2>1, <2>2 DEF Count
  <1>3. Joined(j) = [i \in 1 .. size |-> j[ChunkName[i]]]
    BY <1>2, JoinedIs
  <1>4. Joined(j) = Chunks(n, size)
    BY <1>3 DEF Chunks, Part
  <1>5. j[ChunkName[1]] = Part(n, 1)
    BY <1>1
  <1>6. j[ChunkName[1]] # NoCookie /\ j[ChunkName[1]].session = n
    BY <1>5, PartReal DEF Part
  <1> QED
    BY <1>4, <1>6 DEF Decrypted
-----------------------------------------------------------------------------
\* What requests do to cookies.

Answer(b, set, session) ==
    [id |-> sent, to |-> b, had |-> ChunksOf(b), set |-> set, session |-> session]

Sends(b, set, session) ==
    flight' = flight \cup {Answer(b, set, session)} /\ UNCHANGED <<jar, settled>>

\* Nothing, a response about a login under way, one that clears the session,
\* and one that carries a new session.
Still == UNCHANGED <<jar, flight, settled, sealed>>

Plain(b, set) ==
    /\ Sends(b, set, Unknown) /\ sealed' = sealed
    /\ DOMAIN set \subseteq {"state"}
    /\ "state" \in DOMAIN set /\ set["state"] # NoCookie => Begun(b, set["state"])'

Clears(b) == Sends(b, ClearSession(jar[b]), 0) /\ sealed' = sealed

Seals(b, s, consumed) ==
    /\ sealed' = Append(sealed, s)
    /\ Sends(b, Both(SealSession(jar[b], Len(sealed) + 1, s.size), consumed), Len(sealed) + 1)
    /\ consumed \in {NoChange, ClearState}
    /\ s \in SessionSet /\ s.browser = b
    /\ s.expiresAt = s.login + Lifetime
    /\ s.token # 0 => s.token \in DOMAIN tokens /\ tokens[s.token].browser = b

Answered(b) ==
    \/ Still
    \/ \E set : Plain(b, set)
    \/ Clears(b)
    \/ \E s, consumed : Seals(b, s, consumed)

Draws == tokens' = tokens \/ \E t \in [browser : Browsers, use : {"form", "oidc", "saml"}] :
                                tokens' = Append(tokens, t)

\* The session that is read is one of the browser's own.
LEMMA OpenOwn ==
  ASSUME CookiesOK, NEW b \in Browsers, OpenSession(b) # 0
  PROVE  LET n == OpenSession(b)
         IN  /\ n \in DOMAIN sealed /\ sealed[n].browser = b /\ now < sealed[n].expiresAt
             /\ Holds(b, n)
  <1> DEFINE n == Decrypted(jar[b], SizeOf)
  <1>1. OpenSession(b) = n /\ n # 0 /\ now < sealed[n].expiresAt
    BY DEF OpenSession
  <1>2. jar[b][ChunkName[1]] # NoCookie /\ n = jar[b][ChunkName[1]].session
    BY <1>1, DecryptedFirst
  <1> QED
    BY <1>1, <1>2, SlotNames DEF CookiesOK, JarOK, Holds

\* A login that fits seals a session; one that does not, or that only
\* consumes the state, leaves the chunks alone.
LEMMA LogInAnswers ==
  ASSUME Typed, NEW b \in Browsers, NEW s, NEW consumed \in {NoChange, ClearState},
         LogIn(b, s, consumed),
         s.size <= MaxChunks => s \in SessionSet,
         s.browser = b, s.expiresAt = s.login + Lifetime,
         s.token # 0 => s.token \in DOMAIN tokens /\ tokens[s.token].browser = b
  PROVE  Answered(b)
  <1>1. CASE s.size <= MaxChunks
    <2>1. Seals(b, s, consumed)
      BY <1>1 DEF LogIn, Seals, Sends, Reply, Answer
    <2> QED
      BY <2>1 DEF Answered
  <1>2. CASE ~(s.size <= MaxChunks)
    <2>1. Plain(b, consumed)
      BY <1>2 DEF LogIn, Plain, Sends, Reply, Answer, NoChange, ClearState
    <2> QED
      BY <2>1 DEF Answered
  <1> QED
    BY <1>1, <1>2

\* What a refresh keeps of a session.
LEMMA RefreshedKeeps ==
  ASSUME Typed, NEW n \in DOMAIN sealed, NEW size \in Slots
  PROVE  LET s == Refreshed(n, size)
         IN  /\ s \in SessionSet /\ s.size = size
             /\ s.browser = sealed[n].browser /\ s.token = sealed[n].token
             /\ s.login = sealed[n].login /\ s.expiresAt = sealed[n].expiresAt
             /\ s.refresh.grant = sealed[n].refresh.grant
             /\ s.refresh.turn = IF scenario.rotates THEN sealed[n].refresh.turn + 1
                                 ELSE sealed[n].refresh.turn
  <1> DEFINE s == Refreshed(n, size)
  <1>1. sealed[n] \in SessionSet
    BY DEF Typed
  <1>2. now + TokenLifetime \in Int
    BY SessionsAssumption DEF Typed
  <1>3. sealed[n].refresh \in [grant : Nat, turn : Nat]
    BY <1>1 DEF SessionSet
  <1> DEFINE t == [sealed[n].refresh EXCEPT !.turn = IF scenario.rotates THEN @ + 1 ELSE @]
  <1>4. /\ t \in [grant : Nat, turn : Nat] /\ t.grant = sealed[n].refresh.grant
        /\ t.turn = IF scenario.rotates THEN sealed[n].refresh.turn + 1
                    ELSE sealed[n].refresh.turn
    BY <1>3
  <1>5. s = [sealed[n] EXCEPT !.tokenExpiresAt = now + TokenLifetime, !.size = size,
                              !.refresh = t]
    BY <1>1 DEF Refreshed, SessionSet
  <1> HIDE DEF s, t
  <1> QED
    BY <1>1, <1>2, <1>4, <1>5, Zenon DEF SessionSet, s
\* The session of a new login.
LEMMA SessionFresh ==
  ASSUME Typed, NEW b \in Browsers, NEW provider \in {"oidc", "saml", "ldap"},
         NEW tokenExpiresAt \in Int, NEW refresh \in [grant : Nat, turn : Nat],
         NEW size \in Nat \ {0}, NEW token \in Nat
  PROVE  LET s == Session(b, provider, tokenExpiresAt, refresh, size, token)
         IN  /\ s.size <= MaxChunks => s \in SessionSet
             /\ s.browser = b /\ s.expiresAt = s.login + Lifetime
             /\ s.token = token /\ s.refresh = refresh
  <1>1. size <= MaxChunks => size \in Slots
    BY CookiesAssumption DEF Slots
  <1>2. now \in Int /\ now + Lifetime \in Int
    BY SessionsAssumption DEF Typed
  <1> QED
    BY <1>1, <1>2 DEF Session, SessionSet

\* A SAML or LDAP login makes a session like any other, without tokens.
LEMMA OtherFresh ==
  ASSUME Typed, NEW b \in Browsers, NEW provider \in {"saml", "ldap"},
         NEW size \in Nat \ {0}, NEW token \in Nat
  PROVE  LET s == Session(b, provider, 0, NoToken, size, token)
         IN  /\ s.size <= MaxChunks => s \in SessionSet
             /\ s.browser = b /\ s.expiresAt = s.login + Lifetime
             /\ s.token = token /\ s.refresh = NoToken
  <1>1. 0 \in Int /\ NoToken \in [grant : Nat, turn : Nat]
    BY DEF NoToken
  <1> QED
    BY <1>1, SessionFresh

\* Every session takes at least one chunk.
LEMMA SizesPositive == Typed => scenario.sizes \subseteq Nat \ {0}
  BY SessionsAssumption DEF Typed

\* Every way Evaluate goes.
LEMMA EvaluateAnswers ==
  ASSUME BaseInv, NEW b \in Browsers, NEW p \in Pods, NEW up \in BOOLEAN,
         NEW keysUp \in BOOLEAN, NEW size \in scenario.sizes,
         Evaluate(b, p, up, keysUp, size)
  PROVE  Answered(b) /\ tokens' = tokens
  <1> USE DEF BaseInv
  <1>0. size \in Nat \ {0}
    BY SizesPositive
  <1>1. CASE ByRefresh(b, p, keysUp, size)
    <2> DEFINE n == OpenSession(b)
    <2>1. /\ size <= MaxChunks /\ n # 0 /\ tokens' = tokens
          /\ sealed' = Append(sealed, Refreshed(n, size))
          /\ Reply(b, SealSession(jar[b], Len(sealed) + 1, size), Len(sealed) + 1)
      BY <1>1 DEF ByRefresh
    <2>2. n \in DOMAIN sealed /\ sealed[n].browser = b
      BY <2>1, OpenOwn
    <2>3. size \in Slots
      BY <1>0, <2>1, CookiesAssumption DEF Slots
    <2> DEFINE s == Refreshed(n, size)
    <2>4. /\ s \in SessionSet /\ s.size = size /\ s.browser = b
          /\ s.token = sealed[n].token /\ s.expiresAt = s.login + Lifetime
      BY <2>2, <2>3, RefreshedKeeps DEF Capped
    <2>5. s.token # 0 => s.token \in DOMAIN tokens /\ tokens[s.token].browser = b
      BY <2>2, <2>4 DEF FlowBound, Drawn
    <2> HIDE DEF s
    <2>6. Both(SealSession(jar[b], Len(sealed) + 1, size), NoChange)
             = SealSession(jar[b], Len(sealed) + 1, size)
      BY DEF Both, NoChange, SealSession
    <2>7. Seals(b, s, NoChange)
      BY <2>1, <2>4, <2>5, <2>6 DEF Seals, Sends, Reply, Answer, s
    <2> QED
      BY <2>1, <2>7 DEF Answered
  <1>2. CASE Unauthenticated(b, p, up, keysUp, size)
    BY <1>2 DEF Unauthenticated, NoCookies, browserVars, Answered, Still
  <1>3. CASE ByBind(b, p, up, keysUp, size)
    <2> DEFINE s == Session(b, "ldap", 0, NoToken, size, 0)
    <2>1. LogIn(b, s, NoChange) /\ tokens' = tokens
      BY <1>3 DEF ByBind
    <2>2. /\ s.size <= MaxChunks => s \in SessionSet
          /\ s.browser = b /\ s.expiresAt = s.login + Lifetime /\ s.token = 0
      BY <1>0, OtherFresh
    <2> HIDE DEF s
    <2> QED
      BY <2>1, <2>2, LogInAnswers
  <1>4. CASE \E kid \in 1 .. MaxKeys : ByBearer(b, p, kid, up, keysUp, size)
    BY <1>4, Zenon DEF ByBearer, NoCookies, browserVars, Answered, Still
  <1> QED
    BY <1>1, <1>2, <1>3, <1>4 DEF Evaluate

\* A rejected callback or form changes nothing.
LEMMA RejectedAnswers ==
  ASSUME Rejected, NEW b PROVE Answered(b) /\ tokens' = tokens
  BY DEF Rejected, NoCookies, browserVars, Answered, Still

\* A callback or form that is let through came to the browser it was for.
LEMMA FlowOwn ==
  ASSUME BaseInv, NEW b \in Browsers, NEW use \in {"form", "oidc", "saml"}, NEW token,
         CallbackOfFlow(b, use, token)
  PROVE  token # 0 /\ token \in DOMAIN tokens /\ tokens[token].browser = b
  BY DEF CallbackOfFlow, HasState, BaseInv, CookiesOK, JarOK, Begun

\* Every way a login comes back from a provider, or from the form.
LEMMA ReturnAnswers ==
  ASSUME BaseInv, NEW b \in Browsers, NEW p \in Pods, NEW token \in DOMAIN tokens,
         NEW up \in BOOLEAN, NEW keysUp \in BOOLEAN, NEW size \in scenario.sizes,
         Return(b, p, token, up, keysUp, size)
  PROVE  Answered(b) /\ tokens' = tokens
  <1> USE DEF BaseInv
  <1>0. size \in Nat \ {0} /\ token \in Nat /\ now + TokenLifetime \in Int
    BY SizesPositive, SessionsAssumption DEF Typed
  <1>1. CASE Rejected
    BY <1>1, RejectedAnswers
  <1>2. CASE ServeOIDCCallback(b, p, token, up, keysUp, size) /\ ~Rejected
    <2> DEFINE s == Session(b, "oidc", now + TokenLifetime, [grant |-> token, turn |-> 1],
                            size, token)
    <2>1. CallbackOfFlow(b, "oidc", token) /\ tokens' = tokens
      BY <1>2 DEF ServeOIDCCallback
    <2>2. (UNCHANGED browserVars /\ sealed' = sealed) \/ LogIn(b, s, ClearState)
      BY <1>2 DEF ServeOIDCCallback, NoCookies
    <2>3. [grant |-> token, turn |-> 1] \in [grant : Nat, turn : Nat]
      BY <1>0
    <2>4. /\ s.size <= MaxChunks => s \in SessionSet
          /\ s.browser = b /\ s.expiresAt = s.login + Lifetime /\ s.token = token
      BY <1>0, <2>3, SessionFresh
    <2>5. s.token \in DOMAIN tokens /\ tokens[s.token].browser = b
      BY <2>1, <2>4, FlowOwn
    <2> HIDE DEF s
    <2>6. CASE LogIn(b, s, ClearState)
      BY <2>1, <2>4, <2>5, <2>6, LogInAnswers
    <2>7. CASE UNCHANGED browserVars /\ sealed' = sealed
      BY <2>1, <2>7 DEF browserVars, Answered, Still
    <2> QED
      BY <2>2, <2>6, <2>7
  <1>3. CASE ServeSAMLACS(b, token, up, size) /\ ~Rejected
    <2> DEFINE s == Session(b, "saml", 0, NoToken, size, token)
    <2>1. /\ CallbackOfFlow(b, "saml", token) /\ tokens' = tokens
          /\ LogIn(b, s, ClearState)
      BY <1>3 DEF ServeSAMLACS
    <2>2. /\ s.size <= MaxChunks => s \in SessionSet
          /\ s.browser = b /\ s.expiresAt = s.login + Lifetime /\ s.token = token
      BY <1>0, OtherFresh
    <2>3. s.token \in DOMAIN tokens /\ tokens[s.token].browser = b
      BY <2>1, <2>2, FlowOwn
    <2> HIDE DEF s
    <2> QED
      BY <2>1, <2>2, <2>3, LogInAnswers
  <1>4. ASSUME NEW bound \in BOOLEAN, ServeLDAPLogin(b, token, up, bound, size), ~Rejected
        PROVE  Answered(b) /\ tokens' = tokens
    <2> DEFINE s == Session(b, "ldap", 0, NoToken, size, token)
    <2>1. /\ CallbackOfFlow(b, "form", token) /\ tokens' = tokens
          /\ LogIn(b, s, ClearState)
      BY <1>4 DEF ServeLDAPLogin
    <2>2. /\ s.size <= MaxChunks => s \in SessionSet
          /\ s.browser = b /\ s.expiresAt = s.login + Lifetime /\ s.token = token
      BY <1>0, OtherFresh
    <2>3. s.token \in DOMAIN tokens /\ tokens[s.token].browser = b
      BY <2>1, <2>2, FlowOwn
    <2> HIDE DEF s
    <2> QED
      BY <2>1, <2>2, <2>3, LogInAnswers
  <1> QED
    BY <1>1, <1>2, <1>3, <1>4 DEF Return
\* A response about a login under way carries its browser's own tokens.
LEMMA StateAnswers ==
  ASSUME BaseInv, NEW b \in Browsers, NEW t \in {"form", "oidc", "saml"}, NEW state,
         NewToken(b, t), Reply(b, SealState(state), Unknown), sealed' = sealed,
         state \in StateSet, state[t] = Len(tokens) + 1,
         \A use \in {"form", "oidc", "saml"} \ {t} :
            state[use] # 0 => state[use] \in DOMAIN tokens /\ tokens[state[use]].browser = b
  PROVE  Answered(b) /\ Draws
  <1> DEFINE new == [browser |-> b, use |-> t]
  <1>1. tokens' = Append(tokens, new)
    BY DEF NewToken
  <1>2. new \in [browser : Browsers, use : {"form", "oidc", "saml"}]
    OBVIOUS
  <1>3. tokens \in Seq([browser : Browsers, use : {"form", "oidc", "saml"}])
    BY DEF BaseInv, Typed
  <1>4. /\ Len(tokens) + 1 \in DOMAIN tokens'
        /\ tokens'[Len(tokens) + 1].browser = b
        /\ \A n \in DOMAIN tokens : n \in DOMAIN tokens' /\ tokens'[n] = tokens[n]
    BY <1>1, <1>2, <1>3, AppendProperties
  <1>5. Begun(b, state)'
    BY <1>4 DEF Begun
  <1>6. Plain(b, SealState(state))
    BY <1>5 DEF Plain, Sends, Reply, Answer, SealState
  <1> QED
    BY <1>1, <1>2, <1>6 DEF Answered, Draws

\* Every request is answered in one of these ways.
LEMMA RequestAnswers ==
  ASSUME BaseInv, NEW b \in Browsers, Request(b)
  PROVE  Answered(b) /\ Draws
  <1>1. CASE BySession(b)
    BY <1>1 DEF BySession, NoCookies, browserVars, Answered, Still, Draws
  <1>2. CASE \E p \in Pods, up \in BOOLEAN, keysUp \in BOOLEAN, size \in scenario.sizes :
                Evaluate(b, p, up, keysUp, size)
    BY <1>2, EvaluateAnswers DEF Draws
  <1>3. CASE ServeLogin(b)
    <2> DEFINE state == [form |-> Len(tokens) + 1, oidc |-> 0, saml |-> 0,
                         expires |-> now + StateLifetime]
    <2>1. NewToken(b, "form") /\ Reply(b, SealState(state), Unknown) /\ sealed' = sealed
      BY <1>3 DEF ServeLogin
    <2>2. state \in StateSet
      BY SessionsAssumption DEF BaseInv, Typed, StateSet
    <2>3. state["form"] = Len(tokens) + 1 /\ state["oidc"] = 0 /\ state["saml"] = 0
      OBVIOUS
    <2> HIDE DEF state
    <2> QED
      BY <2>1, <2>2, <2>3, StateAnswers
  <1>4. ASSUME NEW provider \in {"oidc", "saml"}, NEW up \in BOOLEAN,
               ServeStart(b, provider, up)
        PROVE  Answered(b) /\ Draws
    <2>1. CASE Rejected
      BY <2>1, RejectedAnswers DEF Draws
    <2>2. CASE ~Rejected
      <3> DEFINE old == jar[b]["state"]
                 state == [old EXCEPT ![provider] = Len(tokens) + 1,
                                      !.expires = now + StateLifetime]
      <3>1. /\ HasState(b) /\ NewToken(b, provider) /\ sealed' = sealed
            /\ Reply(b, SealState(state), Unknown)
        BY <1>4, <2>2, Zenon DEF ServeStart
      <3>2. Begun(b, old)
        BY <3>1, Zenon DEF HasState, BaseInv, CookiesOK, JarOK
      <3>3. Len(tokens) + 1 \in Nat /\ now + StateLifetime \in Int
        BY SessionsAssumption DEF BaseInv, Typed
      <3> HIDE DEF old
      <3>4. /\ state \in StateSet /\ state[provider] = Len(tokens) + 1
            /\ \A use \in {"form", "oidc", "saml"} \ {provider} : state[use] = old[use]
        BY <3>2, <3>3, Zenon DEF Begun, StateSet
      <3> HIDE DEF state
      <3>5. \A use \in {"form", "oidc", "saml"} \ {provider} :
              state[use] # 0 => state[use] \in DOMAIN tokens /\ tokens[state[use]].browser = b
        BY <3>2, <3>4 DEF Begun
      <3> QED
        BY <3>1, <3>4, <3>5, StateAnswers
    <2> QED
      BY <2>1, <2>2
  <1>5. CASE \E p \in Pods, token \in DOMAIN tokens, up \in BOOLEAN, keysUp \in BOOLEAN,
                size \in scenario.sizes : Return(b, p, token, up, keysUp, size)
    BY <1>5, ReturnAnswers DEF Draws
  <1>6. CASE Clear(b)
    BY <1>6 DEF Clear, Reply, Answer, Answered, Clears, Sends, Draws
  <1>7. CASE ServeLogout(b)
    BY <1>6, <1>7 DEF ServeLogout
  <1>8. ASSUME NEW up \in BOOLEAN, ServeSAMLSLO(b, up) PROVE Answered(b) /\ Draws
    BY <1>6, <1>8, RejectedAnswers DEF ServeSAMLSLO, Draws
  <1> QED
    BY <1>1, <1>2, <1>3, <1>4, <1>5, <1>7, <1>8 DEF Request
-----------------------------------------------------------------------------
\* Sessions are sealed and tokens drawn for good.
Grown ==
    /\ \A n \in DOMAIN sealed : n \in DOMAIN sealed' /\ sealed'[n] = sealed[n]
    /\ \A n \in DOMAIN tokens : n \in DOMAIN tokens' /\ tokens'[n] = tokens[n]

\* An answer seals at most one session more, and takes none back.
LEMMA AnsweredGrows ==
  ASSUME Typed, NEW b, Answered(b), Draws PROVE Grown
  <1>1. sealed' = sealed \/ \E s \in SessionSet : sealed' = Append(sealed, s)
    BY DEF Answered, Still, Plain, Clears, Seals
  <1>2. \A n \in DOMAIN sealed : n \in DOMAIN sealed' /\ sealed'[n] = sealed[n]
    <2>1. CASE sealed' = sealed
      BY <2>1
    <2>2. ASSUME NEW T, sealed \in Seq(T), NEW s \in T, sealed' = Append(sealed, s)
          PROVE  \A n \in DOMAIN sealed : n \in DOMAIN sealed' /\ sealed'[n] = sealed[n]
      BY <2>2, AppendProperties
    <2> QED
      BY <1>1, <2>1, <2>2 DEF Typed
  <1>3. \A n \in DOMAIN tokens : n \in DOMAIN tokens' /\ tokens'[n] = tokens[n]
    <2>1. CASE tokens' = tokens
      BY <2>1
    <2>2. ASSUME NEW T, tokens \in Seq(T), NEW t \in T, tokens' = Append(tokens, t)
          PROVE  \A n \in DOMAIN tokens : n \in DOMAIN tokens' /\ tokens'[n] = tokens[n]
      BY <2>2, AppendProperties
    <2> QED
      BY <2>1, <2>2 DEF Typed, Draws
  <1> QED
    BY <1>2, <1>3 DEF Grown

\* What a jar holds stays in order when sessions and tokens are added.
LEMMA JarKept ==
  ASSUME NEW b \in Browsers, JarOK(b), Grown, jar'[b] = jar[b] PROVE JarOK(b)'
  <1>1. jar[b]["state"] # NoCookie => Begun(b, jar[b]["state"])'
    BY DEF JarOK, Begun, Grown
  <1> QED
    BY <1>1 DEF JarOK, Grown

\* So does a response on its way.
LEMMA AnswerKept ==
  ASSUME NEW r, AnswerOK(r), Grown PROVE AnswerOK(r)'
  <1>1. "state" \in DOMAIN r.set /\ r.set["state"] # NoCookie => Begun(r.to, r.set["state"])'
    BY Zenon DEF AnswerOK, Begun, Grown
  <1>2. ASSUME r.session \in DOMAIN sealed /\ sealed[r.session].browser = r.to
                 /\ SetsSealed(r, sealed[r.session].size)
        PROVE  r.session \in DOMAIN sealed' /\ sealed'[r.session].browser = r.to
                 /\ SetsSealed(r, sealed'[r.session].size)
    BY <1>2 DEF Grown
  <1> QED
    BY <1>1, <1>2, Zenon DEF AnswerOK, SetsNone, SetsCleared, SetsSealed

\* What is put into two sets is in both.
LEMMA BothSets ==
  ASSUME NEW set, NEW consumed \in {NoChange, ClearState}, DOMAIN set \subseteq ChunkNames
  PROVE  LET both == Both(set, consumed)
         IN  /\ \A i \in Slots : /\ ChunkName[i] \in DOMAIN both <=> ChunkName[i] \in DOMAIN set
                                 /\ ChunkName[i] \in DOMAIN set =>
                                      both[ChunkName[i]] = set[ChunkName[i]]
             /\ "state" \in DOMAIN both => both["state"] = NoCookie
  <1>1. "state" \notin DOMAIN set
    BY SlotNames
  <1>2. consumed = NoChange => DOMAIN consumed = {}
    BY DEF NoChange
  <1>3. consumed = ClearState => DOMAIN consumed = {"state"} /\ consumed["state"] = NoCookie
    BY DEF ClearState
  <1>4. \A i \in Slots : ChunkName[i] \notin DOMAIN consumed
    BY <1>2, <1>3, SlotNames
  <1>5. "state" \in DOMAIN consumed => consumed["state"] = NoCookie
    BY <1>2, <1>3
  <1> QED
    BY <1>1, <1>4, <1>5 DEF Both

\* A new response is one of the three kinds.
LEMMA NewAnswerOK ==
  ASSUME BaseInv, NEW b \in Browsers, Answered(b), Draws, NEW r \in flight' \ flight
  PROVE  AnswerOK(r)'
  <1> USE DEF BaseInv
  <1>1. CASE Still
    BY <1>1 DEF Still
  <1>2. ASSUME NEW set, Plain(b, set) PROVE AnswerOK(r)'
    <2>1. r.to = b /\ r.set = set /\ r.session = Unknown
      BY <1>2 DEF Plain, Sends, Answer
    <2>2. SetsNone(r)
      BY <1>2, <2>1, SlotNames DEF Plain, SetsNone
    <2> QED
      BY <1>2, <2>1, <2>2 DEF Plain, AnswerOK, SetsNone, SetsCleared, SetsSealed
  <1>3. CASE Clears(b)
    <2> DEFINE set == ClearSession(jar[b])
    <2>1. r.to = b /\ r.set = set /\ r.session = 0
      BY <1>3 DEF Clears, Sends, Answer
    <2>2. /\ DOMAIN set \subseteq ChunkNames /\ ChunkName[1] \in DOMAIN set
          /\ \A c \in DOMAIN set : set[c] = NoCookie
      BY ClearSets
    <2> HIDE DEF set
    <2>3. SetsCleared(r) /\ "state" \notin DOMAIN r.set
      BY <2>1, <2>2, SlotNames DEF SetsCleared
    <2> QED
      BY <2>1, <2>3 DEF AnswerOK, SetsNone, SetsCleared, SetsSealed
  <1>4. ASSUME NEW s, NEW consumed, Seals(b, s, consumed) PROVE AnswerOK(r)'
    <2> DEFINE n == Len(sealed) + 1
               set == SealSession(jar[b], n, s.size)
    <2>1. /\ r.to = b /\ r.set = Both(set, consumed) /\ r.session = n
          /\ r.had = ChunksOf(b)
      BY <1>4 DEF Seals, Sends, Answer
    <2>2. s \in SessionSet /\ s.browser = b /\ consumed \in {NoChange, ClearState}
      BY <1>4 DEF Seals
    <2>3. n \in DOMAIN sealed' /\ sealed'[n] = s
      BY <1>4, <2>2, AppendProperties DEF Seals, Typed
    <2>4. s.size \in Slots
      BY <2>2 DEF SessionSet
    <2>5. /\ DOMAIN set \subseteq ChunkNames
          /\ \A i \in 1 .. s.size : ChunkName[i] \in DOMAIN set /\ set[ChunkName[i]] = Part(n, i)
          /\ \A i \in s.size + 1 .. MaxChunks :
                /\ ChunkName[i] \in DOMAIN set => set[ChunkName[i]] = NoCookie
                /\ ChunkName[i] \notin DOMAIN set => jar[b][ChunkName[i]] = NoCookie
      BY <2>4, SealSets
    <2> HIDE DEF set, n
    <2>6. /\ \A i \in Slots : /\ ChunkName[i] \in DOMAIN r.set <=> ChunkName[i] \in DOMAIN set
                              /\ ChunkName[i] \in DOMAIN set =>
                                   r.set[ChunkName[i]] = set[ChunkName[i]]
          /\ "state" \in DOMAIN r.set => r.set["state"] = NoCookie
      BY <2>1, <2>2, <2>5, BothSets
    <2>7. /\ \A i \in 1 .. s.size : i \in Slots
          /\ \A i \in s.size + 1 .. MaxChunks : i \in Slots
      BY <2>4, CookiesAssumption DEF Slots
    <2>8. \A i \in Slots : r.had[ChunkName[i]] = jar[b][ChunkName[i]]
      BY <2>1, SlotNames DEF ChunksOf
    <2>9. SetsSealed(r, s.size)
      <3>1. ASSUME NEW i \in 1 .. s.size
            PROVE  ChunkName[i] \in DOMAIN r.set /\ r.set[ChunkName[i]] = Part(r.session, i)
        BY <2>1, <2>5, <2>6, <2>7
      <3>2. ASSUME NEW i \in s.size + 1 .. MaxChunks
            PROVE  /\ ChunkName[i] \in DOMAIN r.set => r.set[ChunkName[i]] = NoCookie
                   /\ ChunkName[i] \notin DOMAIN r.set => r.had[ChunkName[i]] = NoCookie
        BY <2>5, <2>6, <2>7, <2>8
      <3> QED
        BY <3>1, <3>2 DEF SetsSealed
    <2> QED
      BY <2>1, <2>2, <2>3, <2>6, <2>9 DEF AnswerOK, SetsNone, SetsCleared, SetsSealed
  <1> QED
    BY <1>1, <1>2, <1>3, <1>4 DEF Answered
\* A browser that applies a response has cookies of its own still.
LEMMA DeliveredOK ==
  ASSUME BaseInv, NEW r \in flight, Deliver(r), Grown PROVE JarOK(r.to)'
  <1> DEFINE b == r.to
  <1>1. AnswerOK(r) /\ b \in Browsers /\ JarOK(b)
    BY DEF BaseInv, CookiesOK, AnswerOK
  <1>2. jar'[b] = Apply(r.set, jar[b]) /\ sealed' = sealed /\ tokens' = tokens
    <2>1. b \in DOMAIN jar
      BY <1>1 DEF BaseInv, CookiesOK, Typed
    <2> QED
      BY <2>1 DEF Deliver, Quiet
  <1>3. DOMAIN jar'[b] = ChunkNames \cup {"state"}
    BY <1>1, <1>2 DEF Apply, JarOK
  <1>4. \A c \in DOMAIN jar[b] :
          jar'[b][c] = IF c \in DOMAIN r.set THEN r.set[c] ELSE jar[b][c]
    BY <1>2 DEF Apply
  <1>5. ASSUME NEW i \in Slots, jar'[b][ChunkName[i]] # NoCookie
        PROVE  LET n == jar'[b][ChunkName[i]].session
               IN  n \in DOMAIN sealed /\ sealed[n].browser = b
    <2>1. ChunkName[i] \in DOMAIN jar[b]
      BY <1>1, SlotNames DEF JarOK
    <2>2. CASE ChunkName[i] \notin DOMAIN r.set
      BY <1>1, <1>4, <1>5, <2>1, <2>2 DEF JarOK
    <2>3. CASE ChunkName[i] \in DOMAIN r.set
      <3>1. r.set[ChunkName[i]] # NoCookie
        BY <1>4, <1>5, <2>1, <2>3
      <3>2. /\ r.session \in DOMAIN sealed /\ sealed[r.session].browser = b
            /\ SetsSealed(r, sealed[r.session].size)
        BY <1>1, <2>3, <3>1 DEF AnswerOK, SetsNone, SetsCleared
      <3>3. sealed[r.session].size \in Slots
        <4>1. sealed[r.session] \in SessionSet
          BY <3>2 DEF BaseInv, Typed
        <4> QED
          BY <4>1 DEF SessionSet
      <3>4. i \in 1 .. sealed[r.session].size
        BY <2>3, <3>1, <3>2, <3>3, CookiesAssumption DEF SetsSealed, Slots
      <3>5. r.set[ChunkName[i]].session = r.session
        <4>1. r.set[ChunkName[i]] = Part(r.session, i)
          BY <3>2, <3>4 DEF SetsSealed
        <4> QED
          BY <4>1 DEF Part
      <3> QED
        BY <1>4, <2>1, <2>3, <3>2, <3>5
    <2> QED
      BY <2>2, <2>3
  <1>6. jar'[b]["state"] # NoCookie => Begun(b, jar'[b]["state"])
    BY <1>1, <1>4 DEF JarOK, AnswerOK
  <1>7. jar'[b]["state"] # NoCookie =>
          /\ jar'[b]["state"] \in StateSet
          /\ \A use \in {"form", "oidc", "saml"} : jar'[b]["state"][use] # 0 =>
                /\ jar'[b]["state"][use] \in DOMAIN tokens'
                /\ tokens'[jar'[b]["state"][use]].browser = b
    BY <1>2, <1>6 DEF Begun
  <1>8. \A i \in Slots : jar'[b][ChunkName[i]] # NoCookie =>
          /\ jar'[b][ChunkName[i]].session \in DOMAIN sealed'
          /\ sealed'[jar'[b][ChunkName[i]].session].browser = b
    BY <1>2, <1>5
  <1> QED
    BY <1>3, <1>7, <1>8 DEF JarOK, Begun

\* The steps that are no request.
Outside ==
    \/ \E r \in flight : Deliver(r) \/ Lose(r)
    \/ PublishKey
    \/ \E k \in published : RetireKey(k)
    \/ \E p \in Pods : Reload(p)
    \/ Tick

\* They seal nothing and draw no token.
LEMMA OutsideSeals == Outside => UNCHANGED <<sealed, tokens>>
  BY Zenon DEF Outside, Deliver, Lose, PublishKey, RetireKey, ChangeKeys, Reload, Tick, Quiet


\* Every step keeps cookies where they belong.
LEMMA CookiesStep == BaseInv /\ [Next]_vars => CookiesOK' /\ Grown
  <1> SUFFICES ASSUME BaseInv, [Next]_vars PROVE CookiesOK' /\ Grown
    OBVIOUS
  <1>0. CookiesOK
    BY DEF BaseInv
  <1>1. ASSUME Grown, UNCHANGED <<jar, flight>> PROVE CookiesOK'
    BY <1>0, <1>1, JarKept, AnswerKept DEF CookiesOK
  <1>2. ASSUME NEW b \in Browsers, Request(b) PROVE CookiesOK' /\ Grown
    <2>1. Answered(b) /\ Draws
      BY <1>2, RequestAnswers
    <2>2. Grown
      BY <2>1, AnsweredGrows DEF BaseInv
    <2>3. jar' = jar
      BY <2>1 DEF Answered, Still, Plain, Clears, Seals, Sends
    <2>4. \A c \in Browsers : JarOK(c)'
      BY <1>0, <2>2, <2>3, JarKept DEF CookiesOK
    <2>5. ASSUME NEW r \in flight' PROVE AnswerOK(r)'
      <3>1. CASE r \in flight
        BY <1>0, <2>2, <3>1, AnswerKept DEF CookiesOK
      <3>2. CASE r \notin flight
        BY <2>1, <3>2, NewAnswerOK
      <3> QED
        BY <3>1, <3>2
    <2> QED
      BY <2>2, <2>4, <2>5 DEF CookiesOK
  <1>3. Outside => Grown
    BY OutsideSeals DEF Grown
  <1>4. ASSUME NEW r \in flight, Deliver(r) PROVE CookiesOK' /\ Grown
    <2>1. Grown
      BY <1>3, <1>4 DEF Outside
    <2>2. \A q \in flight' : AnswerOK(q)'
      BY <1>0, <1>4, <2>1, AnswerKept DEF CookiesOK, Deliver
    <2>3. \A c \in Browsers \ {r.to} : jar'[c] = jar[c]
      BY <1>4 DEF Deliver, BaseInv, Typed
    <2>4. \A c \in Browsers : JarOK(c)'
      BY <1>0, <1>4, <2>1, <2>3, JarKept, DeliveredOK DEF CookiesOK
    <2> QED
      BY <2>1, <2>2, <2>4 DEF CookiesOK
  <1>5. ASSUME NEW r \in flight, Lose(r) PROVE CookiesOK' /\ Grown
    <2>1. Grown
      BY <1>3, <1>5 DEF Outside
    <2>2. \A q \in flight' : AnswerOK(q)'
      BY <1>0, <1>5, <2>1, AnswerKept DEF CookiesOK, Lose
    <2>3. jar' = jar
      BY <1>5 DEF Lose
    <2> QED
      BY <1>0, <2>1, <2>2, <2>3, JarKept DEF CookiesOK
  <1>6. CASE PublishKey \/ (\E k \in published : RetireKey(k)) \/ (\E p \in Pods : Reload(p)) \/ Tick
    <2>1. UNCHANGED <<jar, flight>>
      BY <1>6, Zenon DEF PublishKey, RetireKey, ChangeKeys, Reload, Tick, browserVars
    <2> QED
      BY <1>1, <1>3, <1>6, <2>1 DEF Outside
  <1>7. CASE UNCHANGED vars
    BY <1>1, <1>7 DEF vars, browserVars, Grown
  <1> QED
    BY <1>2, <1>4, <1>5, <1>6, <1>7 DEF Next
\* A request takes no time and leaves the provider's keys alone.
Quick(b) ==
    /\ UNCHANGED <<now, scenario, published, changedAt, jar, settled>>
    /\ lost' \in {lost, [lost EXCEPT ![b] = TRUE]}

\* A request takes no time, and reaches no jar before its response does.
LEMMA RequestQuick ==
  ASSUME NEW b, Request(b) PROVE Quick(b)
  <1>1. ASSUME NEW p, NEW up, NEW keysUp, NEW size, NoSession(b, p, up, keysUp, size)
        PROVE  lost' \in {lost, [lost EXCEPT ![b] = TRUE]}
    BY <1>1 DEF NoSession
  <1>2. Rejected => Quick(b)
    BY DEF Rejected, NoCookies, browserVars, Quick
  <1>3. CASE BySession(b)
    BY <1>3 DEF BySession, NoCookies, browserVars, Quick
  <1>4. ASSUME NEW p, NEW up, NEW keysUp, NEW size, Evaluate(b, p, up, keysUp, size)
        PROVE  Quick(b)
    <2>1. CASE ByRefresh(b, p, keysUp, size)
      BY <2>1 DEF ByRefresh, Reply, Quick
    <2>2. CASE Unauthenticated(b, p, up, keysUp, size)
      BY <1>1, <2>2 DEF Unauthenticated, NoCookies, browserVars, Quick
    <2>3. CASE ByBind(b, p, up, keysUp, size)
      BY <1>1, <2>3 DEF ByBind, LogIn, Reply, Quick
    <2>4. CASE \E kid \in 1 .. MaxKeys : ByBearer(b, p, kid, up, keysUp, size)
      BY <1>1, <2>4, Zenon DEF ByBearer, NoCookies, browserVars, Quick
    <2> QED
      BY <1>4, <2>1, <2>2, <2>3, <2>4 DEF Evaluate
  <1>5. CASE ServeLogin(b)
    BY <1>5 DEF ServeLogin, Reply, Quick
  <1>6. ASSUME NEW provider, NEW up, ServeStart(b, provider, up) PROVE Quick(b)
    BY <1>2, <1>6, Zenon DEF ServeStart, Reply, Quick
  <1>7. ASSUME NEW p, NEW token, NEW up, NEW keysUp, NEW size,
               Return(b, p, token, up, keysUp, size)
        PROVE  Quick(b)
    <2>1. CASE ServeOIDCCallback(b, p, token, up, keysUp, size)
      BY <1>2, <2>1 DEF ServeOIDCCallback, LogIn, Reply, NoCookies, browserVars, Quick
    <2>2. CASE ServeSAMLACS(b, token, up, size)
      BY <1>2, <2>2, Zenon DEF ServeSAMLACS, LogIn, Reply, Quick
    <2>3. CASE \E bound \in BOOLEAN : ServeLDAPLogin(b, token, up, bound, size)
      BY <1>2, <2>3, Zenon DEF ServeLDAPLogin, LogIn, Reply, Quick
    <2> QED
      BY <1>7, <2>1, <2>2, <2>3 DEF Return
  <1>8. CASE ServeLogout(b) \/ \E up \in BOOLEAN : ServeSAMLSLO(b, up)
    BY <1>2, <1>8 DEF ServeLogout, ServeSAMLSLO, Clear, Reply, Quick
  <1> QED
    BY <1>3, <1>4, <1>5, <1>6, <1>7, <1>8 DEF Request

\* What was sealed and drawn is typed, and a new session is capped and bound
\* to the browser that began its login.
LEMMA SealedStep ==
  ASSUME BaseInv, [Next]_vars PROVE (Typed /\ Capped /\ Drawn /\ FlowBound)'
  <1> USE DEF BaseInv
  <1>0. Grown
    BY CookiesStep
  <1>1. ASSUME UNCHANGED <<sealed, tokens>> PROVE (Capped /\ Drawn /\ FlowBound)'
    BY <1>1 DEF Capped, Drawn, FlowBound
  <1>2. ASSUME NEW b \in Browsers, Request(b) PROVE (Typed /\ Capped /\ Drawn /\ FlowBound)'
    <2>1. Answered(b) /\ Draws /\ Quick(b)
      BY <1>2, RequestAnswers, RequestQuick
    <2>2. tokens' \in Seq([browser : Browsers, use : {"form", "oidc", "saml"}])
      <3>1. ASSUME NEW T, tokens \in Seq(T), NEW t \in T, tokens' = Append(tokens, t)
            PROVE  tokens' \in Seq(T)
        BY <3>1, AppendProperties
      <3> QED
        BY <2>1, <3>1, Zenon DEF Typed, Draws
    <2>3. CASE sealed' = sealed
      <3>1. Typed'
        BY <2>1, <2>2, <2>3, Zenon DEF Typed, Quick
      <3>2. (Capped /\ Drawn /\ FlowBound)'
        BY <1>0, <2>3 DEF Capped, Drawn, FlowBound, Grown
      <3> QED
        BY <3>1, <3>2
    <2>4. ASSUME NEW s, NEW consumed, Seals(b, s, consumed)
          PROVE  (Typed /\ Capped /\ Drawn /\ FlowBound)'
      <3>1. /\ sealed' = Append(sealed, s) /\ s \in SessionSet /\ s.browser = b
            /\ s.expiresAt = s.login + Lifetime
            /\ s.token # 0 => s.token \in DOMAIN tokens /\ tokens[s.token].browser = b
        BY <2>4 DEF Seals
      <3>2. /\ sealed' \in Seq(SessionSet)
            /\ \A n \in DOMAIN sealed' : n \in DOMAIN sealed \/ sealed'[n] = s
        BY <3>1, AppendProperties DEF Typed
      <3>3. Typed'
        BY <2>1, <2>2, <3>2, Zenon DEF Typed, Quick
      <3>4. Capped'
        BY <1>0, <3>1, <3>2 DEF Capped, Grown
      <3>5. Drawn'
        BY <1>0, <3>1, <3>2 DEF Drawn, Grown
      <3>6. FlowBound'
        BY <1>0, <3>1, <3>2 DEF FlowBound, Drawn, Grown
      <3> QED
        BY <3>3, <3>4, <3>5, <3>6
    <2> QED
      BY <2>1, <2>3, <2>4 DEF Answered, Still, Plain, Clears
  <1>3. CASE Outside
    <2>1. UNCHANGED <<sealed, tokens, scenario>>
      BY <1>3, OutsideSeals, Zenon
         DEF Outside, Deliver, Lose, PublishKey, RetireKey, ChangeKeys, Reload, Tick, Quiet
    <2>2. now' \in Nat
      <3>1. now' = now \/ now' = now + 1
        BY <1>3, Zenon DEF Outside, Deliver, Lose, PublishKey, RetireKey, ChangeKeys, Reload, Tick
      <3> QED
        BY <3>1 DEF Typed
    <2>3. DOMAIN jar' = Browsers
      BY <1>3, Zenon DEF Typed, Outside, Deliver, Lose, PublishKey, RetireKey, ChangeKeys, Reload,
                  Tick, browserVars
    <2>4. lost' \in [Browsers -> BOOLEAN]
      BY <1>3, Zenon DEF Typed, Outside, Deliver, Lose, PublishKey, RetireKey, ChangeKeys, Reload, Tick
    <2> QED
      BY <1>1, <2>1, <2>2, <2>3, <2>4 DEF Typed
  <1>4. CASE UNCHANGED vars
    BY <1>1, <1>4 DEF Typed, vars, browserVars
  <1> QED
    BY <1>2, <1>3, <1>4 DEF Next, Outside

\* A request is let through by a session before the session's login ends.
LEMMA LastStep == BaseInv /\ [Next]_vars => SessionCapped'
  <1> SUFFICES ASSUME BaseInv, [Next]_vars, last'.result = "session"
               PROVE  now' < last'.login + Lifetime
    BY DEF SessionCapped
  <1> USE DEF BaseInv
  <1>0. Nobody.result # "session"
    BY DEF Nobody
  <1>1. ASSUME NEW b \in Browsers, Request(b) PROVE now' < last'.login + Lifetime
    <2>1. PICK n : /\ n = OpenSession(b) /\ n # 0
                   /\ last' = [result |-> "session", login |-> sealed[n].login]
      <3>1. CASE BySession(b)
        BY <3>1 DEF BySession
      <3>2. ASSUME NEW p, NEW up, NEW keysUp, NEW size, Evaluate(b, p, up, keysUp, size)
            PROVE  \E n : /\ n = OpenSession(b) /\ n # 0
                          /\ last' = [result |-> "session", login |-> sealed[n].login]
        <4>1. CASE ByRefresh(b, p, keysUp, size)
          BY <4>1 DEF ByRefresh
        <4>2. ASSUME NEW kid, ByBearer(b, p, kid, up, keysUp, size) PROVE FALSE
          BY <1>0, <4>2, Zenon DEF ByBearer
        <4> QED
          BY <1>0, <3>2, <4>1, <4>2, Zenon DEF Evaluate, Unauthenticated, ByBind, LogIn
      <3>3. last' # Nobody
        BY <1>0
      <3>4. ASSUME NEW p, NEW token, NEW up, NEW keysUp, NEW size,
                   Return(b, p, token, up, keysUp, size)
            PROVE  FALSE
        <4>1. ~ServeOIDCCallback(b, p, token, up, keysUp, size)
          BY <3>3 DEF ServeOIDCCallback, Rejected, LogIn
        <4>2. ~ServeSAMLACS(b, token, up, size)
          BY <3>3, Zenon DEF ServeSAMLACS, Rejected, LogIn
        <4>3. \A bound \in BOOLEAN : ~ServeLDAPLogin(b, token, up, bound, size)
          BY <3>3, Zenon DEF ServeLDAPLogin, Rejected, LogIn
        <4> QED
          BY <3>4, <4>1, <4>2, <4>3 DEF Return
      <3>5. ~ServeLogin(b) /\ \A provider, up : ~ServeStart(b, provider, up)
        BY <3>3, Zenon DEF ServeLogin, ServeStart, Rejected
      <3>6. ~ServeLogout(b) /\ \A up : ~ServeSAMLSLO(b, up)
        BY <3>3 DEF ServeLogout, ServeSAMLSLO, Clear, Rejected
      <3> QED
        BY <1>1, <3>1, <3>2, <3>4, <3>5, <3>6, Zenon DEF Request
    <2>2. n \in DOMAIN sealed /\ now < sealed[n].expiresAt
      BY <2>1, OpenOwn, Zenon
    <2>3. now' = now
      BY <1>1, RequestQuick DEF Quick
    <2> QED
      BY <2>1, <2>2, <2>3 DEF Capped
  <1>2. CASE Outside
    BY <1>0, <1>2, Zenon DEF Outside, Deliver, Lose, PublishKey, RetireKey, ChangeKeys, Reload, Tick
  <1>3. CASE UNCHANGED vars
    BY <1>3 DEF vars, SessionCapped
  <1> QED
    BY <1>1, <1>2, <1>3 DEF Next, Outside

\* Every step keeps the invariant.
LEMMA BaseStep == BaseInv /\ [Next]_vars => BaseInv'
  BY CookiesStep, SealedStep, LastStep DEF BaseInv

\* Behaviours begin with one session at most, in the jar of its browser.
LEMMA BaseInit == Init => BaseInv
  <1> SUFFICES ASSUME Init PROVE BaseInv
    OBVIOUS
  <1>1. PICK b \in Browsers :
          /\ sealed = IF "page" \in scenario.may[b] THEN <<LoggedIn(b)>> ELSE <<>>
          /\ jar = [c \in Browsers |->
                      IF c = b /\ "page" \in scenario.may[b]
                      THEN Apply(SealSession(EmptyJar, 1, 1), EmptyJar) ELSE EmptyJar]
    BY DEF Init
  <1>2. LoggedIn(b) \in SessionSet
    BY SlotNames, SessionsAssumption DEF LoggedIn, SessionSet
  <1>3. Typed
    <2>1. sealed \in Seq(SessionSet)
      BY <1>1, <1>2
    <2> QED
      BY <1>1, <2>1 DEF Init, Typed
  <1>4. Capped /\ Drawn /\ FlowBound
    BY <1>1, SessionsAssumption DEF Capped, Drawn, FlowBound, LoggedIn
  <1>5. SessionCapped
    BY DEF Init, SessionCapped, Nobody
  <1>6. ASSUME NEW c \in Browsers PROVE JarOK(c)
    <2>1. CASE jar[c] = EmptyJar
      BY <2>1, SlotNames DEF JarOK, EmptyJar
    <2>2. CASE jar[c] # EmptyJar
      <3> DEFINE set == SealSession(EmptyJar, 1, 1)
      <3>1. c = b /\ sealed = <<LoggedIn(b)>> /\ jar[c] = Apply(set, EmptyJar)
        BY <1>1, <2>2
      <3>2. /\ DOMAIN set \subseteq ChunkNames
            /\ \A i \in 1 .. 1 : ChunkName[i] \in DOMAIN set /\ set[ChunkName[i]] = Part(1, i)
            /\ \A i \in 1 + 1 .. MaxChunks :
                  ChunkName[i] \in DOMAIN set => set[ChunkName[i]] = NoCookie
        BY SlotNames, SealSets
      <3> HIDE DEF set
      <3>3. DOMAIN EmptyJar = ChunkNames \cup {"state"}
              /\ \A x \in ChunkNames \cup {"state"} : EmptyJar[x] = NoCookie
        BY DEF EmptyJar
      <3>4. /\ DOMAIN jar[c] = ChunkNames \cup {"state"}
            /\ \A x \in ChunkNames \cup {"state"} :
                  jar[c][x] = IF x \in DOMAIN set THEN set[x] ELSE NoCookie
        BY <3>1, <3>3 DEF Apply
      <3>5. jar[c]["state"] = NoCookie
        BY <3>2, <3>4, SlotNames
      <3>6. ASSUME NEW i \in Slots, jar[c][ChunkName[i]] # NoCookie
            PROVE  jar[c][ChunkName[i]].session = 1
        <4>1. ChunkName[i] \in DOMAIN set /\ jar[c][ChunkName[i]] = set[ChunkName[i]]
          BY <3>4, <3>6, SlotNames
        <4>2. i = 1
          BY <3>2, <3>6, <4>1, CookiesAssumption DEF Slots
        <4> QED
          BY <3>2, <4>1, <4>2 DEF Part
      <3>7. 1 \in DOMAIN sealed /\ sealed[1].browser = c
        BY <3>1 DEF LoggedIn
      <3> QED
        BY <3>4, <3>5, <3>6, <3>7 DEF JarOK
    <2> QED
      BY <2>1, <2>2
  <1>7. flight = {}
    BY DEF Init
  <1> QED
    BY <1>3, <1>4, <1>5, <1>6, <1>7 DEF BaseInv, CookiesOK

\* However often it is refreshed, no request is let through by a session
\* after the lifetime its login gave it, for all lifetimes, browsers and
\* orders in which requests and responses meet (OpenSession, Refresh).
THEOREM SessionsCapped == Spec => []SessionCapped
  <1>1. BaseInv => SessionCapped
    BY DEF BaseInv
  <1> QED
    BY <1>1, BaseInit, BaseStep, PTL DEF Spec

\* A session that comes out of a login flow goes to the browser that began
\* the flow, whatever callbacks and forms arrive from whom (the state, PKCE,
\* InResponseTo and form token checks of the endpoints).
THEOREM FlowsBound == Spec => []FlowBound
  <1>1. BaseInv => FlowBound
    BY DEF BaseInv
  <1> QED
    BY <1>1, BaseInit, BaseStep, PTL DEF Spec
-----------------------------------------------------------------------------
\* A browser whose chunks stay reads what it read: sessions are sealed for
\* good, and so are their sizes.
LEMMA ReadSame ==
  ASSUME BaseInv, Grown, NEW b \in Browsers,
         \A i \in Slots : jar'[b][ChunkName[i]] = jar[b][ChunkName[i]]
  PROVE  Decrypted(jar'[b], SizeOf') = Decrypted(jar[b], SizeOf)
  <1>1. ASSUME jar[b][ChunkName[1]] # NoCookie
        PROVE  SizeOf'[jar[b][ChunkName[1]].session] = SizeOf[jar[b][ChunkName[1]].session]
    <2> DEFINE n == jar[b][ChunkName[1]].session
    <2>1. n \in DOMAIN sealed
      BY <1>1, SlotNames, Zenon DEF BaseInv, CookiesOK, JarOK
    <2> HIDE DEF n
    <2>2. n \in DOMAIN sealed' /\ sealed'[n] = sealed[n]
      BY <2>1, Zenon DEF Grown
    <2>3. SizeOf'[n] = SizeOf[n]
      BY <2>1, <2>2 DEF SizeOf
    <2> QED
      BY <2>3 DEF n
  <1> QED
    BY <1>1, DecryptedSame

\* A response that met the chunks it was made for leaves the session it
\* seals, or none.
LEMMA DeliveredRead ==
  ASSUME BaseInv, NEW r \in flight, Deliver(r), r.session # Unknown, ChunksOf(r.to) = r.had
  PROVE  Decrypted(jar'[r.to], SizeOf') = r.session
  <1> DEFINE b == r.to
             k == jar'[b]
  <1>1. AnswerOK(r) /\ b \in Browsers /\ JarOK(b)
    BY DEF BaseInv, CookiesOK, AnswerOK
  <1>2. jar'[b] = Apply(r.set, jar[b]) /\ sealed' = sealed
    BY <1>1 DEF BaseInv, Typed, Deliver, Quiet
  <1>3. \A i \in Slots : k[ChunkName[i]] = IF ChunkName[i] \in DOMAIN r.set
                                           THEN r.set[ChunkName[i]] ELSE jar[b][ChunkName[i]]
    BY <1>1, <1>2, SlotNames, Zenon DEF Apply, JarOK
  <1>4. CASE r.session = 0 /\ SetsCleared(r)
    <2>1. k[ChunkName[1]] = NoCookie
      BY <1>3, <1>4, SlotNames DEF SetsCleared
    <2> QED
      BY <1>4, <2>1, DecryptedNone
  <1>5. CASE r.session \in DOMAIN sealed /\ SetsSealed(r, sealed[r.session].size)
    <2> DEFINE n == r.session
               size == sealed[n].size
    <2>1. size \in Slots
      <3>1. sealed[n] \in SessionSet
        BY <1>5 DEF BaseInv, Typed
      <3> QED
        BY <3>1 DEF SessionSet
    <2>2. SizeOf'[n] = size
      BY <1>2, <1>5 DEF SizeOf
    <2>3. /\ \A i \in 1 .. size : i \in Slots
          /\ \A i \in size + 1 .. MaxChunks : i \in Slots
      BY <2>1, CookiesAssumption DEF Slots
    <2>4. \A i \in Slots : jar[b][ChunkName[i]] = r.had[ChunkName[i]]
      BY SlotNames DEF ChunksOf
    <2> HIDE DEF size, k, b
    <2>5. ASSUME NEW i \in 1 .. size PROVE k[ChunkName[i]] = Part(n, i)
      BY <1>3, <1>5, <2>3 DEF SetsSealed, size
    <2>6. ASSUME NEW i \in size + 1 .. MaxChunks PROVE k[ChunkName[i]] = NoCookie
      BY <1>3, <1>5, <2>3, <2>4 DEF SetsSealed, size
    <2> HIDE DEF n
    <2>7. Decrypted(k, SizeOf') = n
      BY <2>1, <2>2, <2>5, <2>6, DecryptedSealed
    <2> QED
      BY <2>7 DEF k, b, n
  <1> QED
    BY <1>1, <1>4, <1>5, Zenon DEF AnswerOK

\* Every step keeps what settled browsers read.
LEMMA SettledStep == BaseInv /\ SettledInv /\ [Next]_vars => SettledInv'
  <1> SUFFICES ASSUME BaseInv, SettledInv, [Next]_vars PROVE SettledInv'
    OBVIOUS
  <1>0. Grown
    BY CookiesStep
  <1>1. CASE UNCHANGED <<jar, settled>>
    <2>1. settled' \in [Browsers -> Int]
      BY <1>1 DEF SettledInv
    <2>2. ASSUME NEW b \in Browsers, settled'[b] # Unknown
          PROVE  Decrypted(jar'[b], SizeOf') = settled'[b]
      <3>1. Decrypted(jar'[b], SizeOf') = Decrypted(jar[b], SizeOf)
        BY <1>0, <1>1, ReadSame
      <3> QED
        BY <1>1, <2>2, <3>1 DEF SettledInv, LatestKept
    <2> QED
      BY <2>1, <2>2 DEF SettledInv, LatestKept
  <1>2. ASSUME NEW r \in flight, Deliver(r) PROVE SettledInv'
    <2>1. /\ jar' = [jar EXCEPT ![r.to] = Apply(r.set, @)]
          /\ settled' = [settled EXCEPT ![r.to] =
                            IF r.session = Unknown THEN @
                            ELSE IF ChunksOf(r.to) = r.had THEN r.session ELSE Unknown]
      BY <1>2 DEF Deliver
    <2>2. r.to \in Browsers /\ AnswerOK(r) /\ JarOK(r.to)
      BY Zenon DEF BaseInv, CookiesOK, AnswerOK
    <2>3. r.session \in Int
      BY <2>2 DEF AnswerOK, BaseInv, Typed, Unknown
    <2>4. settled' \in [Browsers -> Int]
      BY <2>1, <2>2, <2>3 DEF SettledInv, Unknown
    <2>5. ASSUME NEW b \in Browsers, settled'[b] # Unknown
          PROVE  Decrypted(jar'[b], SizeOf') = settled'[b]
      <3>1. CASE b # r.to
        <4>1. jar'[b] = jar[b] /\ settled'[b] = settled[b]
          BY <2>1, <3>1 DEF BaseInv, Typed, SettledInv
        <4>2. Decrypted(jar'[b], SizeOf') = Decrypted(jar[b], SizeOf)
          BY <1>0, <4>1, ReadSame
        <4> QED
          BY <2>5, <4>1, <4>2 DEF SettledInv, LatestKept
      <3>2. CASE b = r.to /\ r.session = Unknown
        <4>1. settled'[b] = settled[b] /\ jar'[b] = Apply(r.set, jar[b])
          BY <2>1, <3>2 DEF BaseInv, Typed, SettledInv
        <4>2. SetsNone(r)
          BY <2>2, <3>2 DEF AnswerOK, Unknown, BaseInv, Typed
        <4>3. \A i \in Slots : jar'[b][ChunkName[i]] = jar[b][ChunkName[i]]
          BY <2>2, <3>2, <4>1, <4>2, SlotNames, Zenon DEF Apply, JarOK, SetsNone
        <4>4. Decrypted(jar'[b], SizeOf') = Decrypted(jar[b], SizeOf)
          BY <1>0, <4>3, ReadSame
        <4> QED
          BY <2>5, <4>1, <4>4 DEF SettledInv, LatestKept
      <3>3. CASE b = r.to /\ r.session # Unknown
        <4>1. settled'[b] = IF ChunksOf(r.to) = r.had THEN r.session ELSE Unknown
          BY <2>1, <3>3 DEF SettledInv
        <4> QED
          BY <1>2, <2>5, <3>3, <4>1, DeliveredRead
      <3> QED
        BY <3>1, <3>2, <3>3
    <2> QED
      BY <2>4, <2>5 DEF SettledInv, LatestKept
  <1>3. ASSUME NEW b \in Browsers, Request(b) PROVE UNCHANGED <<jar, settled>>
    BY <1>3, RequestQuick DEF Quick
  <1>4. ASSUME NEW r \in flight, Lose(r) PROVE UNCHANGED <<jar, settled>>
    BY <1>4 DEF Lose
  <1>5. ASSUME PublishKey \/ (\E k \in published : RetireKey(k)) \/ (\E p \in Pods : Reload(p))
                 \/ Tick \/ UNCHANGED vars
        PROVE  UNCHANGED <<jar, settled>>
    BY <1>5, Zenon DEF PublishKey, RetireKey, ChangeKeys, Reload, Tick, browserVars, vars
  <1> QED
    BY <1>1, <1>2, <1>3, <1>4, <1>5 DEF Next

\* A browser that applied one response at a time reads the session the last
\* one sealed, or none: chunks of an older, larger session never spoil it,
\* for sessions of any sizes and responses in any order (SealSession and
\* ClearSession expire the chunks the request came with).
THEOREM LatestRead == Spec => []LatestKept
  <1>1. Init => SettledInv
    <2>1. Init => settled = [b \in Browsers |-> Unknown]
      BY Zenon DEF Init
    <2> QED
      BY <2>1 DEF SettledInv, LatestKept, Unknown
  <1>2. SettledInv => LatestKept
    BY DEF SettledInv
  <1> QED
    BY <1>1, <1>2, BaseInit, BaseStep, SettledStep, PTL DEF Spec
=============================================================================
