------------------------------- MODULE Cookies ------------------------------
(***************************************************************************)
(* The cookies of one authentication extension (auth/session.go) and its   *)
(* cached signing keys (auth/jwt.go), as functions of their inputs.        *)
(*                                                                         *)
(* A sealed session is known by its number; it takes size chunks, the      *)
(* cookies s0, s1, ...  Only all chunks of one session in their order can  *)
(* be decrypted.  A response carries the cookies it sets: a function from  *)
(* some names to values, NoCookie to expire one.                           *)
(***************************************************************************)
EXTENDS Integers, Sequences

CONSTANTS
    MaxChunks,      \* chunks a session may take
    TTL, Backoff    \* how long keys are kept, and a miss is remembered

\* The code has four chunks; sizes and times only have to be sane.
ASSUME CookiesAssumption == MaxChunks \in 1 .. 4 /\ TTL \in Nat /\ Backoff \in Nat

NoCookie == [none |-> TRUE]

ChunkName == <<"s0", "s1", "s2", "s3">>

ChunkNames == {ChunkName[i] : i \in 1 .. MaxChunks}

EmptyJar == [n \in ChunkNames \cup {"state"} |-> NoCookie]

Chunks(number, size) == [i \in 1 .. size |-> [session |-> number, part |-> i]]

\* The cookies that a browser has, and of which a response expires those
\* from the given chunk on.
Stale(jar, from) ==
    {ChunkName[i] : i \in {j \in from .. MaxChunks : jar[ChunkName[j]] # NoCookie}}

\* (mutant) Chunks of a larger session before it stay.
SealOver(jar, number, size) ==
    [n \in {ChunkName[i] : i \in 1 .. size} |->
        Chunks(number, size)[CHOOSE i \in 1 .. size : ChunkName[i] = n]]

\* SealSession, of a session within the budget.
SealSession(jar, number, size) ==
    LET stale == Stale(jar, size + 1)
    IN  [n \in {ChunkName[i] : i \in 1 .. size} \cup stale |->
            IF n \in stale THEN NoCookie
            ELSE Chunks(number, size)[CHOOSE i \in 1 .. size : ChunkName[i] = n]]

\* The chunks OpenSession joins: up to the first that is missing.
Joined(jar) ==
    LET Present(k) == \A i \in 1 .. k : jar[ChunkName[i]] # NoCookie
        count == CHOOSE k \in 0 .. MaxChunks :
                     Present(k) /\ (k < MaxChunks => ~Present(k + 1))
    IN  [i \in 1 .. count |-> jar[ChunkName[i]]]

\* The session that a jar's chunks are, 0 if they are none.
Decrypted(jar, sizes) ==
    LET first == jar[ChunkName[1]]
    IN  IF first # NoCookie /\ Joined(jar) = Chunks(first.session, sizes[first.session])
        THEN first.session ELSE 0

\* ClearSession
ClearSession(jar) == [n \in {ChunkName[1]} \cup Stale(jar, 2) |-> NoCookie]

SealState(state) == [n \in {"state"} |-> state]

ClearState == [n \in {"state"} |-> NoCookie]

\* The cookies that two calls set on one response.
Both(set, other) ==
    [n \in DOMAIN set \cup DOMAIN other |-> IF n \in DOMAIN set THEN set[n] ELSE other[n]]

\* The response is applied to the jar of the browser.
Apply(set, jar) == [n \in DOMAIN jar |-> IF n \in DOMAIN set THEN set[n] ELSE jar[n]]

-----------------------------------------------------------------------------
NoKeys == [keys |-> {}, fetchedAt |-> 0, missedAt |-> -Backoff - 1]

\* fetchLocked, of a provider that answers.
Fetched(cache, published, now) == [cache EXCEPT !.keys = published, !.fetchedAt = now]

Found(cache, kid) ==
    [cache |-> cache, result |-> IF kid \in cache.keys THEN "found" ELSE "no key"]

\* (mutant) Every miss starts the window anew.
MissedSliding(cache, kid, published, up, now) ==
    LET missed == [cache EXCEPT !.missedAt = now]
    IN  IF kid \in cache.keys THEN Found(cache, kid)
        ELSE IF now - cache.missedAt <= Backoff THEN Found(missed, kid)
        ELSE IF ~up THEN [cache |-> missed, result |-> "unavailable"]
        ELSE Found(Fetched(missed, published, now), kid)

\* The second half of keysFor: one more fetch per window for a key that is
\* not known.
Missed(cache, kid, published, up, now) ==
    LET missed == [cache EXCEPT !.missedAt = now]
    IN  IF kid \in cache.keys THEN Found(cache, kid)
        ELSE IF now - cache.missedAt <= Backoff THEN Found(cache, kid)
        ELSE IF ~up THEN [cache |-> missed, result |-> "unavailable"]
        ELSE Found(Fetched(missed, published, now), kid)

IsStale(cache, now) == cache.keys = {} \/ now - cache.fetchedAt > TTL

\* keysFor: the keys are fetched when there are none or they are too old.
KeysFor(cache, kid, published, up, now) ==
    IF ~IsStale(cache, now) THEN Missed(cache, kid, published, up, now)
    ELSE IF up THEN Missed(Fetched(cache, published, now), kid, published, up, now)
    ELSE [cache |-> cache, result |-> "unavailable"]
=============================================================================
