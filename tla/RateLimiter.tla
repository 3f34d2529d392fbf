----------------------------- MODULE RateLimiter -----------------------------
(***************************************************************************)
(* The token buckets of one rule (extensions/ratelimiting/limiter.go):     *)
(* requests read the clock, queue for the mutex and take a token, and      *)
(* every SweepEvery-th of them drops the buckets that were idle for two    *)
(* windows.                                                                *)
(*                                                                         *)
(* Time is kept relative: an age is how long ago the clock showed the      *)
(* value the code stored. Tokens are counted in 1/Window-ths, so that one  *)
(* tick of the clock adds Requests of them and a request costs Window.     *)
(***************************************************************************)
EXTENDS Integers, FiniteSetsExt

CONSTANTS
    Keys,         \* client keys, the anonymous one under a name of its own
    Clients,      \* goroutines serving requests
    Requests,
    Window,
    Burst,        \* the merged configuration
    SweepEvery,
    SecondTicks,  \* ticks of the clock in a second
    Overlap,      \* may requests of one key overlap?
    MaxDelay      \* bound on the wait for the mutex

ASSUME LimiterAssumption ==
    /\ "none" \notin Keys
    /\ Requests \in Nat \ {0} /\ Window \in Nat \ {0} /\ Burst \in Nat \ {0}
    /\ SweepEvery \in Nat \ {0} /\ SecondTicks \in Nat \ {0}
    /\ Overlap \in BOOLEAN /\ MaxDelay \in Nat

Capacity == Burst * Window

\* Beyond this age a bucket is full and past every horizon.
MaxAge == MaxDelay + Max({2 * Window + 1, Capacity})

Older(age) == IF age < MaxAge THEN age + 1 ELSE MaxAge

NoBucket == [tokens |-> -1, age |-> 0]

Idle == [key |-> "none", age |-> 0]

NoRetry == -1

VARIABLES
    buckets,  \* the limiter's buckets: tokens, and the age of last
    ops,      \* requests since the last sweep
    pending,  \* for each client, the request waiting for the mutex
    ideal,    \* tokens of a bucket per key that is refilled on every tick
    retry     \* ticks until a rejected client has waited long enough

vars == <<buckets, ops, pending, ideal, retry>>

Init ==
    /\ buckets = [k \in Keys |-> NoBucket]
    /\ ops = 0
    /\ pending = [c \in Clients |-> Idle]
    /\ ideal = [k \in Keys |-> Capacity]
    /\ retry = [k \in Keys |-> NoRetry]

Waiting(k) == \E c \in Clients : pending[c].key = k

-----------------------------------------------------------------------------
\* The clock moves on. The ideal bucket is refilled at once.
Tick ==
    /\ \A c \in Clients : pending[c] # Idle => pending[c].age < MaxDelay
    /\ buckets' = [k \in Keys |-> IF buckets[k] = NoBucket THEN NoBucket
                                  ELSE [buckets[k] EXCEPT !.age = Older(@)]]
    /\ pending' = [c \in Clients |-> IF pending[c] = Idle THEN Idle
                                     ELSE [pending[c] EXCEPT !.age = @ + 1]]
    /\ ideal' = [k \in Keys |-> Min({Capacity, ideal[k] + Requests})]
    /\ retry' = [k \in Keys |-> IF retry[k] > 0 THEN retry[k] - 1 ELSE retry[k]]
    /\ UNCHANGED ops

\* Allow reads the clock before it takes the mutex. A client that comes back
\* early has forgotten the Retry-After it was given.
Arrive(c, k) ==
    /\ pending[c] = Idle
    /\ Overlap \/ ~Waiting(k)
    /\ pending' = [pending EXCEPT ![c] = [key |-> k, age |-> 0]]
    /\ retry' = [retry EXCEPT ![k] = IF @ > 0 THEN NoRetry ELSE @]
    /\ UNCHANGED <<buckets, ops, ideal>>

\* (mutant) A horizon of one window.
SweepEarly(delay) ==
    [k \in Keys |-> IF buckets[k].age > delay + Window THEN NoBucket
                    ELSE buckets[k]]

\* (mutant) Nothing is reclaimed.
SweepNothing(delay) == buckets

\* sweep: a bucket last used before now minus two windows is dropped.
Sweep(delay) ==
    [k \in Keys |-> IF buckets[k].age > delay + 2 * Window THEN NoBucket
                    ELSE buckets[k]]

Swept(delay) == IF ops + 1 = SweepEvery THEN Sweep(delay) ELSE buckets

\* The tokens once the time since last was credited: none when the request
\* read the clock before the one served last.
Refilled(b, delay) ==
    IF b.age > delay THEN Min({Capacity, b.tokens + (b.age - delay) * Requests})
    ELSE b.tokens

\* (mutant) The wait for the tokens there are, not for those that lack.
RetryOnTokens(tokens) ==
    LET wait == tokens \div Requests
    IN  Max({SecondTicks, ((wait + SecondTicks - 1) \div SecondTicks) * SecondTicks})

\* The wait until the next token, truncated to the clock's resolution by
\* Allow and rounded up to whole seconds, at least one, by serveExtensions.
RetryAfter(tokens) ==
    LET wait == (Window - tokens) \div Requests
    IN  Max({SecondTicks, ((wait + SecondTicks - 1) \div SecondTicks) * SecondTicks})

\* Allow, under the mutex.
Allow(c) ==
    LET k      == pending[c].key
        delay  == pending[c].age
        swept  == Swept(delay)
        entry  == IF swept[k] = NoBucket
                  THEN [tokens |-> Capacity, age |-> delay] ELSE swept[k]
        tokens == Refilled(entry, delay)
        cost   == IF tokens >= Window THEN Window ELSE 0
    IN  /\ pending[c] # Idle
        /\ pending' = [pending EXCEPT ![c] = Idle]
        /\ ops' = (ops + 1) % SweepEvery
        /\ buckets' = [swept EXCEPT ![k] = [tokens |-> tokens - cost, age |-> delay]]
        /\ ideal' = [ideal EXCEPT ![k] = @ - cost]
        /\ retry' = [retry EXCEPT ![k] = IF cost = 0 THEN RetryAfter(tokens) + 1
                                         ELSE NoRetry]

Next ==
    \/ Tick
    \/ \E c \in Clients : Allow(c) \/ \E k \in Keys : Arrive(c, k)

Spec == Init /\ [][Next]_vars

\* The clock runs, and the mutex is granted to whoever waits for it.
FairSpec == Spec /\ WF_vars(Tick) /\ \A c \in Clients : WF_vars(Allow(c))

-----------------------------------------------------------------------------

\* No key is ever granted more than Burst requests plus Requests for every
\* Window that passed: what Allow grants, a bucket that is refilled in time
\* and never dropped would have granted too, give or take the time one
\* request may wait for the mutex.
NeverOverspent == \A k \in Keys : ideal[k] >= -(MaxDelay * Requests)

\* A client that was told to come back in some seconds, comes later than that
\* and was alone on its key is not rejected again.
RetryHonoured ==
    [][\A c \in Clients, k \in Keys :
         Allow(c) /\ pending[c].key = k /\ retry[k] = 0
           => retry'[k] = NoRetry]_vars

\* The bucket of a key nobody uses any more is reclaimed, as long as other
\* requests go on.
Reclaimed ==
    \A k \in Keys :
        <>[]~Waiting(k) /\ []<><<\E c \in Clients : Allow(c)>>_vars
            => <>[](buckets[k] = NoBucket)
==============================================================================
