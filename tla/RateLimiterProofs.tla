-------------------------- MODULE RateLimiterProofs --------------------------
(***************************************************************************)
(* What the limiter grants and what it promises to a client it rejects,    *)
(* for any keys, clients, rates, windows, bursts and waits for the mutex:  *)
(* as long as requests of one key do not overlap and, for the first one, a *)
(* bucket that idles until it is swept is full by then.                    *)
(***************************************************************************)
EXTENDS RateLimiter, TLAPS

\* What a bucket gains in n ticks.
Refill(n) == n * Requests

\* A bucket that was empty when it was last used is full again when it is
\* swept, and was so MaxDelay ago already: a request that read the clock
\* then may still come for it.
FullWhenSwept == Capacity + Refill(MaxDelay) <= Refill(2 * Window + 1)

Buckets == [tokens : 0 .. Capacity, age : 0 .. MaxAge]

Types ==
    /\ buckets \in [Keys -> Buckets \cup {NoBucket}]
    /\ ops \in Nat
    /\ pending \in [Clients -> [key : Keys, age : 0 .. MaxDelay] \cup {Idle}]
    /\ ideal \in [Keys -> Int] /\ \A k \in Keys : ideal[k] <= Capacity
    /\ retry \in [Keys -> Nat \cup {NoRetry}]

\* A key has one request at a time, which read the clock after the request
\* that used the bucket last.
Alone ==
    /\ \A c, e \in Clients :
          pending[c].key = pending[e].key /\ pending[c] # Idle => c = e
    /\ \A c \in Clients : \A k \in Keys :
          pending[c].key = k /\ buckets[k] # NoBucket => pending[c].age <= buckets[k].age

\* The ideal bucket is full, or holds what the bucket would hold if it had
\* been used MaxDelay earlier. Where there is no bucket it would hold all
\* that a request takes the new one for.
Funded ==
    \A k \in Keys :
        /\ buckets[k] # NoBucket =>
              \/ ideal[k] = Capacity
              \/ ideal[k] + Refill(MaxDelay) >= buckets[k].tokens + Refill(buckets[k].age)
        /\ buckets[k] = NoBucket =>
              /\ ideal[k] + Refill(MaxDelay) >= Capacity
              /\ \A c \in Clients : pending[c].key = k =>
                    ideal[k] + Refill(MaxDelay) >= Capacity + Refill(pending[c].age)

\* A client that is still to wait has no request under way, and the bucket
\* holds a token when the wait is over, at the time its request read.
Repaid ==
    \A k \in Keys : retry[k] # NoRetry /\ buckets[k] # NoBucket =>
        /\ buckets[k].tokens + Refill(buckets[k].age + retry[k]) >= Window
        /\ \A c \in Clients : pending[c].key = k =>
              /\ retry[k] = 0
              /\ buckets[k].tokens + Refill(buckets[k].age - pending[c].age) >= Window

-----------------------------------------------------------------------------
\* The smaller and the larger one of two numbers (math.Min, max).
LEMMA MinOfTwo ==
  ASSUME NEW a \in Int, NEW b \in Int
  PROVE  Min({a, b}) = IF a <= b THEN a ELSE b
  <1>1. PICK m \in {a, b} : \A x \in {a, b} : m <= x
    OBVIOUS
  <1> QED
    BY <1>1 DEF Min

\* The larger of two numbers.
LEMMA MaxOfTwo ==
  ASSUME NEW a \in Int, NEW b \in Int
  PROVE  Max({a, b}) = IF a <= b THEN b ELSE a
  <1>1. PICK m \in {a, b} : \A x \in {a, b} : m >= x
    OBVIOUS
  <1> QED
    BY <1>1 DEF Max

\* Refill is linear and grows.
LEMMA RefillGrows ==
  ASSUME NEW m \in Nat, NEW n \in Nat
  PROVE  /\ Refill(n) \in Nat
         /\ Refill(m + n) = Refill(m) + Refill(n)
         /\ n <= Refill(n)
         /\ m <= n => Refill(m) <= Refill(n) /\ Refill(n - m) = Refill(n) - Refill(m)
  <1> Requests \in Nat /\ Requests >= 1
    BY LimiterAssumption
  <1>1. \A i \in Nat : i * Requests \in Nat /\ i <= i * Requests
    OBVIOUS
  <1>2. (m + n) * Requests = m * Requests + n * Requests
    OBVIOUS
  <1>3. ASSUME m <= n PROVE (n - m) * Requests = n * Requests - m * Requests
    BY <1>3
  <1>4. n - m \in Nat \/ ~(m <= n)
    OBVIOUS
  <1> QED
    BY <1>1, <1>2, <1>3, <1>4 DEF Refill

\* refill never takes tokens away.
LEMMA RefillNat == \A n \in Nat : Refill(n) \in Nat
  BY RefillGrows

\* A bucket that waits longer refills at least as much.
LEMMA RefillMonotone == \A m, n \in Nat : m <= n => Refill(m) <= Refill(n)
  BY RefillGrows

\* A second refills the rate, which is positive.
LEMMA RefillOne == Refill(1) = Requests /\ Requests \in Nat /\ Requests >= 1 /\ Refill(0) = 0
  BY LimiterAssumption DEF Refill

\* The numbers of the model: MaxAge is an age at which every bucket is full
\* for every request that may still come.
LEMMA Sizes ==
  /\ Capacity \in Nat /\ Window \in Nat /\ Window >= 1 /\ Window <= Capacity
  /\ MaxDelay \in Nat /\ MaxAge \in Nat
  /\ MaxDelay + Capacity <= MaxAge /\ MaxDelay + 2 * Window + 1 <= MaxAge
  <1>1. /\ Window \in Nat /\ Window >= 1 /\ Burst \in Nat /\ Burst >= 1 /\ MaxDelay \in Nat
    BY LimiterAssumption
  <1>2. Capacity \in Nat /\ Window <= Capacity
    BY <1>1 DEF Capacity
  <1>3. Max({2 * Window + 1, Capacity}) = IF 2 * Window + 1 <= Capacity THEN Capacity ELSE 2 * Window + 1
    BY <1>1, <1>2, MaxOfTwo
  <1> QED
    BY <1>1, <1>2, <1>3 DEF MaxAge
-----------------------------------------------------------------------------
\* The tokens a request finds: those of a new bucket, where there is none or
\* the sweep dropped it, or those of the bucket once it is refilled.
Found(k, delay, tokens) ==
    \/ /\ buckets[k] = NoBucket \/ buckets[k].age > delay + 2 * Window
       /\ tokens = Capacity
    \/ /\ buckets[k] # NoBucket
       /\ tokens = Refilled(buckets[k], delay)

Cost(tokens) == IF tokens >= Window THEN Window ELSE 0

\* A bucket of another key stays as it is or is swept.
LeftOrSwept(k, delay) ==
    \/ buckets'[k] = buckets[k]
    \/ /\ buckets[k] # NoBucket /\ buckets[k].age > delay + 2 * Window
       /\ buckets'[k] = NoBucket

Grants(c, k, delay, tokens) ==
    /\ pending[c] = [key |-> k, age |-> delay]
    /\ pending' = [pending EXCEPT ![c] = Idle]
    /\ Found(k, delay, tokens)
    /\ buckets'[k] = [tokens |-> tokens - Cost(tokens), age |-> delay]
    /\ \A j \in Keys \ {k} : LeftOrSwept(j, delay)
    /\ ideal' = [ideal EXCEPT ![k] = @ - Cost(tokens)]
    /\ retry' = [retry EXCEPT ![k] = IF Cost(tokens) = 0 THEN RetryAfter(tokens) + 1
                                     ELSE NoRetry]

\* A pending request has a key and an age, an idle client none.
LEMMA PendingIs ==
  ASSUME Types, NEW c \in Clients
  PROVE  /\ pending[c] # Idle => pending[c].key \in Keys /\ pending[c].age \in 0 .. MaxDelay
         /\ pending[c].key \in Keys <=> pending[c] # Idle
         /\ pending[c] # Idle => pending[c] = [key |-> pending[c].key, age |-> pending[c].age]
  BY LimiterAssumption DEF Types, Idle

\* A bucket has tokens and an age.
LEMMA BucketIs ==
  ASSUME Types, NEW k \in Keys, buckets[k] # NoBucket
  PROVE  buckets[k] \in Buckets /\ buckets[k].tokens \in 0 .. Capacity /\ buckets[k].age \in 0 .. MaxAge
  BY DEF Types, Buckets

\* The refill never exceeds the capacity, and takes nothing away.
LEMMA RefilledIs ==
  ASSUME NEW b \in Buckets, NEW delay \in 0 .. MaxDelay
  PROVE  /\ Refilled(b, delay) \in 0 .. Capacity
         /\ b.age > delay =>
              \/ Refilled(b, delay) = Capacity /\ b.tokens + Refill(b.age - delay) >= Capacity
              \/ Refilled(b, delay) = b.tokens + Refill(b.age - delay)
         /\ b.age <= delay => Refilled(b, delay) = b.tokens
  <1>1. /\ b.tokens \in Nat /\ b.tokens <= Capacity /\ b.age \in Nat /\ delay \in Nat
        /\ Capacity \in Nat
    BY Sizes DEF Buckets
  <1>2. CASE b.age > delay
    <2>1. b.age - delay \in Nat
      BY <1>1, <1>2
    <2> Refill(b.age - delay) \in Nat
      BY <2>1, RefillNat
    <2>2. Refilled(b, delay) = Min({Capacity, b.tokens + Refill(b.age - delay)})
      BY <1>2 DEF Refilled, Refill
    <2>3. b.tokens + Refill(b.age - delay) \in Int
      BY <1>1, <2>1
    <2>4. Refilled(b, delay) = IF Capacity <= b.tokens + Refill(b.age - delay) THEN Capacity
                               ELSE b.tokens + Refill(b.age - delay)
      BY <1>1, <2>2, <2>3, MinOfTwo
    <2> QED
      BY <1>1, <1>2, <2>1, <2>4
  <1>3. CASE b.age <= delay
    BY <1>1, <1>3 DEF Refilled
  <1> QED
    BY <1>1, <1>2, <1>3

\* Allow, by what it does to the buckets, the ideal ones and the client.
LEMMA AllowEffect ==
  ASSUME Types, NEW c \in Clients, Allow(c)
  PROVE  \E k \in Keys, delay \in 0 .. MaxDelay, tokens \in 0 .. Capacity : Grants(c, k, delay, tokens)
  <1> DEFINE k == pending[c].key
             delay == pending[c].age
             swept == Swept(delay)
             entry == IF swept[k] = NoBucket THEN [tokens |-> Capacity, age |-> delay] ELSE swept[k]
             tokens == Refilled(entry, delay)
  <1>1. pending[c] # Idle
    BY DEF Allow
  <1>2. k \in Keys /\ delay \in 0 .. MaxDelay /\ pending[c] = [key |-> k, age |-> delay]
    BY <1>1, PendingIs
  <1>3. \A j \in Keys : \/ swept[j] = buckets[j]
                        \/ buckets[j].age > delay + 2 * Window /\ swept[j] = NoBucket
    BY DEF Swept, Sweep
  <1>4. /\ pending' = [pending EXCEPT ![c] = Idle]
        /\ buckets' = [swept EXCEPT ![k] = [tokens |-> tokens - Cost(tokens), age |-> delay]]
        /\ ideal' = [ideal EXCEPT ![k] = @ - Cost(tokens)]
        /\ retry' = [retry EXCEPT ![k] = IF Cost(tokens) = 0 THEN RetryAfter(tokens) + 1
                                         ELSE NoRetry]
    BY Zenon DEF Allow, Cost
  <1>5. swept \in [Keys -> Buckets \cup {NoBucket}]
    BY DEF Swept, Sweep, Types
  <1>6. NoBucket.age = 0 /\ Window \in Nat /\ delay \in Nat /\ delay <= MaxDelay /\ MaxDelay <= MaxAge
        /\ Capacity \in Nat
    BY <1>2, Sizes DEF NoBucket
  <1>7. entry \in Buckets
    BY <1>5, <1>2, <1>6, Sizes DEF Buckets
  <1>8. tokens \in 0 .. Capacity
    BY <1>7, <1>2, RefilledIs
  <1>9. Found(k, delay, tokens)
    <2>1. CASE swept[k] = NoBucket
      <3>1. entry = [tokens |-> Capacity, age |-> delay]
        BY <2>1
      <3>2. tokens = Capacity
        BY <3>1, <1>6 DEF Refilled
      <3> QED
        BY <2>1, <3>2, <1>2, <1>3 DEF Found
    <2>2. CASE swept[k] # NoBucket
      BY <2>2, <1>2, <1>3 DEF Found
    <2> QED
      BY <2>1, <2>2
  <1>10. buckets'[k] = [tokens |-> tokens - Cost(tokens), age |-> delay]
    BY <1>2, <1>4, <1>5
  <1>11. \A j \in Keys \ {k} : LeftOrSwept(j, delay)
    <2> SUFFICES ASSUME NEW j \in Keys \ {k} PROVE LeftOrSwept(j, delay)
      OBVIOUS
    <2>1. buckets'[j] = swept[j]
      BY <1>4, <1>5
    <2>2. CASE swept[j] = buckets[j]
      BY <2>1, <2>2 DEF LeftOrSwept
    <2>3. CASE buckets[j].age > delay + 2 * Window /\ swept[j] = NoBucket
      <3>1. buckets[j] # NoBucket
        BY <2>3, <1>6
      <3> QED
        BY <2>1, <2>3, <3>1 DEF LeftOrSwept
    <2> QED
      BY <1>3, <2>2, <2>3
  <1>12. Grants(c, k, delay, tokens)
    BY <1>2, <1>4, <1>9, <1>10, <1>11 DEF Grants
  <1> HIDE DEF k, delay, tokens
  <1> QED
    BY <1>2, <1>8, <1>12
\* RetryAfter is a number of ticks after which, with one tick for what the
\* clock truncates, the tokens that lack are there.
LEMMA RetryAfterIs ==
  ASSUME NEW tokens \in 0 .. Capacity, tokens < Window
  PROVE  RetryAfter(tokens) \in Nat /\ tokens + Refill(RetryAfter(tokens) + 1) >= Window
  <1> DEFINE wait == (Window - tokens) \div Requests
             seconds == ((wait + SecondTicks - 1) \div SecondTicks) * SecondTicks
  <1>1. /\ Requests \in Nat /\ Requests >= 1 /\ SecondTicks \in Nat /\ SecondTicks >= 1
        /\ Window - tokens \in Nat /\ Window \in Nat /\ tokens \in Nat
    BY LimiterAssumption, Sizes
  <1>2. wait \in Nat /\ (wait + 1) * Requests >= Window - tokens
    <2>1. \A x \in Nat : /\ x \div Requests \in Int /\ Requests * (x \div Requests) <= x
                         /\ x < Requests * (x \div Requests) + Requests
      BY <1>1
    <2>2. \A q \in Int : \A x \in Nat : x < Requests * q + Requests => q >= 0
      BY <1>1
    <2>3. \A q \in Int : (q + 1) * Requests = Requests * q + Requests
      BY <1>1
    <2> QED
      BY <1>1, <2>1, <2>2, <2>3
  <1>3. seconds \in Nat /\ seconds >= wait
    <2> HIDE DEF wait
    <2>1. \A x \in Nat : /\ x \div SecondTicks \in Int /\ SecondTicks * (x \div SecondTicks) <= x
                         /\ x < SecondTicks * (x \div SecondTicks) + SecondTicks
      BY <1>1
    <2>2. wait + SecondTicks - 1 \in Nat
      BY <1>1, <1>2
    <2> DEFINE q == (wait + SecondTicks - 1) \div SecondTicks
    <2>3. q \in Int /\ wait + SecondTicks - 1 < SecondTicks * q + SecondTicks
      BY <2>1, <2>2
    <2> HIDE DEF q
    <2>4. q * SecondTicks \in Int /\ q * SecondTicks >= wait
      BY <1>1, <1>2, <2>3
    <2>5. q * SecondTicks \in Nat
      BY <1>2, <2>4
    <2> QED
      BY <2>4, <2>5 DEF q
  <1>4. RetryAfter(tokens) = Max({SecondTicks, seconds})
    BY DEF RetryAfter
  <1> HIDE DEF seconds, wait
  <1>5. RetryAfter(tokens) \in Nat /\ RetryAfter(tokens) >= wait
    BY <1>1, <1>2, <1>3, <1>4, MaxOfTwo
  <1>6. Refill(wait + 1) <= Refill(RetryAfter(tokens) + 1) /\ Refill(RetryAfter(tokens) + 1) \in Nat
    <2> DEFINE r == RetryAfter(tokens) + 1
    <2>1. wait + 1 \in Nat /\ r \in Nat /\ wait + 1 <= r
      BY <1>2, <1>5
    <2> HIDE DEF r
    <2>2. Refill(wait + 1) <= Refill(r) /\ Refill(r) \in Nat
      BY <2>1, RefillGrows
    <2> QED
      BY <2>2 DEF r
  <1>7. Refill(wait + 1) \in Nat /\ Refill(wait + 1) >= Window - tokens
    BY <1>2, RefillNat DEF Refill
  <1> QED
    BY <1>1, <1>5, <1>6, <1>7

\* What a tick does to an age.
LEMMA OlderIs ==
  ASSUME NEW age \in 0 .. MaxAge
  PROVE  Older(age) \in 0 .. MaxAge /\ (Older(age) = age + 1 \/ (age = MaxAge /\ Older(age) = MaxAge))
  BY Sizes DEF Older

\* What a tick does to a bucket, to a request and to the ideal bucket.
LEMMA TickEffect ==
  ASSUME Types, Tick
  PROVE  /\ \A k \in Keys : buckets[k] = NoBucket => buckets'[k] = NoBucket
         /\ \A k \in Keys : buckets[k] # NoBucket =>
               /\ buckets'[k] # NoBucket /\ buckets'[k] \in Buckets
               /\ buckets'[k].tokens = buckets[k].tokens /\ buckets'[k].age = Older(buckets[k].age)
         /\ \A c \in Clients : pending[c] = Idle => pending'[c] = Idle
         /\ \A c \in Clients : pending[c] # Idle =>
               /\ pending'[c] # Idle /\ pending'[c] \in [key : Keys, age : 0 .. MaxDelay]
               /\ pending'[c].key = pending[c].key /\ pending'[c].age = pending[c].age + 1
         /\ \A k \in Keys : /\ ideal'[k] \in Int /\ ideal'[k] <= Capacity /\ ideal'[k] >= ideal[k]
                            /\ ideal'[k] = Capacity \/ ideal'[k] = ideal[k] + Requests
         /\ \A k \in Keys : retry'[k] = IF retry[k] > 0 THEN retry[k] - 1 ELSE retry[k]
  <1>1. ASSUME NEW k \in Keys, buckets[k] # NoBucket
        PROVE  /\ buckets'[k] # NoBucket /\ buckets'[k] \in Buckets
               /\ buckets'[k].tokens = buckets[k].tokens /\ buckets'[k].age = Older(buckets[k].age)
    <2>1. buckets[k] \in Buckets /\ Older(buckets[k].age) \in 0 .. MaxAge
      BY <1>1, BucketIs, OlderIs
    <2>2. buckets'[k] = [buckets[k] EXCEPT !.age = Older(@)]
      BY <1>1 DEF Tick
    <2> QED
      BY <2>1, <2>2, Sizes DEF Buckets, NoBucket
  <1>2. ASSUME NEW c \in Clients, pending[c] # Idle
        PROVE  /\ pending'[c] # Idle /\ pending'[c] \in [key : Keys, age : 0 .. MaxDelay]
               /\ pending'[c].key = pending[c].key /\ pending'[c].age = pending[c].age + 1
    <2>1. /\ pending[c] \in [key : Keys, age : 0 .. MaxDelay] /\ pending[c].age < MaxDelay
          /\ pending'[c] = [pending[c] EXCEPT !.age = @ + 1]
      BY <1>2 DEF Tick, Types
    <2> QED
      BY <2>1, LimiterAssumption DEF Idle
  <1>3. ASSUME NEW k \in Keys
        PROVE  /\ ideal'[k] \in Int /\ ideal'[k] <= Capacity /\ ideal'[k] >= ideal[k]
               /\ ideal'[k] = Capacity \/ ideal'[k] = ideal[k] + Requests
    <2>1. ideal[k] \in Int /\ ideal[k] <= Capacity /\ Capacity \in Int /\ Requests \in Nat
      BY Sizes, RefillOne DEF Types
    <2>2. ideal'[k] = Min({Capacity, ideal[k] + Requests})
      BY DEF Tick
    <2>3. ideal'[k] = IF Capacity <= ideal[k] + Requests THEN Capacity ELSE ideal[k] + Requests
      BY <2>1, <2>2, MinOfTwo
    <2> QED
      BY <2>1, <2>3
  <1>4. /\ \A k \in Keys : buckets[k] = NoBucket => buckets'[k] = NoBucket
        /\ \A c \in Clients : pending[c] = Idle => pending'[c] = Idle
        /\ \A k \in Keys : retry'[k] = IF retry[k] > 0 THEN retry[k] - 1 ELSE retry[k]
    BY DEF Tick
  <1> QED
    BY <1>1, <1>2, <1>3, <1>4
-----------------------------------------------------------------------------
\* Every step keeps the types: tokens stay between none and the capacity, and
\* no request waits longer than MaxDelay.
LEMMA TypesStep == Types /\ [Next]_vars => Types'
  <1> SUFFICES ASSUME Types, [Next]_vars PROVE Types'
    OBVIOUS
  <1>1. CASE Tick
    <2>1. buckets' \in [Keys -> Buckets \cup {NoBucket}]
      <3>1. \A k \in Keys : buckets'[k] \in Buckets \cup {NoBucket}
        BY <1>1, TickEffect
      <3> QED
        BY <1>1, <3>1, Zenon DEF Tick
    <2>2. pending' \in [Clients -> [key : Keys, age : 0 .. MaxDelay] \cup {Idle}]
      <3>1. \A c \in Clients : pending'[c] \in [key : Keys, age : 0 .. MaxDelay] \cup {Idle}
        BY <1>1, TickEffect
      <3> QED
        BY <1>1, <3>1, Zenon DEF Tick
    <2>3. ideal' \in [Keys -> Int] /\ \A k \in Keys : ideal'[k] <= Capacity
      <3>1. \A k \in Keys : ideal'[k] \in Int /\ ideal'[k] <= Capacity
        BY <1>1, TickEffect
      <3>2. ideal' = [k \in Keys |-> ideal'[k]]
        BY <1>1 DEF Tick
      <3> QED
        BY <3>1, <3>2
    <2>4. retry' \in [Keys -> Nat \cup {NoRetry}]
      BY <1>1 DEF Tick, Types, NoRetry
    <2>5. ops' \in Nat
      BY <1>1 DEF Tick, Types
    <2> QED
      BY <2>1, <2>2, <2>3, <2>4, <2>5 DEF Types
  <1>2. ASSUME NEW c \in Clients, Allow(c) PROVE Types'
    <2>1. PICK k \in Keys, delay \in 0 .. MaxDelay, tokens \in 0 .. Capacity : Grants(c, k, delay, tokens)
      BY <1>2, AllowEffect
    <2>2. /\ Cost(tokens) \in 0 .. tokens /\ tokens - Cost(tokens) \in 0 .. Capacity
          /\ Cost(tokens) = 0 => tokens < Window
      BY Sizes DEF Cost
    <2>3. buckets' \in [Keys -> Buckets \cup {NoBucket}]
      <3>1. buckets'[k] \in Buckets
        <4>1. delay \in 0 .. MaxAge
          BY Sizes
        <4> QED
          BY <2>1, <2>2, <4>1 DEF Grants, Buckets
      <3>2. \A j \in Keys \ {k} : buckets'[j] \in Buckets \cup {NoBucket}
        BY <2>1 DEF Grants, LeftOrSwept, Types
      <3>3. buckets' = [j \in Keys |-> buckets'[j]]
        <4>1. Swept(pending[c].age) = [j \in Keys |-> Swept(pending[c].age)[j]]
          BY DEF Swept, Sweep, Types
        <4> QED
          BY <1>2, <4>1, Zenon DEF Allow
      <3> QED
        BY <3>1, <3>2, <3>3
    <2>4. pending' \in [Clients -> [key : Keys, age : 0 .. MaxDelay] \cup {Idle}]
      BY <2>1 DEF Grants, Types
    <2>5. ideal' \in [Keys -> Int] /\ \A j \in Keys : ideal'[j] <= Capacity
      BY <2>1, <2>2, Sizes DEF Grants, Types
    <2>6. retry' \in [Keys -> Nat \cup {NoRetry}]
      <3>1. CASE Cost(tokens) = 0
        <4>1. RetryAfter(tokens) + 1 \in Nat
          BY <2>2, <3>1, RetryAfterIs
        <4> QED
          BY <2>1, <3>1, <4>1 DEF Grants, Types
      <3>2. CASE Cost(tokens) # 0
        BY <2>1, <3>2 DEF Grants, Types
      <3> QED
        BY <3>1, <3>2
    <2>7. ops' \in Nat
      <3>1. ops' = (ops + 1) % SweepEvery
        BY <1>2, Zenon DEF Allow
      <3> QED
        BY <3>1, LimiterAssumption DEF Types
    <2> QED
      BY <2>3, <2>4, <2>5, <2>6, <2>7 DEF Types
  <1>3. ASSUME NEW c \in Clients, NEW k \in Keys, Arrive(c, k) PROVE Types'
    BY <1>3, Sizes DEF Arrive, Types, NoRetry
  <1>4. CASE UNCHANGED vars
    BY <1>4 DEF vars, Types
  <1> QED
    BY <1>1, <1>2, <1>3, <1>4 DEF Next
\* Only the client of the request changes, and the request is gone.
LEMMA GrantsPending ==
  ASSUME Types, NEW c \in Clients, NEW k \in Keys, NEW delay \in 0 .. MaxDelay,
         NEW tokens \in 0 .. Capacity, Grants(c, k, delay, tokens)
  PROVE  /\ pending'[c] = Idle /\ \A e \in Clients \ {c} : pending'[e] = pending[e]
         /\ pending[c] # Idle /\ pending[c].key = k /\ pending[c].age = delay
         /\ buckets'[k] # NoBucket /\ buckets'[k].age = delay
         /\ buckets'[k].tokens = tokens - Cost(tokens)
         /\ ideal'[k] = ideal[k] - Cost(tokens)
         /\ \A j \in Keys \ {k} : ideal'[j] = ideal[j] /\ retry'[j] = retry[j]
         /\ Cost(tokens) \in 0 .. tokens
  <1>1. Cost(tokens) \in 0 .. tokens
    BY Sizes DEF Cost
  <1>2. pending[c] # Idle
    BY LimiterAssumption DEF Grants, Idle
  <1>3. buckets'[k] # NoBucket
    <2>1. buckets'[k].tokens = tokens - Cost(tokens) /\ tokens - Cost(tokens) >= 0
      BY <1>1, Sizes DEF Grants
    <2>2. NoBucket.tokens = -1
      BY DEF NoBucket
    <2> QED
      BY <1>1, <2>1, <2>2, Sizes
  <1> QED
    BY <1>1, <1>2, <1>3 DEF Grants, Types

\* Requests of one key do not overlap when they start one after the other,
\* and the bucket's last use is older than the request that waits for it.
LEMMA AloneStep == ~Overlap /\ Types /\ Alone /\ [Next]_vars => Alone'
  <1> SUFFICES ASSUME ~Overlap, Types, Alone, [Next]_vars PROVE Alone'
    OBVIOUS
  <1>0. Types'
    BY TypesStep
  <1>1. CASE Tick
    <2>1. \A c, e \in Clients : pending'[c].key = pending'[e].key /\ pending'[c] # Idle => c = e
      <3> SUFFICES ASSUME NEW c \in Clients, NEW e \in Clients, pending'[c].key = pending'[e].key,
                          pending'[c] # Idle
                   PROVE  c = e
        OBVIOUS
      <3>1. pending[c] # Idle /\ pending'[c].key = pending[c].key /\ pending[c].key \in Keys
        BY <1>1, TickEffect, PendingIs
      <3>2. pending'[e].key \in Keys
        BY <3>1
      <3>3. pending'[e] # Idle
        BY <3>2, LimiterAssumption DEF Idle
      <3>4. pending[e] # Idle /\ pending'[e].key = pending[e].key
        BY <1>1, <3>3, TickEffect
      <3> QED
        BY <3>1, <3>4, Zenon DEF Alone
    <2>2. ASSUME NEW c \in Clients, NEW k \in Keys, pending'[c].key = k, buckets'[k] # NoBucket
          PROVE  pending'[c].age <= buckets'[k].age
      <3>1. /\ pending[c] # Idle /\ pending[c].key = k /\ pending'[c].age = pending[c].age + 1
            /\ pending'[c].age \in 0 .. MaxDelay
        BY <1>1, <2>2, TickEffect, LimiterAssumption DEF Idle
      <3>2. buckets[k] # NoBucket /\ buckets'[k].age = Older(buckets[k].age)
        BY <1>1, <2>2, TickEffect
      <3>3. pending[c].age <= buckets[k].age /\ buckets[k].age \in 0 .. MaxAge
        BY <3>1, <3>2, BucketIs DEF Alone
      <3>4. pending[c].age \in 0 .. MaxDelay
        BY <3>1, PendingIs, Zenon
      <3> QED
        BY <3>1, <3>2, <3>3, <3>4, OlderIs, Sizes
    <2> QED
      BY <2>1, <2>2 DEF Alone
  <1>2. ASSUME NEW c \in Clients, Allow(c) PROVE Alone'
    <2>1. PICK k \in Keys, delay \in 0 .. MaxDelay, tokens \in 0 .. Capacity : Grants(c, k, delay, tokens)
      BY <1>2, AllowEffect
    <2>2. /\ pending'[c] = Idle /\ \A e \in Clients \ {c} : pending'[e] = pending[e]
          /\ pending[c] # Idle /\ pending[c].key = k
      BY <2>1, GrantsPending
    <2>3. \A e, f \in Clients : pending'[e].key = pending'[f].key /\ pending'[e] # Idle => e = f
      <3> SUFFICES ASSUME NEW e \in Clients, NEW f \in Clients, pending'[e].key = pending'[f].key,
                          pending'[e] # Idle
                   PROVE  e = f
        OBVIOUS
      <3>1. e # c /\ pending[e] = pending'[e] /\ pending[e].key \in Keys
        BY <2>2, PendingIs, Zenon
      <3>2. pending'[f] # Idle
        BY <3>1, LimiterAssumption DEF Idle
      <3>3. pending[f] = pending'[f]
        BY <2>2, <3>2
      <3> QED
        BY <3>1, <3>3 DEF Alone
    <2>4. ASSUME NEW e \in Clients, NEW j \in Keys, pending'[e].key = j, buckets'[j] # NoBucket
          PROVE  pending'[e].age <= buckets'[j].age
      <3>1. e # c /\ pending'[e] = pending[e]
        BY <2>2, <2>4, LimiterAssumption DEF Idle
      <3>2. j # k
        BY <2>2, <2>4, <3>1 DEF Alone
      <3>3. buckets'[j] = buckets[j]
        BY <2>1, <2>4, <3>2 DEF Grants, LeftOrSwept
      <3> QED
        BY <2>4, <3>1, <3>3 DEF Alone
    <2> QED
      BY <2>3, <2>4 DEF Alone
  <1>3. ASSUME NEW c \in Clients, NEW k \in Keys, Arrive(c, k) PROVE Alone'
    <2>1. /\ pending[c] = Idle /\ \A e \in Clients : pending[e].key # k
          /\ pending'[c] = [key |-> k, age |-> 0] /\ \A e \in Clients \ {c} : pending'[e] = pending[e]
          /\ buckets' = buckets
      BY <1>3 DEF Arrive, Waiting, Types
    <2>2. \A e, f \in Clients : pending'[e].key = pending'[f].key /\ pending'[e] # Idle => e = f
      BY <2>1 DEF Alone
    <2>3. ASSUME NEW e \in Clients, NEW j \in Keys, pending'[e].key = j, buckets'[j] # NoBucket
          PROVE  pending'[e].age <= buckets'[j].age
      <3>1. CASE e = c
        <4>1. pending'[e].age = 0 /\ buckets[j].age \in 0 .. MaxAge
          BY <2>1, <2>3, <3>1, BucketIs
        <4> QED
          BY <2>1, <4>1, Sizes
      <3>2. CASE e # c
        BY <2>1, <2>3, <3>2 DEF Alone
      <3> QED
        BY <3>1, <3>2
    <2> QED
      BY <2>2, <2>3 DEF Alone
  <1>4. CASE UNCHANGED vars
    BY <1>4 DEF vars, Alone
  <1> QED
    BY <1>1, <1>2, <1>3, <1>4 DEF Next
-----------------------------------------------------------------------------
\* A bucket that is swept had, for every request that may still come, no
\* more room than the ideal one.
LEMMA SweptFunded ==
  ASSUME FullWhenSwept, Types, Funded, NEW k \in Keys, NEW delay \in 0 .. MaxDelay, NEW d \in 0 .. MaxDelay,
         buckets[k] # NoBucket, buckets[k].age > delay + 2 * Window
  PROVE  ideal[k] + Refill(MaxDelay) >= Capacity + Refill(d)
  <1>1. /\ ideal[k] \in Int /\ buckets[k].tokens \in Nat /\ buckets[k].age \in Nat /\ delay \in Nat
        /\ d \in Nat /\ d <= MaxDelay /\ MaxDelay \in Nat /\ Capacity \in Nat
        /\ Window \in Nat /\ 2 * Window + 1 \in Nat
    BY BucketIs, Sizes DEF Types
  <1>2. Refill(d) \in Nat /\ Refill(MaxDelay) \in Nat /\ Refill(d) <= Refill(MaxDelay)
    BY <1>1, RefillNat, RefillMonotone
  <1>3. CASE ideal[k] = Capacity
    BY <1>1, <1>2, <1>3
  <1>4. CASE ideal[k] + Refill(MaxDelay) >= buckets[k].tokens + Refill(buckets[k].age)
    <2>1. 2 * Window + 1 <= buckets[k].age
      BY <1>1
    <2>2. /\ Refill(2 * Window + 1) \in Nat /\ Refill(buckets[k].age) \in Nat
          /\ Refill(2 * Window + 1) <= Refill(buckets[k].age)
      BY <1>1, <2>1, RefillNat, RefillMonotone
    <2>3. Capacity + Refill(MaxDelay) <= Refill(2 * Window + 1)
      BY DEF FullWhenSwept
    <2> QED
      BY <1>1, <1>2, <1>4, <2>2, <2>3
  <1> QED
    BY <1>3, <1>4 DEF Funded

\* The ideal bucket pays for what a request finds in its bucket.
LEMMA FoundFunded ==
  ASSUME FullWhenSwept, Types, Alone, Funded, NEW c \in Clients, NEW k \in Keys,
         NEW delay \in 0 .. MaxDelay, NEW tokens \in 0 .. Capacity,
         pending[c].key = k, pending[c].age = delay, Found(k, delay, tokens)
  PROVE  ideal[k] + Refill(MaxDelay) >= tokens + Refill(delay)
  <1>1. CASE buckets[k] = NoBucket
    BY <1>1, Sizes DEF Funded, Found
  <1>2. CASE buckets[k] # NoBucket /\ buckets[k].age > delay + 2 * Window /\ tokens = Capacity
    <2>1. ideal[k] + Refill(MaxDelay) >= Capacity + Refill(delay)
      BY <1>2, SweptFunded
    <2> QED
      BY <1>2, <2>1
  <1>3. CASE buckets[k] # NoBucket /\ tokens = Refilled(buckets[k], delay)
    <2>1. /\ buckets[k] \in Buckets /\ buckets[k].tokens \in Nat /\ buckets[k].age \in Nat
          /\ delay \in Nat /\ tokens \in Nat /\ tokens <= Capacity /\ Capacity \in Nat
          /\ MaxDelay \in Nat /\ delay <= MaxDelay /\ ideal[k] \in Int
      BY <1>3, BucketIs, Sizes DEF Types
    <2>2. delay <= buckets[k].age
      BY <1>3 DEF Alone
    <2>3. Refill(delay) \in Nat /\ Refill(MaxDelay) \in Nat /\ Refill(delay) <= Refill(MaxDelay)
      BY <2>1, RefillNat, RefillMonotone
    <2>4. CASE ideal[k] = Capacity
      BY <2>1, <2>3, <2>4
    <2>5. CASE ideal[k] + Refill(MaxDelay) >= buckets[k].tokens + Refill(buckets[k].age)
      <3>1. Refill(buckets[k].age - delay) = Refill(buckets[k].age) - Refill(delay)
            /\ Refill(buckets[k].age) \in Nat
        BY <2>1, <2>2, RefillGrows, Zenon
      <3>2. tokens <= buckets[k].tokens + Refill(buckets[k].age - delay)
        <4>1. CASE buckets[k].age > delay
          BY <1>3, <2>1, <4>1, RefilledIs
        <4>2. CASE buckets[k].age = delay
          <5>1. tokens = buckets[k].tokens
            BY <1>3, <2>1, <4>2, RefilledIs
          <5> QED
            BY <2>1, <2>3, <3>1, <4>2, <5>1
        <4> QED
          BY <2>1, <2>2, <4>1, <4>2
      <3> QED
        BY <2>1, <2>3, <2>5, <3>1, <3>2
    <2> QED
      BY <1>3, <2>4, <2>5 DEF Funded
  <1> QED
    BY <1>1, <1>2, <1>3 DEF Found
\* A tick fills the ideal bucket as fast as the time credits the others.
LEMMA FundedTick ==
  ASSUME Types, Funded, Tick
  PROVE  Funded'
  <1>0. /\ MaxDelay \in Nat /\ Refill(MaxDelay) \in Nat /\ Capacity \in Nat /\ Requests \in Nat
        /\ Refill(1) = Requests
    BY Sizes, RefillNat, RefillOne
  <1>1. ASSUME NEW k \in Keys, buckets'[k] # NoBucket
        PROVE  \/ ideal'[k] = Capacity
               \/ ideal'[k] + Refill(MaxDelay) >= buckets'[k].tokens + Refill(buckets'[k].age)
    <2>1. /\ buckets[k] # NoBucket /\ buckets'[k].tokens = buckets[k].tokens
          /\ buckets'[k].age = Older(buckets[k].age)
      BY <1>1, TickEffect
    <2>2. /\ buckets[k].tokens \in Nat /\ buckets[k].age \in 0 .. MaxAge /\ buckets[k].age \in Nat
          /\ ideal[k] \in Int /\ ideal[k] <= Capacity
      BY <2>1, BucketIs, Sizes DEF Types
    <2>3. /\ ideal'[k] \in Int /\ ideal'[k] <= Capacity /\ ideal'[k] >= ideal[k]
          /\ ideal'[k] = Capacity \/ ideal'[k] = ideal[k] + Requests
      BY TickEffect
    <2>4. Refill(buckets[k].age) \in Nat /\ Refill(buckets[k].age + 1) = Refill(buckets[k].age) + Requests
      BY <1>0, <2>2, RefillGrows, Zenon
    <2>5. Older(buckets[k].age) \in {buckets[k].age, buckets[k].age + 1}
      BY <2>2, OlderIs
    <2>6. CASE ideal[k] = Capacity
      BY <1>0, <2>2, <2>3, <2>6
    <2>7. CASE ideal[k] + Refill(MaxDelay) >= buckets[k].tokens + Refill(buckets[k].age)
      <3>1. CASE ideal'[k] = ideal[k] + Requests
        <4>1. Refill(Older(buckets[k].age)) \in {Refill(buckets[k].age), Refill(buckets[k].age) + Requests}
          BY <2>4, <2>5
        <4> QED
          BY <1>0, <2>1, <2>2, <2>4, <2>7, <3>1, <4>1
      <3> QED
        BY <2>3, <3>1
    <2> QED
      BY <2>1, <2>6, <2>7 DEF Funded
  <1>2. ASSUME NEW k \in Keys, buckets'[k] = NoBucket
        PROVE  /\ ideal'[k] + Refill(MaxDelay) >= Capacity
               /\ \A c \in Clients : pending'[c].key = k =>
                     ideal'[k] + Refill(MaxDelay) >= Capacity + Refill(pending'[c].age)
    <2>1. buckets[k] = NoBucket /\ ideal[k] \in Int
      BY <1>2, TickEffect DEF Types
    <2>2. /\ ideal'[k] \in Int /\ ideal'[k] >= ideal[k]
          /\ ideal'[k] = Capacity \/ ideal'[k] = ideal[k] + Requests
      BY TickEffect
    <2>3. ideal'[k] + Refill(MaxDelay) >= Capacity
      BY <1>0, <2>1, <2>2 DEF Funded
    <2>4. ASSUME NEW c \in Clients, pending'[c].key = k
          PROVE  ideal'[k] + Refill(MaxDelay) >= Capacity + Refill(pending'[c].age)
      <3>1. pending'[c] # Idle
        BY <2>4, LimiterAssumption DEF Idle
      <3>2. /\ pending[c] # Idle /\ pending[c].key = k /\ pending'[c].age = pending[c].age + 1
            /\ pending'[c].age \in 0 .. MaxDelay /\ pending[c].age \in 0 .. MaxDelay
        BY <2>4, <3>1, TickEffect, PendingIs, Zenon
      <3>3. /\ pending[c].age \in Nat /\ pending'[c].age \in Nat /\ pending'[c].age <= MaxDelay
        BY <1>0, <3>2
      <3>4. /\ Refill(pending[c].age) \in Nat
            /\ Refill(pending[c].age + 1) = Refill(pending[c].age) + Requests
        BY <1>0, <3>3, RefillGrows, SMTT(30)
      <3>5. Refill(pending'[c].age) \in Nat /\ Refill(pending'[c].age) <= Refill(MaxDelay)
        BY <1>0, <3>3, RefillNat, RefillMonotone
      <3>6. ideal[k] + Refill(MaxDelay) >= Capacity + Refill(pending[c].age)
        BY <2>1, <3>2 DEF Funded
      <3> QED
        BY <1>0, <2>1, <2>2, <3>2, <3>4, <3>5, <3>6
    <2> QED
      BY <2>3, <2>4
  <1> QED
    BY <1>1, <1>2 DEF Funded

\* Every step keeps the ideal buckets funded.
LEMMA FundedStep ==
  FullWhenSwept /\ Types /\ Alone /\ Funded /\ [Next]_vars => Funded'
  <1> SUFFICES ASSUME FullWhenSwept, Types, Alone, Funded, [Next]_vars PROVE Funded'
    OBVIOUS
  <1>0. MaxDelay \in Nat /\ Refill(MaxDelay) \in Nat /\ Capacity \in Nat
    BY Sizes, RefillNat
  <1>1. CASE Tick
    BY <1>1, FundedTick
  <1>2. ASSUME NEW c \in Clients, Allow(c) PROVE Funded'
    <2>1. PICK k \in Keys, delay \in 0 .. MaxDelay, tokens \in 0 .. Capacity : Grants(c, k, delay, tokens)
      BY <1>2, AllowEffect
    <2>2. /\ pending'[c] = Idle /\ \A e \in Clients \ {c} : pending'[e] = pending[e]
          /\ pending[c] # Idle /\ pending[c].key = k /\ pending[c].age = delay
          /\ buckets'[k] # NoBucket /\ buckets'[k].age = delay
          /\ buckets'[k].tokens = tokens - Cost(tokens)
          /\ ideal'[k] = ideal[k] - Cost(tokens)
          /\ \A j \in Keys \ {k} : ideal'[j] = ideal[j]
          /\ Cost(tokens) \in 0 .. tokens
      BY <2>1, GrantsPending
    <2>3. ideal'[k] + Refill(MaxDelay) >= buckets'[k].tokens + Refill(buckets'[k].age)
      <3>1. ideal[k] + Refill(MaxDelay) >= tokens + Refill(delay)
        BY <2>1, <2>2, FoundFunded DEF Grants
      <3>2. ideal[k] \in Int /\ tokens \in Nat /\ Cost(tokens) \in Nat /\ Refill(delay) \in Nat
        BY <1>0, <2>2, RefillNat DEF Types
      <3> QED
        BY <1>0, <2>2, <3>1, <3>2
    <2>4. ASSUME NEW j \in Keys \ {k}, buckets'[j] # NoBucket
          PROVE  \/ ideal'[j] = Capacity
                 \/ ideal'[j] + Refill(MaxDelay) >= buckets'[j].tokens + Refill(buckets'[j].age)
      <3>1. buckets'[j] = buckets[j]
        BY <2>1, <2>4 DEF Grants, LeftOrSwept
      <3> QED
        BY <2>2, <2>4, <3>1 DEF Funded
    <2>5. ASSUME NEW j \in Keys \ {k}, buckets'[j] = NoBucket
          PROVE  /\ ideal'[j] + Refill(MaxDelay) >= Capacity
                 /\ \A e \in Clients : pending'[e].key = j =>
                       ideal'[j] + Refill(MaxDelay) >= Capacity + Refill(pending'[e].age)
      <3>1. \A e \in Clients : pending'[e].key = j => pending[e].key = j /\ pending'[e].age = pending[e].age
        BY <2>2, LimiterAssumption DEF Idle
      <3>2. CASE buckets[j] = NoBucket
        BY <2>2, <3>1, <3>2 DEF Funded
      <3>3. CASE buckets[j] # NoBucket /\ buckets[j].age > delay + 2 * Window
        <4>1. 0 \in 0 .. MaxDelay /\ Refill(0) = 0 /\ ideal[j] \in Int
          BY <1>0, RefillOne DEF Types
        <4>2. \A d \in 0 .. MaxDelay : ideal[j] + Refill(MaxDelay) >= Capacity + Refill(d)
          BY <3>3, SweptFunded
        <4>3. ideal[j] + Refill(MaxDelay) >= Capacity
          BY <1>0, <4>1, <4>2
        <4>4. \A e \in Clients : pending[e].key = j => pending[e].age \in 0 .. MaxDelay
          BY PendingIs, Zenon
        <4> QED
          BY <2>2, <3>1, <4>2, <4>3, <4>4
      <3> QED
        BY <2>1, <2>5, <3>2, <3>3 DEF Grants, LeftOrSwept
    <2> QED
      BY <2>2, <2>3, <2>4, <2>5 DEF Funded
  <1>3. ASSUME NEW c \in Clients, NEW k \in Keys, Arrive(c, k) PROVE Funded'
    <2>1. /\ pending'[c] = [key |-> k, age |-> 0] /\ \A e \in Clients \ {c} : pending'[e] = pending[e]
          /\ buckets' = buckets /\ ideal' = ideal
      BY <1>3 DEF Arrive, Types
    <2>2. ASSUME NEW j \in Keys, buckets[j] = NoBucket, NEW e \in Clients, pending'[e].key = j
          PROVE  ideal[j] + Refill(MaxDelay) >= Capacity + Refill(pending'[e].age)
      <3>1. CASE e = c
        <4>1. pending'[e].age = 0 /\ Refill(0) = 0 /\ ideal[j] + Refill(MaxDelay) >= Capacity
          BY <2>1, <2>2, <3>1, RefillOne DEF Funded
        <4> QED
          BY <1>0, <4>1
      <3>2. CASE e # c
        BY <2>1, <2>2, <3>2 DEF Funded
      <3> QED
        BY <3>1, <3>2
    <2> QED
      BY <2>1, <2>2 DEF Funded
  <1>4. CASE UNCHANGED vars
    BY <1>4 DEF vars, Funded
  <1> QED
    BY <1>1, <1>2, <1>3, <1>4 DEF Next
-----------------------------------------------------------------------------
\* As time goes by the wait gets shorter and the bucket older.
LEMMA RepaidTick ==
  ASSUME Types, Alone, Repaid, Tick
  PROVE  Repaid'
  <1> SUFFICES ASSUME NEW k \in Keys, retry'[k] # NoRetry, buckets'[k] # NoBucket
               PROVE  /\ buckets'[k].tokens + Refill(buckets'[k].age + retry'[k]) >= Window
                      /\ \A c \in Clients : pending'[c].key = k =>
                            /\ retry'[k] = 0
                            /\ buckets'[k].tokens + Refill(buckets'[k].age - pending'[c].age) >= Window
    BY DEF Repaid
  <1> DEFINE t == buckets[k].tokens
             a == buckets[k].age
             r == retry[k]
  <1>1. /\ buckets[k] # NoBucket /\ buckets'[k].tokens = t /\ buckets'[k].age = Older(a)
        /\ retry'[k] = IF r > 0 THEN r - 1 ELSE r
    BY TickEffect
  <1>2. /\ t \in Nat /\ a \in 0 .. MaxAge /\ a \in Nat /\ r \in Nat /\ r # NoRetry
        /\ Window \in Nat /\ MaxAge \in Nat /\ MaxDelay \in Nat /\ Capacity \in Nat
        /\ Window <= Capacity /\ MaxDelay + Capacity <= MaxAge
    <2>1. r # NoRetry /\ r \in Nat
      BY <1>1 DEF Types, NoRetry
    <2> QED
      BY <1>1, <2>1, BucketIs, Sizes
  <1>3. /\ t + Refill(a + r) >= Window
        /\ \A c \in Clients : pending[c].key = k => r = 0 /\ t + Refill(a - pending[c].age) >= Window
    BY <1>1, <1>2 DEF Repaid
  <1>4. Older(a) = a + 1 \/ (a = MaxAge /\ Older(a) = MaxAge)
    BY <1>2, OlderIs
  <1>5. ASSUME NEW n \in Nat, n >= Capacity PROVE t + Refill(n) >= Window
    <2>1. Refill(n) \in Nat /\ n <= Refill(n)
      BY <1>5, RefillGrows
    <2> QED
      BY <1>2, <1>5, <2>1
  <1>6. t + Refill(Older(a) + retry'[k]) >= Window
    <2>1. CASE Older(a) = a + 1
      <3>1. Older(a) + retry'[k] \in Nat /\ a + r \in Nat /\ a + r <= Older(a) + retry'[k]
        BY <1>1, <1>2, <2>1
      <3>2. /\ Refill(a + r) \in Nat /\ Refill(Older(a) + retry'[k]) \in Nat
            /\ Refill(a + r) <= Refill(Older(a) + retry'[k])
        <4> HIDE DEF a, r
        <4> QED
          BY <3>1, RefillNat, RefillMonotone
      <3> QED
        BY <1>2, <1>3, <3>2
    <2>2. CASE a = MaxAge /\ Older(a) = MaxAge
      <3>1. Older(a) + retry'[k] \in Nat /\ Older(a) + retry'[k] >= Capacity
        BY <1>1, <1>2, <2>2
      <3> QED
        BY <1>5, <3>1
    <2> QED
      BY <1>4, <2>1, <2>2
  <1>7. ASSUME NEW c \in Clients, pending'[c].key = k
        PROVE  retry'[k] = 0 /\ t + Refill(Older(a) - pending'[c].age) >= Window
    <2>1. pending'[c] # Idle
      BY <1>7, LimiterAssumption DEF Idle
    <2>2. /\ pending[c] # Idle /\ pending[c].key = k /\ pending'[c].age = pending[c].age + 1
          /\ pending'[c].age \in 0 .. MaxDelay /\ pending[c].age \in 0 .. MaxDelay
      BY <1>7, <2>1, TickEffect, PendingIs, Zenon
    <2>3. r = 0 /\ t + Refill(a - pending[c].age) >= Window
      BY <1>3, <2>2
    <2>4. CASE Older(a) = a + 1
      <3>1. Older(a) - pending'[c].age = a - pending[c].age
        BY <1>2, <2>2, <2>4
      <3> QED
        BY <1>1, <2>3, <3>1
    <2>5. CASE a = MaxAge /\ Older(a) = MaxAge
      <3>1. Older(a) - pending'[c].age \in Nat /\ Older(a) - pending'[c].age >= Capacity
        BY <1>2, <2>2, <2>5
      <3> QED
        BY <1>1, <1>5, <2>3, <3>1
    <2> QED
      BY <1>4, <2>4, <2>5
  <1> QED
    BY <1>1, <1>6, <1>7

\* Every step keeps the promise that a Retry-After makes.
LEMMA RepaidStep ==
  ~Overlap /\ Types /\ Alone /\ Repaid /\ [Next]_vars => Repaid'
  <1> SUFFICES ASSUME ~Overlap, Types, Alone, Repaid, [Next]_vars PROVE Repaid'
    OBVIOUS
  <1>1. CASE Tick
    BY <1>1, RepaidTick
  <1>2. ASSUME NEW c \in Clients, Allow(c) PROVE Repaid'
    <2>1. PICK k \in Keys, delay \in 0 .. MaxDelay, tokens \in 0 .. Capacity : Grants(c, k, delay, tokens)
      BY <1>2, AllowEffect
    <2>2. /\ pending'[c] = Idle /\ \A e \in Clients \ {c} : pending'[e] = pending[e]
          /\ pending[c] # Idle /\ pending[c].key = k
          /\ buckets'[k].age = delay /\ buckets'[k].tokens = tokens - Cost(tokens)
          /\ \A j \in Keys \ {k} : retry'[j] = retry[j]
      BY <2>1, GrantsPending
    <2>3. \A e \in Clients : pending'[e].key \in Keys =>
             pending[e].key = pending'[e].key /\ pending[e].age = pending'[e].age /\ pending'[e].key # k
      BY <2>2, LimiterAssumption DEF Idle, Alone
    <2>4. retry'[k] # NoRetry => buckets'[k].tokens + Refill(buckets'[k].age + retry'[k]) >= Window
      <3> SUFFICES ASSUME retry'[k] # NoRetry
                   PROVE  buckets'[k].tokens + Refill(buckets'[k].age + retry'[k]) >= Window
        OBVIOUS
      <3>1. Cost(tokens) = 0 /\ retry'[k] = RetryAfter(tokens) + 1
        BY <2>1 DEF Grants, Types
      <3>2. tokens < Window /\ tokens \in Nat /\ Window \in Nat /\ delay \in Nat
        BY <3>1, Sizes DEF Cost
      <3>3. retry'[k] \in Nat /\ tokens + Refill(retry'[k]) >= Window
        BY <3>1, <3>2, RetryAfterIs
      <3>4. /\ delay + retry'[k] \in Nat /\ retry'[k] <= delay + retry'[k]
            /\ Refill(delay + retry'[k]) \in Nat /\ Refill(retry'[k]) \in Nat
        BY <3>2, <3>3, RefillNat
      <3>5. Refill(retry'[k]) <= Refill(delay + retry'[k])
        BY <3>3, <3>4, RefillMonotone
      <3>6. buckets'[k].tokens = tokens
        BY <2>2, <3>1, <3>2
      <3> QED
        BY <2>2, <3>2, <3>3, <3>4, <3>5, <3>6
    <2> SUFFICES ASSUME NEW j \in Keys, retry'[j] # NoRetry, buckets'[j] # NoBucket
                 PROVE  /\ buckets'[j].tokens + Refill(buckets'[j].age + retry'[j]) >= Window
                        /\ \A e \in Clients : pending'[e].key = j =>
                              /\ retry'[j] = 0
                              /\ buckets'[j].tokens + Refill(buckets'[j].age - pending'[e].age) >= Window
      BY DEF Repaid
    <2>5. CASE j = k
      BY <2>3, <2>4, <2>5
    <2>6. CASE j # k
      <3>1. buckets'[j] = buckets[j] /\ retry'[j] = retry[j]
        BY <2>1, <2>2, <2>6 DEF Grants, LeftOrSwept
      <3> QED
        BY <2>3, <3>1 DEF Repaid
    <2> QED
      BY <2>5, <2>6
  <1>3. ASSUME NEW c \in Clients, NEW k \in Keys, Arrive(c, k) PROVE Repaid'
    <2>1. /\ \A e \in Clients : pending[e].key # k
          /\ pending'[c] = [key |-> k, age |-> 0] /\ \A e \in Clients \ {c} : pending'[e] = pending[e]
          /\ buckets' = buckets /\ retry'[k] = (IF retry[k] > 0 THEN NoRetry ELSE retry[k])
          /\ \A j \in Keys \ {k} : retry'[j] = retry[j]
      BY <1>3 DEF Arrive, Waiting, Types
    <2> SUFFICES ASSUME NEW j \in Keys, retry'[j] # NoRetry, buckets[j] # NoBucket
                 PROVE  /\ buckets[j].tokens + Refill(buckets[j].age + retry'[j]) >= Window
                        /\ \A e \in Clients : pending'[e].key = j =>
                              /\ retry'[j] = 0
                              /\ buckets[j].tokens + Refill(buckets[j].age - pending'[e].age) >= Window
      BY <2>1 DEF Repaid
    <2>2. CASE j = k
      <3>1. retry'[j] = retry[j] /\ retry[j] = 0
        BY <2>1, <2>2 DEF Types
      <3>2. buckets[j].tokens + Refill(buckets[j].age + retry[j]) >= Window
        BY <3>1 DEF Repaid
      <3>3. buckets[j].age \in Nat
        BY BucketIs, Sizes
      <3>4. buckets[j].age + retry[j] = buckets[j].age /\ buckets[j].age - 0 = buckets[j].age
        BY <3>1, <3>3
      <3>5. \A e \in Clients : pending'[e].key = j => e = c /\ pending'[e].age = 0
        BY <2>1, <2>2
      <3> QED
        BY <3>1, <3>2, <3>4, <3>5
    <2>3. CASE j # k
      <3>1. \A e \in Clients : pending'[e].key = j => pending'[e] = pending[e]
        BY <2>1, <2>3
      <3> QED
        BY <2>1, <2>3, <3>1 DEF Repaid
    <2> QED
      BY <2>2, <2>3
  <1>4. CASE UNCHANGED vars
    BY <1>4 DEF vars, Repaid
  <1> QED
    BY <1>1, <1>2, <1>3, <1>4 DEF Next
-----------------------------------------------------------------------------
\* At the start no bucket is there and every ideal one is full.
LEMMA LimiterInit == Init => Types /\ Alone /\ Funded /\ Repaid
  <1> SUFFICES ASSUME Init PROVE Types /\ Alone /\ Funded /\ Repaid
    OBVIOUS
  <1>1. /\ \A k \in Keys : buckets[k] = NoBucket /\ ideal[k] = Capacity /\ retry[k] = NoRetry
        /\ \A c \in Clients : pending[c] = Idle /\ pending[c].key \notin Keys
    BY LimiterAssumption DEF Init, Idle
  <1>2. Types
    BY Sizes DEF Init, Types
  <1>3. Alone /\ Repaid
    BY <1>1 DEF Alone, Repaid
  <1>4. Funded
    <2>1. Refill(MaxDelay) \in Nat /\ Capacity \in Nat
      BY Sizes, RefillNat
    <2> QED
      BY <1>1, <2>1 DEF Funded
  <1> QED
    BY <1>2, <1>3, <1>4

\* No key is granted more than the burst and the rate allow, give or take
\* what the longest wait for the mutex is worth (Allow, sweep), as long as
\* requests of one key do not overlap and a bucket is full when it is swept.
THEOREM SpendingBounded ==
  ASSUME ~Overlap, FullWhenSwept
  PROVE  Spec => []NeverOverspent
  <1> DEFINE Inv == Types /\ Alone /\ Funded
  <1>1. Init => Inv
    BY LimiterInit
  <1>2. Inv /\ [Next]_vars => Inv'
    BY TypesStep, AloneStep, FundedStep
  <1>3. Inv => NeverOverspent
    <2> SUFFICES ASSUME Inv, NEW k \in Keys PROVE ideal[k] >= -(MaxDelay * Requests)
      BY DEF NeverOverspent
    <2>1. /\ Refill(MaxDelay) \in Nat /\ Refill(MaxDelay) = MaxDelay * Requests
          /\ Capacity \in Nat /\ ideal[k] \in Int
      BY Sizes, RefillNat DEF Refill, Types
    <2>2. ideal[k] + Refill(MaxDelay) >= 0
      <3>1. CASE buckets[k] # NoBucket
        <4>1. buckets[k].tokens \in Nat /\ Refill(buckets[k].age) \in Nat
          BY <3>1, BucketIs, Sizes, RefillNat
        <4> QED
          BY <2>1, <3>1, <4>1 DEF Funded
      <3>2. CASE buckets[k] = NoBucket
        BY <2>1, <3>2 DEF Funded
      <3> QED
        BY <3>1, <3>2
    <2> QED
      BY <2>1, <2>2
  <1> QED
    BY <1>1, <1>2, <1>3, PTL DEF Spec

\* A client that waits as long as its Retry-After says, alone on its key, is
\* not rejected again (Allow, serveExtensions).
THEOREM RetryKept ==
  ASSUME ~Overlap
  PROVE  Spec => RetryHonoured
  <1> DEFINE Inv == Types /\ Alone /\ Repaid
             Honoured == \A c \in Clients, k \in Keys :
                            Allow(c) /\ pending[c].key = k /\ retry[k] = 0 => retry'[k] = NoRetry
  <1>1. Init => Inv
    BY LimiterInit
  <1>2. Inv /\ [Next]_vars => Inv'
    BY TypesStep, AloneStep, RepaidStep
  <1>3. Inv => Honoured
    <2> SUFFICES ASSUME Inv, NEW c \in Clients, NEW k \in Keys, Allow(c), pending[c].key = k, retry[k] = 0
                 PROVE  retry'[k] = NoRetry
      OBVIOUS
    <2>1. PICK j \in Keys, delay \in 0 .. MaxDelay, tokens \in 0 .. Capacity : Grants(c, j, delay, tokens)
      BY AllowEffect
    <2>2. j = k /\ pending[c].age = delay
      BY <2>1, GrantsPending
    <2>3. /\ tokens \in Nat /\ delay \in Nat /\ Window \in Nat /\ Capacity \in Nat
          /\ Window <= Capacity /\ Window >= 1
      BY Sizes
    <2>4. tokens >= Window
      <3>1. CASE tokens = Capacity
        BY <2>3, <3>1
      <3>2. CASE buckets[k] # NoBucket /\ tokens = Refilled(buckets[k], delay)
        <4>1. /\ buckets[k] \in Buckets /\ buckets[k].tokens \in Nat /\ buckets[k].age \in Nat
              /\ delay <= buckets[k].age
          BY <2>2, <3>2, BucketIs, Sizes DEF Alone
        <4>2. retry[k] # NoRetry
          BY DEF NoRetry
        <4>3. buckets[k].tokens + Refill(buckets[k].age - delay) >= Window
          BY <2>2, <3>2, <4>2 DEF Repaid
        <4>4. CASE buckets[k].age > delay
          BY <2>3, <3>2, <4>1, <4>3, <4>4, RefilledIs
        <4>5. CASE buckets[k].age = delay
          <5>1. tokens = buckets[k].tokens
            BY <2>3, <3>2, <4>1, <4>5, RefilledIs
          <5>2. Refill(buckets[k].age - delay) = 0
            <6>1. buckets[k].age - delay = 0
              BY <4>1, <4>5
            <6> QED
              BY <6>1, RefillOne
          <5> QED
            BY <2>3, <4>3, <5>1, <5>2
        <4> QED
          BY <2>3, <4>1, <4>4, <4>5
      <3> QED
        BY <2>1, <2>2, <3>1, <3>2 DEF Grants, Found
    <2>5. Cost(tokens) # 0
      BY <2>3, <2>4 DEF Cost
    <2> QED
      BY <2>1, <2>2, <2>5 DEF Grants, Types
  <1>4. Inv => [Honoured]_vars
    BY <1>3
  <1> HIDE DEF Honoured
  <1>5. Spec => [][Honoured]_vars
    BY <1>1, <1>2, <1>4, PTL DEF Spec
  <1> QED
    BY <1>5 DEF RetryHonoured, Honoured
==============================================================================
