----------------------------- MODULE TurboProofs ----------------------------
(***************************************************************************)
(* For every burst, rate, sweep interval, set of keys and set of workers:  *)
(* the rate limiter's allowance is bounded, and on a current-thread        *)
(* runtime the limiter implements a token bucket per key. For every stack  *)
(* of distinct layers and finite set of requests: the middleware chain     *)
(* unwinds what it did.                                                    *)
(***************************************************************************)
EXTENDS RateLimiter, TurboLayers, FiniteSetTheorems, TLAPS

Slot == [tokens : Nat, last : Nat]

\* The type of the limiter's state (turbo/mod.rs:364) and of the histories.
LimitTypeOK ==
  /\ clock \in Nat /\ last_sweep \in Nat
  /\ DOMAIN buckets \subseteq Keys
  /\ buckets \in [DOMAIN buckets -> Slot]
  /\ stamp \in [Workers -> [key : Keys \cup {NoKey}, now : Nat]]
  /\ served \in [Keys -> Nat \X Nat]
  /\ upto \in [Keys -> Nat] /\ refunded \in [Keys -> Nat]

\* No stamp and no credit lies in the future.
NoFuture == /\ \A w \in Workers : stamp[w].now <= clock
            /\ \A k \in Keys : upto[k] <= clock

\* What a key was let through plus what it still has was credited: the
\* strengthening that makes AllowanceBounded inductive. A key without a
\* bucket has been credited its whole burst once more.
Account(k) ==
  IF k \in DOMAIN buckets
  THEN /\ buckets[k].last = upto[k]
       /\ buckets[k].tokens <= Burst
       /\ buckets[k].tokens + served[k][1] * Cost <= Burst + upto[k] + refunded[k]
  ELSE served[k][1] * Cost <= upto[k] + refunded[k]

Accounts == \A k \in Keys : Account(k)

LimitInv == LimitTypeOK /\ NoFuture /\ Accounts

-----------------------------------------------------------------------------
\* Counting one more request costs Cost more.
LEMMA CostOfOneMore ==
    ASSUME NEW n \in Nat
    PROVE  n * Cost \in Nat /\ (n + 1) * Cost = n * Cost + Cost
BY LimitsAssumption

\* What the sweep keeps is part of the map, with the same buckets.
LEMMA KeptPart ==
    ASSUME LimitTypeOK, NEW dead
    PROVE  /\ DOMAIN Without(buckets, dead) = DOMAIN buckets \ dead
           /\ \A k \in DOMAIN buckets \ dead : Without(buckets, dead)[k] = buckets[k]
           /\ Without(buckets, dead) \in [DOMAIN buckets \ dead -> Slot]
BY DEF Without, LimitTypeOK

\* The initial state (turbo/mod.rs:368): no buckets.
LEMMA InitInv == LimitInit => LimitInv
<1> SUFFICES ASSUME LimitInit PROVE LimitInv
  OBVIOUS
<1>1. DOMAIN buckets = {}
  BY DEF LimitInit
<1>2. LimitTypeOK
  BY <1>1 DEF LimitInit, LimitTypeOK, Idle, Slot
<1>3. NoFuture
  BY DEF LimitInit, NoFuture, Idle
<1>4. \A k \in Keys : served[k][1] * Cost = 0
  BY LimitsAssumption DEF LimitInit
<1>5. Accounts
  BY <1>1, <1>4 DEF LimitInit, Accounts, Account
<1>6. QED
  BY <1>2, <1>3, <1>5 DEF LimitInv

\* Time passing and a worker reading the clock change no bucket.
LEMMA QuietStepInv ==
    ASSUME LimitInv, LimitTick \/ \E w \in Workers, k \in Keys : Stamp(w, k)
    PROVE  LimitInv'
<1>1. CASE LimitTick
  <2>1. LimitTypeOK'
    BY <1>1 DEF LimitInv, LimitTypeOK, LimitTick
  <2>2. NoFuture'
    BY <1>1 DEF LimitInv, LimitTypeOK, NoFuture, LimitTick
  <2>3. QED
    BY <1>1, <2>1, <2>2 DEF LimitInv, Accounts, Account, LimitTick
<1>2. CASE \E w \in Workers, k \in Keys : Stamp(w, k)
  <2>1. PICK w \in Workers, k \in Keys : Stamp(w, k)
    BY <1>2
  <2>2. LimitTypeOK'
    BY <2>1 DEF LimitInv, LimitTypeOK, Stamp
  <2>3. NoFuture'
    BY <2>1 DEF LimitInv, LimitTypeOK, NoFuture, Stamp
  <2>4. QED
    BY <2>1, <2>2, <2>3 DEF LimitInv, Accounts, Account, Stamp
<1>3. QED
  BY <1>1, <1>2

\* The critical section (turbo/mod.rs:380-401): the sweep forgets only full
\* buckets, and a stale stamp is paid for by the refund.
LEMMA DecideInv ==
    ASSUME LimitInv, NEW w \in Workers, Decide(w)
    PROVE  LimitInv'
<1> DEFINE k == stamp[w].key
           now == stamp[w].now
           gone == Swept(now)
           kept == Without(buckets, gone)
           seen == IF k \in gone THEN Later(upto[k], now) ELSE upto[k]
           entry == Entry(kept, k, now)
           pass == Passes(kept, k, now)
           slot == [tokens |-> entry - (IF pass THEN Cost ELSE 0), last |-> now]
<1>1. k \in Keys /\ now \in Nat /\ now <= clock
  BY DEF Decide, Busy, LimitInv, LimitTypeOK, NoFuture
<1>2. /\ DOMAIN kept = DOMAIN buckets \ gone
      /\ \A j \in DOMAIN buckets \ gone : kept[j] = buckets[j]
      /\ kept \in [DOMAIN buckets \ gone -> Slot]
  BY KeptPart, Zenon DEF LimitInv
<1>3. gone \subseteq DOMAIN buckets
  BY SMTT(30), Zenon DEF Swept
<1>4. /\ entry \in Nat /\ entry <= Burst
      /\ pass <=> entry >= Cost
  BY <1>1, <1>2, LimitsAssumption, SMTT(30), Zenon DEF Entry, Passes, Capped, Since, Slot
<1>5. slot \in Slot /\ slot.tokens <= Burst /\ slot.last = now
  BY <1>1, <1>4, LimitsAssumption DEF Slot
<1>6. /\ buckets' = With(kept, k, slot)
      /\ served' = [served EXCEPT ![k] = Counted(@, pass)]
      /\ refunded' = [refunded EXCEPT ![k] = @ + Since(seen, now)]
      /\ upto' = [j \in Keys |-> IF j = k THEN now
                                 ELSE IF j \in gone THEN Later(upto[j], now)
                                 ELSE upto[j]]
      /\ last_sweep' = (IF SweepDue(now) THEN now ELSE last_sweep)
      /\ stamp' = [stamp EXCEPT ![w] = Idle]
      /\ clock' = clock
  BY SMTT(30), Zenon DEF Decide, Charged
<1>7. /\ DOMAIN buckets' = (DOMAIN buckets \ gone) \cup {k}
      /\ buckets'[k] = slot
      /\ \A j \in DOMAIN buckets \ gone : j # k => buckets'[j] = buckets[j]
      /\ buckets' \in [DOMAIN buckets' -> Slot]
  BY <1>2, <1>5, <1>6 DEF With
<1>8. seen \in Nat /\ Since(seen, now) \in Nat
      /\ \A j \in Keys : Later(upto[j], now) \in Nat /\ Later(upto[j], now) <= clock
  BY <1>1 DEF Later, Since, LimitInv, LimitTypeOK, NoFuture
<1>9. LimitTypeOK'
  <2>1. served' \in [Keys -> Nat \X Nat]
    BY <1>1, <1>6, SMTT(30), Zenon DEF Counted, LimitInv, LimitTypeOK
  <2>2. upto' \in [Keys -> Nat] /\ refunded' \in [Keys -> Nat]
    BY <1>1, <1>6, <1>8 DEF LimitInv, LimitTypeOK
  <2>3. stamp' \in [Workers -> [key : Keys \cup {NoKey}, now : Nat]]
    BY <1>6 DEF LimitInv, LimitTypeOK, Idle
  <2>4. last_sweep' \in Nat /\ clock' \in Nat
    BY <1>1, <1>6 DEF LimitInv, LimitTypeOK
  <2>5. DOMAIN buckets' \subseteq Keys
    BY <1>1, <1>7 DEF LimitInv, LimitTypeOK
  <2>6. QED
    BY <1>7, <2>1, <2>2, <2>3, <2>4, <2>5 DEF LimitTypeOK
<1>10. NoFuture'
  <2>1. \A v \in Workers : stamp'[v].now <= clock'
    BY <1>6 DEF LimitInv, LimitTypeOK, NoFuture, Idle
  <2>2. \A j \in Keys : upto'[j] <= clock'
    BY <1>1, <1>6, <1>8 DEF LimitInv, LimitTypeOK, NoFuture
  <2>3. QED
    BY <2>1, <2>2 DEF NoFuture
\* An evicted key had been credited its whole burst by now.
<1>11. ASSUME NEW j \in gone
       PROVE  /\ j \in Keys
              /\ served[j][1] * Cost <= Later(upto[j], now) + refunded[j]
  <2>1. j \in DOMAIN buckets /\ Refilled(buckets[j], now)
    BY <1>11 DEF Swept
  <2>2. j \in Keys /\ buckets[j] \in Slot /\ Account(j)
    BY <2>1 DEF LimitInv, LimitTypeOK, Accounts
  <2>3. buckets[j].tokens + Since(now, buckets[j].last) >= Burst
    BY <1>1, <2>1, <2>2, LimitsAssumption DEF Refilled, Capped, Since, Slot
  <2>4. served[j][1] * Cost \in Nat /\ upto[j] \in Nat /\ refunded[j] \in Nat
    BY <2>2, CostOfOneMore DEF LimitInv, LimitTypeOK
  <2>5. QED
    BY <1>1, <2>1, <2>2, <2>3, <2>4, LimitsAssumption DEF Account, Since, Later, Slot
<1>12. ASSUME NEW j \in Keys, j # k
       PROVE  Account(j)'
  <2>1. served'[j] = served[j] /\ refunded'[j] = refunded[j]
    BY <1>6, <1>12, SMTT(30), Zenon DEF LimitInv, LimitTypeOK
  <2>2. CASE j \in gone
    BY <1>6, <1>7, <1>11, <1>12, <2>1, <2>2 DEF Account
  <2>3. CASE j \notin gone
    <3>1. upto'[j] = upto[j] /\ (j \in DOMAIN buckets' <=> j \in DOMAIN buckets)
      BY <1>6, <1>7, <1>12, <2>3
    <3>2. j \in DOMAIN buckets => buckets'[j] = buckets[j]
      BY <1>7, <1>12, <2>3
    <3>3. QED
      BY <2>1, <3>1, <3>2, SMTT(30), Zenon DEF Account, LimitInv, Accounts
  <2>4. QED
    BY <2>2, <2>3
<1>13. ASSUME NEW j \in Keys, j = k
       PROVE  Account(j)'
  <2> DEFINE used == served[k][1] * Cost
  <2>1. used \in Nat /\ upto[k] \in Nat /\ refunded[k] \in Nat
    BY <1>1, CostOfOneMore DEF LimitInv, LimitTypeOK
  <2>2. served'[k][1] * Cost = used + (IF pass THEN Cost ELSE 0)
    BY <1>1, <1>6, CostOfOneMore DEF Counted, LimitInv, LimitTypeOK
  <2>3. upto'[k] = now /\ refunded'[k] = refunded[k] + Since(seen, now)
    BY <1>1, <1>6 DEF LimitInv, LimitTypeOK
  \* Refilling credits the time since the key was last seen, at most.
  <2>4. entry + used <= Burst + now + refunded[k] + Since(seen, now)
    <3>1. CASE k \in DOMAIN kept
      <4>1. k \in DOMAIN buckets /\ k \notin gone /\ kept[k] = buckets[k]
            /\ buckets[k] \in Slot
        BY <1>2, <3>1 DEF LimitInv, LimitTypeOK
      <4>2. /\ buckets[k].last = upto[k]
            /\ buckets[k].tokens + used <= Burst + upto[k] + refunded[k]
        BY <1>1, <4>1 DEF LimitInv, Accounts, Account
      <4>3. entry <= buckets[k].tokens + Since(now, upto[k])
        BY <1>1, <2>1, <3>1, <4>1, <4>2, LimitsAssumption, SMTT(30), Zenon DEF Entry, Capped, Since, Slot
      <4>4. QED
        BY <1>1, <1>4, <2>1, <4>1, <4>2, <4>3, LimitsAssumption, SMTT(30), Zenon DEF Since, Slot
    <3>2. CASE k \notin DOMAIN kept
      <4>1. entry = Burst
        BY <3>2 DEF Entry
      <4>2. used <= seen + refunded[k]
        <5>1. CASE k \in gone
          BY <1>11, <5>1
        <5>2. CASE k \notin gone
          BY <1>1, <1>2, <3>2, <5>2, Zenon DEF LimitInv, Accounts, Account
        <5>3. QED
          BY <5>1, <5>2
      <4>3. QED
        BY <1>1, <1>8, <2>1, <4>1, <4>2, LimitsAssumption, SMTT(30), Zenon DEF Since
    <3>3. QED
      BY <3>1, <3>2
  <2>5. slot.tokens + served'[k][1] * Cost = entry + used
    BY <1>4, <2>1, <2>2, LimitsAssumption, SMTT(30), Zenon
  <2>6. j \in DOMAIN buckets' /\ buckets'[j].last = upto'[j]
        /\ buckets'[j].tokens = slot.tokens /\ slot.tokens <= Burst
    BY <1>5, <1>7, <1>13, <2>3, SMTT(30), Zenon
  <2>7. slot.tokens + served'[j][1] * Cost <= Burst + upto'[j] + refunded'[j]
    BY <1>1, <1>8, <1>13, <2>1, <2>3, <2>4, <2>5, LimitsAssumption, SMTT(30), Zenon
  <2>8. QED
    BY <2>6, <2>7 DEF Account
<1>14. QED
  BY <1>9, <1>10, <1>12, <1>13 DEF LimitInv, Accounts

\* The invariant implies the bound on what a key is let through.
LEMMA InvBounds == LimitInv => AllowanceBounded
<1> SUFFICES ASSUME LimitInv, NEW k \in Keys
             PROVE  served[k][1] * Cost <= Burst + clock + refunded[k]
  BY DEF AllowanceBounded
<1>1. /\ served[k][1] * Cost \in Nat /\ upto[k] \in Nat /\ refunded[k] \in Nat
      /\ clock \in Nat /\ upto[k] <= clock
  BY CostOfOneMore DEF LimitInv, LimitTypeOK, NoFuture
<1>2. CASE k \in DOMAIN buckets
  <2>1. buckets[k].tokens \in Nat
    BY <1>2 DEF LimitInv, LimitTypeOK, Slot
  <2>2. QED
    BY <1>1, <1>2, <2>1, LimitsAssumption DEF LimitInv, Accounts, Account
<1>3. CASE k \notin DOMAIN buckets
  BY <1>1, <1>3, LimitsAssumption DEF LimitInv, Accounts, Account
<1>4. QED
  BY <1>2, <1>3

\* Every step of the limiter keeps the accounts.
LEMMA StepInv == LimitInv /\ [LimitNext]_limitVars => LimitInv'
<1> SUFFICES ASSUME LimitInv, [LimitNext]_limitVars PROVE LimitInv'
  OBVIOUS
<1>1. CASE LimitTick \/ \E w \in Workers, k \in Keys : Stamp(w, k)
  BY <1>1, QuietStepInv
<1>2. CASE \E w \in Workers : Decide(w)
  BY <1>2, DecideInv
<1>3. CASE UNCHANGED limitVars
  BY <1>3 DEF LimitInv, LimitTypeOK, NoFuture, Accounts, Account, limitVars
<1>4. QED
  BY <1>1, <1>2, <1>3 DEF LimitNext

\* A key is never let through beyond its burst, the time that has passed and
\* the time stale stamps credit twice, for every configuration of
\* Router::rate_limit (turbo/mod.rs:353).
THEOREM AllowanceTheorem == LimitSpec => []AllowanceBounded
BY StepInv, InitInv, InvBounds, PTL DEF LimitSpec

-----------------------------------------------------------------------------
\* On a current-thread runtime at most one request is between its clock and
\* the lock, and no key has been credited beyond that request's stamp.
Serial ==
  flavor = "current_thread" =>
    /\ \A v, w \in Workers : Busy(v) /\ Busy(w) => v = w
    /\ \A w \in Workers, k \in Keys : Busy(w) => upto[k] <= stamp[w].now

\* Serial holds initially and is preserved: the filter never awaits
\* (turbo/mod.rs:373-401).
LEMMA SerialInit == LimitInit => Serial
BY DEF LimitInit, Serial, Busy, Idle

\* On one thread no other filter runs between the clock reading and the decision.
LEMMA SerialStep ==
    ASSUME LimitInv, Serial, [LimitNext]_limitVars
    PROVE  Serial'
<1>1. CASE LimitTick
  BY <1>1 DEF LimitTick, Serial, Busy
<1>2. ASSUME NEW w \in Workers, NEW k \in Keys, Stamp(w, k)
      PROVE  Serial'
  BY <1>2, LimitsAssumption DEF Stamp, Serial, Busy, LimitInv, LimitTypeOK, NoFuture
<1>3. ASSUME NEW w \in Workers, Decide(w)
      PROVE  Serial'
  <2>1. /\ flavor' = flavor /\ Busy(w)
        /\ stamp' = [stamp EXCEPT ![w] = Idle]
    BY <1>3 DEF Decide
  <2>2. \A v \in Workers : Busy(v)' => v # w /\ Busy(v)
    BY <2>1 DEF Busy, Idle, LimitInv, LimitTypeOK
  <2>3. QED
    BY <2>1, <2>2 DEF Serial
<1>4. CASE UNCHANGED limitVars
  BY <1>4 DEF limitVars, Serial, Busy
<1>5. QED
  BY <1>1, <1>2, <1>3, <1>4 DEF LimitNext

-----------------------------------------------------------------------------
\* No sweep was stamped after the clock or, on a current-thread runtime, after
\* the request that is under way: what makes IdleBucketsGone inductive.
SweepPast ==
  /\ last_sweep <= clock
  /\ flavor = "current_thread" =>
       \A w \in Workers : Busy(w) => last_sweep <= stamp[w].now

IdleInv == SweepPast /\ IdleBucketsGone

\* The critical section (turbo/mod.rs:376-401) keeps it: what a sweep retains
\* was not full, and the bucket of the request is as recent as the sweep.
LEMMA DecideIdle ==
    ASSUME LimitInv, Serial, IdleInv, NEW w \in Workers, Decide(w)
    PROVE  IdleInv'
<1> DEFINE k == stamp[w].key
           now == stamp[w].now
           kept == Without(buckets, Swept(now))
<1>1. /\ Busy(w) /\ flavor' = flavor /\ clock' = clock
      /\ stamp' = [stamp EXCEPT ![w] = Idle]
      /\ last_sweep' = (IF SweepDue(now) THEN now ELSE last_sweep)
      /\ buckets' = Charged(kept, k, now)
  BY DEF Decide
<1>2. /\ now \in Nat /\ now <= clock /\ last_sweep \in Nat /\ clock \in Nat
      /\ flavor = "current_thread" => last_sweep <= now
  BY <1>1 DEF LimitInv, LimitTypeOK, NoFuture, IdleInv, SweepPast
<1>3. SweepPast'
  <2>1. last_sweep' <= clock'
    BY <1>1, <1>2 DEF IdleInv, SweepPast
  <2>2. flavor = "current_thread" => \A v \in Workers : ~Busy(v)'
    BY <1>1, LimitsAssumption DEF Serial, Busy, Idle, LimitInv, LimitTypeOK
  <2>3. QED  BY <1>1, <2>1, <2>2 DEF SweepPast
<1>4. IdleBucketsGone'
  <2> SUFFICES ASSUME flavor = "current_thread", NEW j \in DOMAIN buckets'
               PROVE  buckets'[j].last >= last_sweep' \/ buckets'[j].last + Burst > last_sweep'
    BY <1>1 DEF IdleBucketsGone
  <2>1. last_sweep' <= now
    BY <1>1, <1>2
  <2>2. CASE j = k
    <3>1. buckets'[j].last = now
      BY <1>1, <2>2 DEF Charged, With
    <3>2. QED  BY <1>2, <2>1, <3>1
  <2>3. CASE j # k
    <3>1. j \in DOMAIN kept /\ buckets'[j] = kept[j]
      BY <1>1, <2>3 DEF Charged, With
    <3>2. j \in DOMAIN buckets /\ j \notin Swept(now) /\ buckets'[j] = buckets[j]
      BY <3>1, KeptPart, ZenonT(60) DEF LimitInv
    <3>3. buckets[j] \in Slot /\ Burst \in Nat
      BY <3>2, LimitsAssumption DEF LimitInv, LimitTypeOK
    <3>4. CASE SweepDue(now)
      <4>1. ~(Capped(buckets[j].tokens + Since(now, buckets[j].last)) >= Burst)
        BY <3>2, <3>4 DEF Swept, Refilled
      <4>2. buckets[j].tokens + Since(now, buckets[j].last) < Burst
        BY <1>2, <3>3, <4>1 DEF Capped, Since, Slot
      <4>3. QED
        BY <1>1, <1>2, <3>2, <3>3, <3>4, <4>2 DEF Since, Slot
    <3>5. CASE ~SweepDue(now)
      BY <1>1, <3>2, <3>5 DEF IdleInv, IdleBucketsGone
    <3>6. QED  BY <3>4, <3>5
  <2>4. QED  BY <2>2, <2>3
<1>5. QED  BY <1>3, <1>4 DEF IdleInv

\* The limiter bounds what a key gets and, on a current-thread runtime, drops
\* the buckets of idle keys at every sweep (turbo/mod.rs:361-391).
THEOREM LimiterTheorem == LimitSpec => []LimiterSound
<1>1. LimitInit => IdleInv
  BY DEF LimitInit, IdleInv, SweepPast, IdleBucketsGone, Busy, Idle
<1>2. LimitInv /\ Serial /\ IdleInv /\ [LimitNext]_limitVars => IdleInv'
  <2> SUFFICES ASSUME LimitInv, Serial, IdleInv, [LimitNext]_limitVars PROVE IdleInv'
    OBVIOUS
  <2>1. CASE LimitTick
    <3>1. last_sweep' <= clock'
      BY <2>1 DEF LimitTick, IdleInv, SweepPast, LimitInv, LimitTypeOK
    <3>2. QED
      BY <2>1, <3>1 DEF LimitTick, IdleInv, SweepPast, IdleBucketsGone, Busy
  <2>2. ASSUME NEW w \in Workers, NEW k \in Keys, Stamp(w, k) PROVE IdleInv'
    <3>1. /\ stamp' = [stamp EXCEPT ![w] = [key |-> k, now |-> clock]]
          /\ UNCHANGED <<flavor, clock, buckets, last_sweep>>
      BY <2>2 DEF Stamp
    <3>2. /\ stamp'[w].now = clock
          /\ \A v \in Workers \ {w} : stamp'[v] = stamp[v]
      BY <3>1 DEF LimitInv, LimitTypeOK
    <3>3. ASSUME flavor = "current_thread", NEW v \in Workers, Busy(v)'
          PROVE  last_sweep <= stamp'[v].now
      <4>1. CASE v = w
        BY <3>2, <4>1 DEF IdleInv, SweepPast
      <4>2. CASE v # w
        BY <3>2, <3>3, <4>2 DEF IdleInv, SweepPast, Busy
      <4>3. QED  BY <4>1, <4>2
    <3>4. QED
      BY <3>1, <3>3 DEF IdleInv, SweepPast, IdleBucketsGone
  <2>3. ASSUME NEW w \in Workers, Decide(w) PROVE IdleInv'
    BY <2>3, DecideIdle
  <2>4. CASE UNCHANGED limitVars
    BY <2>4 DEF limitVars, IdleInv, SweepPast, IdleBucketsGone, Busy
  <2>5. QED
    BY <2>1, <2>2, <2>3, <2>4 DEF LimitNext
<1>3. LimitInv /\ IdleInv => LimiterSound
  BY InvBounds DEF IdleInv, LimiterSound
<1>4. QED
  BY <1>1, <1>2, <1>3, StepInv, SerialStep, InitInv, SerialInit, PTL DEF LimitSpec

-----------------------------------------------------------------------------
\* Initially every key has its whole burst and no verdict.
LEMMA BucketInit == LimitInit => Bucket!Init
<1> SUFFICES ASSUME LimitInit PROVE Bucket!Init
  OBVIOUS
<1>1. Decided = {} /\ DOMAIN buckets = {}
  BY DEF LimitInit, Decided, Busy, Idle
<1>2. levelBar = [k \in Keys |-> Burst]
  BY <1>1 DEF levelBar, LevelOf, Effective
<1>3. verdictBar = [k \in Keys |-> <<0, 0>>]
  BY <1>1 DEF verdictBar, EffectiveVerdict, LimitInit
<1>4. QED
  BY <1>2, <1>3 DEF Bucket!Init

\* With no request between clock and lock the map itself is effective.
LEMMA EffectiveIdle ==
    ASSUME \A v \in Workers : ~Busy(v)
    PROVE  /\ Effective = buckets
           /\ verdictBar = [k \in Keys |-> served[k]]
BY DEF Effective, Decided, verdictBar, EffectiveVerdict

\* With one such request its verdict is effective.
LEMMA EffectiveBusy ==
    ASSUME NEW w \in Workers, Busy(w), \A v \in Workers : Busy(v) => v = w
    PROVE  /\ Effective = Charged(Kept(w), stamp[w].key, stamp[w].now)
           /\ \A k \in Keys :
                EffectiveVerdict(k) =
                  IF stamp[w].key = k THEN Counted(served[k], Passes(Kept(w), k, stamp[w].now))
                  ELSE served[k]
<1>1. Decided = {w}
  BY DEF Decided
<1>2. (CHOOSE v \in Decided : TRUE) = w
  BY <1>1
<1>3. QED
  BY <1>1, <1>2 DEF Effective, EffectiveVerdict

\* The effective buckets are typed, hold at most the burst, and lie in the past.
LEMMA EffectiveTyped ==
    ASSUME LimitInv, Serial, flavor = "current_thread"
    PROVE  /\ DOMAIN Effective \subseteq Keys
           /\ \A k \in DOMAIN Effective :
                /\ Effective[k] \in Slot
                /\ Effective[k].tokens <= Burst
                /\ Effective[k].last <= clock
<1>1. \A k \in DOMAIN buckets :
        buckets[k] \in Slot /\ buckets[k].tokens <= Burst /\ buckets[k].last <= clock
  BY DEF LimitInv, LimitTypeOK, NoFuture, Accounts, Account
<1>2. CASE \A v \in Workers : ~Busy(v)
  BY <1>1, <1>2, EffectiveIdle, SMTT(30), Zenon DEF LimitInv, LimitTypeOK
<1>3. ASSUME NEW w \in Workers, Busy(w)
      PROVE  /\ DOMAIN Effective \subseteq Keys
             /\ \A k \in DOMAIN Effective :
                  /\ Effective[k] \in Slot
                  /\ Effective[k].tokens <= Burst
                  /\ Effective[k].last <= clock
  <2> DEFINE k == stamp[w].key
             now == stamp[w].now
             gone == Swept(now)
             entry == Entry(Kept(w), k, now)
             slot == [tokens |-> entry - (IF Passes(Kept(w), k, now) THEN Cost ELSE 0),
                      last |-> now]
  <2>1. k \in Keys /\ now \in Nat /\ now <= clock
    BY <1>3 DEF Busy, LimitInv, LimitTypeOK, NoFuture
  <2>2. Effective = With(Kept(w), k, slot)
    BY <1>3, EffectiveBusy DEF Serial, Charged
  <2>3. /\ DOMAIN Kept(w) = DOMAIN buckets \ gone
        /\ \A j \in DOMAIN buckets \ gone : Kept(w)[j] = buckets[j]
    BY KeptPart, Zenon DEF Kept, LimitInv
  <2>4. entry \in Nat /\ entry <= Burst
    BY <1>1, <2>1, <2>3, LimitsAssumption, SMTT(30), Zenon DEF Entry, Capped, Since, Slot
  <2>5. slot \in Slot /\ slot.tokens <= Burst /\ slot.last <= clock
    BY <2>1, <2>4, LimitsAssumption DEF Slot, Passes
  <2>6. DOMAIN buckets \subseteq Keys
    BY DEF LimitInv, LimitTypeOK
  <2>7. QED
    BY <1>1, <2>1, <2>2, <2>3, <2>5, <2>6 DEF With
<1>4. QED
  BY <1>2, <1>3

\* A tick refills every key by one unit, up to the burst.
LEMMA TickRefills ==
    ASSUME LimitInv, Serial, flavor = "current_thread", LimitTick
    PROVE  Bucket!Refill
<1>1. Effective' = Effective /\ verdictBar' = verdictBar
  <2>1. UNCHANGED <<buckets, last_sweep, stamp, served>>
    BY DEF LimitTick
  <2>2. Decided' = Decided
    BY <2>1 DEF Decided, Busy
  <2>3. QED
    BY <2>1, <2>2, SMTT(30), Zenon DEF Effective, verdictBar, EffectiveVerdict, Kept, Swept, SweepDue
<1>2. ASSUME NEW k \in Keys
      PROVE  LevelOf(Effective, k)' = Bucket!AtMost(LevelOf(Effective, k) + 1)
  <2>1. CASE k \in DOMAIN Effective
    <3>1. Effective[k] \in Slot /\ Effective[k].last <= clock
      BY <2>1, EffectiveTyped
    <3>2. clock \in Nat /\ clock' = clock + 1
      BY DEF LimitInv, LimitTypeOK, LimitTick
    <3>3. QED
      BY <1>1, <2>1, <3>1, <3>2, LimitsAssumption
         DEF LevelOf, Capped, Since, Slot, Bucket!AtMost
  <2>2. CASE k \notin DOMAIN Effective
    BY <1>1, <2>2, LimitsAssumption DEF LevelOf, Bucket!AtMost
  <2>3. QED
    BY <2>1, <2>2
<1>3. levelBar' = [k \in Keys |-> Bucket!AtMost(levelBar[k] + 1)]
  BY <1>2 DEF levelBar
<1>4. QED
  BY <1>1, <1>3 DEF Bucket!Refill

\* Reading the clock is where the request is decided.
LEMMA StampDecides ==
    ASSUME LimitInv, Serial, flavor = "current_thread",
           NEW w \in Workers, NEW k \in Keys, Stamp(w, k)
    PROVE  Bucket!Pass(k) \/ Bucket!Refuse(k)
<1> DEFINE gone == Swept(clock)
           kept == Without(buckets, gone)
           entry == Entry(kept, k, clock)
           pass == Passes(kept, k, clock)
           slot == [tokens |-> entry - (IF pass THEN Cost ELSE 0), last |-> clock]
<1>1. /\ \A v \in Workers : ~Busy(v)
      /\ stamp' = [stamp EXCEPT ![w] = [key |-> k, now |-> clock]]
      /\ UNCHANGED <<flavor, clock, buckets, last_sweep, served, upto, refunded>>
  BY DEF Stamp
<1>2. stamp'[w] = [key |-> k, now |-> clock] /\ \A v \in Workers : v # w => stamp'[v] = stamp[v]
  BY <1>1 DEF LimitInv, LimitTypeOK
<1>3. Busy(w)' /\ \A v \in Workers : Busy(v)' => v = w
  BY <1>1, <1>2, LimitsAssumption DEF Busy
<1>4. Swept(clock)' = gone /\ Kept(w)' = kept
  BY <1>1, <1>2 DEF Kept, Swept, SweepDue
<1>5. Effective = buckets /\ \A j \in Keys : EffectiveVerdict(j) = served[j]
  BY <1>1, EffectiveIdle, SMTT(30), Zenon DEF EffectiveVerdict, Decided
<1>6. /\ Effective' = With(kept, k, slot)
      /\ \A j \in Keys : EffectiveVerdict(j)' = IF j = k THEN Counted(served[j], pass) ELSE served[j]
  <2>1. /\ Effective' = Charged(Kept(w)', stamp'[w].key, stamp'[w].now)
        /\ \A j \in Keys :
             EffectiveVerdict(j)' =
               IF stamp'[w].key = j THEN Counted(served'[j], Passes(Kept(w)', j, stamp'[w].now))
               ELSE served'[j]
    <3>1. Decided' = {w}
      BY <1>3 DEF Decided
    <3>2. (CHOOSE v \in Decided' : TRUE) = w
      BY <3>1
    <3>3. QED
      BY <3>1, <3>2, Zenon DEF Effective, EffectiveVerdict, Charged, Passes, Entry
  <2>2. QED
    BY <1>1, <1>2, <1>4, <2>1, SMTT(30), Zenon DEF Charged
<1>7. /\ DOMAIN kept = DOMAIN buckets \ gone
      /\ \A j \in DOMAIN buckets \ gone : kept[j] = buckets[j]
      /\ gone \subseteq DOMAIN buckets
  BY KeptPart, Zenon DEF LimitInv, Swept
<1>8. \A j \in DOMAIN buckets :
        buckets[j] \in Slot /\ buckets[j].tokens <= Burst /\ buckets[j].last <= clock
  BY DEF LimitInv, LimitTypeOK, NoFuture, Accounts, Account
<1>9. clock \in Nat
  BY DEF LimitInv, LimitTypeOK
\* A swept bucket was full, so forgetting it does not show.
<1>10. ASSUME NEW j \in Keys
       PROVE  /\ LevelOf(buckets, j) = LevelOf(kept, j)
              /\ LevelOf(buckets, j) \in Nat /\ LevelOf(buckets, j) <= Burst
  <2>1. CASE j \in gone
    <3>1. Refilled(buckets[j], clock) /\ buckets[j] \in Slot
      BY <1>7, <1>8, <2>1 DEF Swept
    <3>2. LevelOf(buckets, j) = Burst
      BY <1>7, <1>9, <2>1, <3>1, LimitsAssumption, SMTT(30), Zenon DEF LevelOf, Refilled, Capped, Since, Slot
    <3>3. QED
      BY <1>7, <2>1, <3>2, LimitsAssumption, SMTT(30), Zenon DEF LevelOf
  <2>2. CASE j \notin gone
    BY <1>7, <1>8, <1>9, <2>2, LimitsAssumption, SMTT(30), Zenon DEF LevelOf, Capped, Since, Slot
  <2>3. QED
    BY <2>1, <2>2
<1>11. entry = LevelOf(buckets, k) /\ entry \in Nat /\ entry <= Burst /\ (pass <=> entry >= Cost)
  <2>1. entry = LevelOf(kept, k)
    BY DEF Entry, LevelOf
  <2>2. QED
    BY <1>10, <2>1 DEF Passes
<1>12. ASSUME NEW j \in Keys
       PROVE  LevelOf(Effective, j)' =
                IF j = k THEN entry - (IF pass THEN Cost ELSE 0) ELSE LevelOf(buckets, j)
  <2>1. CASE j = k
    <3>1. j \in DOMAIN Effective' /\ Effective'[j] = slot
      BY <1>6, <2>1 DEF With
    <3>2. slot.tokens \in Nat /\ slot.tokens <= Burst
      BY <1>11, LimitsAssumption
    <3>3. LevelOf(Effective, j)' = Capped(slot.tokens + Since(clock', slot.last))
      BY <3>1, Zenon DEF LevelOf
    <3>4. clock' = clock /\ slot.last = clock
      BY <1>1, Zenon
    <3>5. Since(clock, clock) = 0
      BY <1>9 DEF Since
    <3>6. slot.tokens = entry - (IF pass THEN Cost ELSE 0)
      BY Zenon
    <3> HIDE DEF slot
    <3>7. Capped(slot.tokens + 0) = slot.tokens
      BY <3>2, LimitsAssumption DEF Capped
    <3>8. QED
      BY <2>1, <3>3, <3>4, <3>5, <3>6, <3>7, Zenon
  <2>2. CASE j # k
    <3>1. /\ j \in DOMAIN Effective' <=> j \in DOMAIN kept
          /\ j \in DOMAIN kept => Effective'[j] = kept[j]
      BY <1>6, <2>2, SMTT(30), Zenon DEF With
    <3>2. LevelOf(Effective, j)' = LevelOf(kept, j)
      BY <1>1, <3>1 DEF LevelOf
    <3>3. QED
      BY <1>10, <2>2, <3>2, SMTT(30), Zenon
  <2>3. QED
    BY <2>1, <2>2, SMTT(30), Zenon
<1>13. /\ levelBar[k] = entry
       /\ levelBar' = [levelBar EXCEPT ![k] = entry - (IF pass THEN Cost ELSE 0)]
  BY <1>5, <1>11, <1>12, Zenon DEF levelBar
<1>14. verdictBar' = [verdictBar EXCEPT ![k] = Counted(@, pass)]
  BY <1>5, <1>6, Zenon DEF verdictBar
<1>15. CASE pass
  BY <1>11, <1>13, <1>14, <1>15 DEF Bucket!Pass, Counted
<1>16. CASE ~pass
  <2>1. levelBar' = levelBar
    <3>1. entry - (IF pass THEN Cost ELSE 0) = entry
      BY <1>11, <1>16
    <3>2. levelBar' = [levelBar EXCEPT ![k] = levelBar[k]]
      BY <1>13, <3>1, Zenon
    <3>3. QED
      BY <3>2, Zenon DEF levelBar
  <2>2. QED
    BY <1>11, <1>13, <1>14, <1>16, <2>1, LimitsAssumption DEF Bucket!Refuse, Counted
<1>17. QED
  BY <1>15, <1>16

\* The critical section then only carries out what was decided.
LEMMA DecideStutters ==
    ASSUME LimitInv, Serial, flavor = "current_thread", NEW w \in Workers, Decide(w)
    PROVE  UNCHANGED <<levelBar, verdictBar>>
<1>1. Busy(w) /\ \A v \in Workers : Busy(v) => v = w
  BY Zenon DEF Decide, Serial
<1>2. \A v \in Workers : ~Busy(v)'
  BY <1>1, SMTT(30), Zenon DEF Decide, Busy, Idle, LimitInv, LimitTypeOK
<1>3. /\ Effective = Charged(Kept(w), stamp[w].key, stamp[w].now)
      /\ \A k \in Keys :
           EffectiveVerdict(k) =
             IF stamp[w].key = k THEN Counted(served[k], Passes(Kept(w), k, stamp[w].now))
             ELSE served[k]
  BY <1>1, EffectiveBusy
<1>4. Decided' = {}
  BY <1>2 DEF Decided
<1>5. Effective' = Effective
  BY <1>3, <1>4, Zenon DEF Effective, Decide, Kept
<1>6. \A k \in Keys : EffectiveVerdict(k)' = EffectiveVerdict(k)
  BY <1>3, <1>4, Zenon DEF EffectiveVerdict, Decide, Kept, LimitInv, LimitTypeOK
<1>7. clock' = clock
  BY Zenon DEF Decide
<1>8. \A k \in Keys : LevelOf(Effective, k)' = LevelOf(Effective, k)
  BY <1>5, <1>7 DEF LevelOf
<1>9. QED
  BY <1>6, <1>8 DEF levelBar, verdictBar

\* On a current-thread runtime the limiter with its map, its lazy refill and
\* its sweep implements one token bucket per key, for every configuration of
\* Router::rate_limit (turbo/mod.rs:353).
THEOREM RefinementTheorem == LimitSpec => ImplementsTokenBucket
<1> DEFINE Simulated == flavor = "current_thread" => [Bucket!Next]_<<levelBar, verdictBar>>
<1>1. LimitInv /\ Serial /\ [LimitNext]_limitVars => (LimitInv /\ Serial)'
  BY StepInv, SerialStep
<1>2. LimitInv /\ Serial /\ [LimitNext]_limitVars => [Simulated]_limitVars
  <2> SUFFICES ASSUME LimitInv, Serial, LimitNext, flavor = "current_thread"
               PROVE  [Bucket!Next]_<<levelBar, verdictBar>>
    OBVIOUS
  <2>1. CASE LimitTick
    BY <2>1, TickRefills DEF Bucket!Next
  <2>2. ASSUME NEW w \in Workers, NEW k \in Keys, Stamp(w, k)
        PROVE  Bucket!Next
    BY <2>2, StampDecides DEF Bucket!Next
  <2>3. ASSUME NEW w \in Workers, Decide(w)
        PROVE  UNCHANGED <<levelBar, verdictBar>>
    BY <2>3, DecideStutters
  <2>4. QED
    BY <2>1, <2>2, <2>3 DEF LimitNext
<1>3. LimitInit => (flavor = "current_thread" => Bucket!Init)
  BY BucketInit
<1>4. QED
  BY <1>1, <1>2, <1>3, InitInv, SerialInit, PTL DEF LimitSpec, ImplementsTokenBucket

-----------------------------------------------------------------------------
(***************************************************************************)
(* The middleware chain (TurboLayers).                                     *)
(***************************************************************************)
\* The statuses responses are counted by (turbo/mod.rs:520).
Statuses == Outcomes \cup {"429"}

\* Where each request is in the stack, and what it has left behind there.
LayerTypeOK ==
  /\ middlewares \in Stacks
  /\ index \in [Requests -> Nat]
  /\ phase \in [Requests -> {"new", "down", "up", "done", "panicked"}]
  /\ status \in [Requests -> Statuses \cup {"none"}]
  /\ LOG_FIELDS \in [Requests -> BOOLEAN]
  /\ spent \in [Requests -> Seq(Nat)]
  /\ DOMAIN total = Statuses

\* A request's place bounds what it spent: a layer's second half runs once.
Placed(r) ==
  /\ index[r] \in 1 .. Len(middlewares) + 1
  /\ phase[r] \in {"new", "done"} => index[r] = 1
  /\ phase[r] \in {"new", "down", "panicked"} => spent[r] = <<>>
  /\ phase[r] \in {"up", "done"} => status[r] \in Statuses
  /\ \A i \in 1 .. Len(spent[r]) : spent[r][i] >= index[r] /\ spent[r][i] <= Len(middlewares)
  /\ LOG_FIELDS[r] <=> phase[r] \in {"down", "up"} /\ Inside(r, "trace")

\* The inductive invariant of the middleware chain.
LayerInv == LayerTypeOK /\ (\A r \in Requests : Placed(r)) /\ LayersUnwind

\* The gauge's requests, and those counted under a status, are finite sets.
LEMMA MeteredFinite ==
    /\ IsFiniteSet({r \in Requests : Inside(r, "metrics")})
    /\ \A s : IsFiniteSet(Metered(s))
<1>1. {r \in Requests : Inside(r, "metrics")} \subseteq Requests
  OBVIOUS
<1>2. ASSUME NEW s
      PROVE  Metered(s) \subseteq Requests
  BY DEF Metered
<1>3. QED  BY <1>1, <1>2, StackAssumption, FS_Subset

\* A step that moves no request into or out of the metrics layer keeps the
\* gauge and the counters right.
LEMMA SameMeters ==
    ASSUME LayersUnwind, in_flight' = in_flight, total' = total,
           \A r \in Requests : Inside(r, "metrics")' <=> Inside(r, "metrics"),
           \A s \in DOMAIN total : Metered(s)' = Metered(s)
    PROVE  GaugeDriftsByPanics'
<1>1. {r \in Requests : Inside(r, "metrics")}' = {r \in Requests : Inside(r, "metrics")}
  OBVIOUS
<1>2. QED  BY <1>1 DEF LayersUnwind, GaugeDriftsByPanics

\* A request that arrives, is answered by a layer or by the handler, panics or
\* is done moves no layer (turbo/mod.rs:430-470).
LEMMA TurnsKept ==
    ASSUME LayerInv, NEW r \in Requests,
           Handle(r) \/ ShortCircuit(r) \/ (\E s \in Outcomes : Dispatch(r, s))
             \/ Panics(r) \/ Answer(r)
    PROVE  LayerInv'
<1>1. /\ middlewares' = middlewares /\ index' = index /\ in_flight' = in_flight
      /\ total' = total /\ logged' = logged /\ spent' = spent
  BY DEF Handle, ShortCircuit, Dispatch, Panics, Answer
<1>2. PICK p, s, f :
        /\ phase' = [phase EXCEPT ![r] = p] /\ status' = [status EXCEPT ![r] = s]
        /\ LOG_FIELDS' = [LOG_FIELDS EXCEPT ![r] = f]
        /\ \/ phase[r] = "new" /\ p = "down" /\ s = status[r] /\ f = LOG_FIELDS[r]
           \/ phase[r] = "down" /\ p = "up" /\ s \in Statuses /\ f = LOG_FIELDS[r]
           \/ phase[r] = "down" /\ p = "panicked" /\ s = status[r] /\ f = FALSE
           \/ phase[r] = "up" /\ p = "done" /\ index[r] = 1 /\ s = status[r]
                /\ f = LOG_FIELDS[r]
  <2>0. /\ \A g \in [Requests -> BOOLEAN] : g = [g EXCEPT ![r] = g[r]]
        /\ \A g \in [Requests -> Statuses \cup {"none"}] : g = [g EXCEPT ![r] = g[r]]
        /\ LOG_FIELDS \in [Requests -> BOOLEAN]
        /\ status \in [Requests -> Statuses \cup {"none"}]
    BY DEF LayerInv, LayerTypeOK
  <2>1. CASE Handle(r)
    <3>1. phase' = [phase EXCEPT ![r] = "down"] /\ status' = status /\ LOG_FIELDS' = LOG_FIELDS
          /\ phase[r] = "new"
      BY <2>1 DEF Handle
    <3>2. QED  BY <2>0, <3>1, Zenon
  <2>2. CASE ShortCircuit(r)
    <3>1. phase' = [phase EXCEPT ![r] = "up"] /\ status' = [status EXCEPT ![r] = "429"]
          /\ LOG_FIELDS' = LOG_FIELDS /\ phase[r] = "down" /\ "429" \in Statuses
      BY <2>2 DEF ShortCircuit, Turn, Statuses
    <3>2. QED  BY <2>0, <3>1, Zenon
  <2>3. CASE \E s \in Outcomes : Dispatch(r, s)
    <3>1. PICK s \in Outcomes : Dispatch(r, s)
      BY <2>3
    <3>2. phase' = [phase EXCEPT ![r] = "up"] /\ status' = [status EXCEPT ![r] = s]
          /\ LOG_FIELDS' = LOG_FIELDS /\ phase[r] = "down" /\ s \in Statuses
      BY <3>1 DEF Dispatch, Turn, Statuses
    <3>3. QED  BY <2>0, <3>2, Zenon
  <2>4. CASE Panics(r)
    <3>1. phase' = [phase EXCEPT ![r] = "panicked"] /\ status' = status
          /\ LOG_FIELDS' = [LOG_FIELDS EXCEPT ![r] = FALSE] /\ phase[r] = "down"
      BY <2>4 DEF Panics
    <3>2. QED  BY <2>0, <3>1, Zenon
  <2>5. CASE Answer(r)
    <3>1. phase' = [phase EXCEPT ![r] = "done"] /\ status' = status /\ LOG_FIELDS' = LOG_FIELDS
          /\ phase[r] = "up" /\ index[r] = 1
      BY <2>5 DEF Answer
    <3>2. QED  BY <2>0, <3>1, Zenon
  <2>6. QED  BY <2>1, <2>2, <2>3, <2>4, <2>5, Zenon
<1>3. \A q \in Requests \ {r} :
         phase'[q] = phase[q] /\ status'[q] = status[q] /\ LOG_FIELDS'[q] = LOG_FIELDS[q]
  BY <1>2 DEF LayerInv, LayerTypeOK
<1>4. phase'[r] = p /\ status'[r] = s /\ LOG_FIELDS'[r] = f
  BY <1>2 DEF LayerInv, LayerTypeOK
<1>5. LayerTypeOK'
  BY <1>1, <1>2, Zenon DEF LayerInv, LayerTypeOK
<1>6. index[r] = 1 => ~ \E i \in 1 .. (index[r] - 1) : TRUE
  OBVIOUS
<1>7. Placed(r)
  BY DEF LayerInv
<1>8. \A layer : \A q \in Requests : Inside(q, layer)' <=> Inside(q, layer)
  <2>1. \A layer : Inside(r, layer)' <=> Inside(r, layer)
    BY <1>1, <1>2, <1>4, <1>6, <1>7, Zenon DEF Inside, Placed
  <2>2. QED  BY <1>1, <1>3, <2>1 DEF Inside
<1>9. phase[r] # "up" => Len(spent[r]) = 0
  <2>1. phase[r] # "up" => phase[r] \in {"new", "down", "panicked"}
    BY <1>2
  <2>2. phase[r] # "up" => spent[r] = <<>>
    BY <1>7, <2>1, Zenon DEF Placed
  <2>3. QED  BY <2>2
<1>10. ASSUME NEW t PROVE Metered(t)' = Metered(t)
  <2>1. ASSUME NEW q \in Requests
        PROVE  q \in Metered(t)' <=> q \in Metered(t)
    <3>1. CASE q # r
      BY <1>1, <1>3, <3>1, Zenon DEF Metered
    <3>2. CASE q = r /\ phase[r] = "up"
      <4>1. status'[r] = status[r] /\ phase[r] \in {"up", "done"} /\ phase'[r] \in {"up", "done"}
        BY <1>2, <1>4, <3>2
      <4>2. QED  BY <1>1, <3>2, <4>1, Zenon DEF Metered
    <3>3. CASE q = r /\ phase[r] # "up"
      <4>1. ~ \E i \in 1 .. Len(spent[q]) : TRUE
        BY <1>9, <3>3
      <4>2. QED  BY <1>1, <4>1, Zenon DEF Metered
    <3>4. QED  BY <3>1, <3>2, <3>3, Zenon
  <2>2. Metered(t) \subseteq Requests /\ Metered(t)' \subseteq Requests
    BY Zenon DEF Metered
  <2>3. QED  BY <2>1, <2>2, Zenon
<1>11. GaugeDriftsByPanics'
  BY <1>1, <1>8, <1>10, SameMeters DEF LayerInv
<1>12. ASSUME NEW q \in Requests PROVE Placed(q)'
  <2>1. CASE q # r
    <3>1. Placed(q)
      BY SMTT(30), Zenon DEF LayerInv
    <3>2. QED  BY <1>1, <1>3, <1>8, <2>1, <3>1 DEF Placed
  <2>2. CASE q = r
    <3>1. Inside(r, "trace")' <=> Inside(r, "trace")
      BY <1>8
    <3>2. phase[r] \in {"new", "done"} => ~ Inside(r, "trace")
      BY DEF Inside
    <3>3. p = "done" => ~ Inside(r, "trace")
      BY <1>2, <1>6, SMTT(30), Zenon DEF Inside
    <3>4. /\ index'[r] = index[r] /\ spent'[r] = spent[r] /\ middlewares' = middlewares
      BY <1>1, Zenon
    <3>5. LOG_FIELDS'[r] <=> phase'[r] \in {"down", "up"} /\ Inside(r, "trace")'
      BY <1>2, <1>4, <1>7, <3>1, <3>2, <3>3, Zenon DEF Placed
    <3>6. /\ phase'[r] \in {"new", "done"} => index'[r] = 1
          /\ phase'[r] \in {"new", "down", "panicked"} => spent'[r] = <<>>
          /\ phase'[r] \in {"up", "done"} => status'[r] \in Statuses
      BY <1>2, <1>4, <1>7, <3>4, Zenon DEF Placed
    <3>7. QED  BY <1>7, <2>2, <3>4, <3>5, <3>6 DEF Placed
  <2>3. QED  BY <2>1, <2>2, Zenon
<1>13. TraceScoped'
  <2>1. \A q \in Requests : LOG_FIELDS'[q] => phase'[q] \in {"down", "up"} /\ Inside(q, "trace")'
    BY <1>12, Zenon DEF Placed
  <2>2. QED  BY <1>1, <2>1, Zenon DEF LayerInv, LayersUnwind, TraceScoped
<1>14. QED  BY <1>5, <1>11, <1>12, <1>13, Zenon DEF LayerInv, LayersUnwind

\* Which layers a request is inside of after it goes one layer further in.
LEMMA GoesIn ==
    ASSUME LayerInv, NEW r \in Requests, EnterLayer(r)
    PROVE  /\ \A layer : Inside(r, layer)' <=> Inside(r, layer) \/ layer = middlewares[index[r]]
           /\ ~ Inside(r, middlewares[index[r]])
<1> DEFINE k == index[r]
<1>1. /\ phase[r] = "down" /\ phase' = phase /\ middlewares' = middlewares
      /\ k \in 1 .. Len(middlewares) /\ Len(middlewares) \in Nat
      /\ \A i, j \in 1 .. Len(middlewares) : middlewares[i] = middlewares[j] => i = j
  BY StackAssumption DEF EnterLayer, LayerInv, LayerTypeOK, Placed
<1>2. index'[r] = k + 1
  BY DEF EnterLayer, LayerInv, LayerTypeOK
<1> HIDE DEF k
<1>3. 1 .. ((k + 1) - 1) = (1 .. (k - 1)) \cup {k} /\ \A i \in 1 .. (k - 1) : i # k /\ i \in 1 .. Len(middlewares)
  BY <1>1
<1>4. \A layer : Inside(r, layer) <=> \E i \in 1 .. (k - 1) : middlewares[i] = layer
  BY <1>1 DEF Inside, k
<1>5. \A layer : Inside(r, layer)' <=> \E i \in 1 .. ((k + 1) - 1) : middlewares[i] = layer
  BY <1>1, <1>2 DEF Inside
<1>6. \A layer : Inside(r, layer)' <=> Inside(r, layer) \/ layer = middlewares[k]
  BY <1>3, <1>4, <1>5
<1>7. ~ Inside(r, middlewares[k])
  BY <1>1, <1>3, <1>4, SMTT(30), Zenon
<1>8. QED  BY <1>6, <1>7 DEF k

\* And after the second half of the innermost one has run.
LEMMA GoesOut ==
    ASSUME LayerInv, NEW r \in Requests, LeaveLayer(r)
    PROVE  /\ \A layer : Inside(r, layer)' <=> Inside(r, layer) /\ layer # middlewares[index[r] - 1]
           /\ Inside(r, middlewares[index[r] - 1])
<1> DEFINE k == index[r] - 1
<1>1. /\ phase[r] = "up" /\ phase' = phase /\ middlewares' = middlewares
      /\ k \in 1 .. Len(middlewares) /\ Len(middlewares) \in Nat
      /\ \A i, j \in 1 .. Len(middlewares) : middlewares[i] = middlewares[j] => i = j
  BY StackAssumption, SMTT(30), Zenon DEF LeaveLayer, LayerInv, LayerTypeOK, Placed
<1>2. index'[r] = k
  BY Zenon DEF LeaveLayer, LayerInv, LayerTypeOK
<1>4. \A layer : Inside(r, layer) <=> \E i \in 1 .. k : middlewares[i] = layer
  BY <1>1 DEF Inside
<1> HIDE DEF k
<1>3. 1 .. k = (1 .. (k - 1)) \cup {k} /\ \A i \in 1 .. (k - 1) : i # k /\ i \in 1 .. Len(middlewares)
  BY <1>1
<1>5. \A layer : Inside(r, layer)' <=> \E i \in 1 .. (k - 1) : middlewares[i] = layer
  BY <1>1, <1>2 DEF Inside
<1>6. QED  BY <1>1, <1>3, <1>4, <1>5 DEF k

\* A request enters a layer: the gauge goes up at the metrics layer, where it
\* was not counted yet, and the context is set at the trace layer
\* (turbo/mod.rs:516, 571).
LEMMA EnterKept ==
    ASSUME LayerInv, NEW r \in Requests, EnterLayer(r)
    PROVE  LayerInv'
<1> DEFINE l == middlewares[index[r]]
           M == {q \in Requests : Inside(q, "metrics")}
<1>1. /\ phase' = phase /\ middlewares' = middlewares /\ status' = status /\ total' = total
      /\ logged' = logged /\ spent' = spent /\ phase[r] = "down"
      /\ index[r] <= Len(middlewares) /\ index' = [index EXCEPT ![r] = index[r] + 1]
      /\ LOG_FIELDS' = IF l = "trace" THEN [LOG_FIELDS EXCEPT ![r] = TRUE] ELSE LOG_FIELDS
      /\ in_flight' = IF l = "metrics" THEN in_flight + 1 ELSE in_flight
  BY DEF EnterLayer
<1>2. /\ \A layer : Inside(r, layer)' <=> Inside(r, layer) \/ layer = l
      /\ ~ Inside(r, l)
  BY GoesIn
<1> HIDE DEF l
<1>3. /\ \A q \in Requests \ {r} : index'[q] = index[q] /\ LOG_FIELDS'[q] = LOG_FIELDS[q]
      /\ index'[r] = index[r] + 1 /\ LOG_FIELDS'[r] = (l = "trace" \/ LOG_FIELDS[r])
      /\ index[r] \in Nat
  BY <1>1, Zenon DEF LayerInv, LayerTypeOK
<1>4. \A layer : \A q \in Requests \ {r} : Inside(q, layer)' <=> Inside(q, layer)
  BY <1>1, <1>3 DEF Inside
<1>5. LayerTypeOK'
  BY <1>1, <1>3, SMTT(30), Zenon DEF LayerInv, LayerTypeOK
<1>6. \A s : Metered(s)' = Metered(s)
  BY <1>1 DEF Metered
<1>7. in_flight' = Cardinality(M')
  <2>1. IsFiniteSet(M) /\ in_flight = Cardinality(M) /\ Cardinality(M) \in Nat
    BY MeteredFinite, FS_CardinalityType DEF LayerInv, LayersUnwind, GaugeDriftsByPanics
  <2>2. CASE l = "metrics"
    <3>1. M' = M \cup {r} /\ r \notin M
      BY <1>2, <1>4, <2>2
    <3>2. Cardinality(M \cup {r}) = Cardinality(M) + 1
      BY <2>1, <3>1, FS_AddElement, Zenon
    <3>3. QED  BY <1>1, <2>1, <2>2, <3>1, <3>2, Zenon
  <2>3. CASE l # "metrics"
    <3>1. M' = M
      BY <1>2, <1>4, <2>3
    <3>2. QED  BY <1>1, <2>1, <2>3, <3>1, Zenon
  <2>4. QED  BY <2>2, <2>3
<1>8. GaugeDriftsByPanics'
  BY <1>1, <1>6, <1>7 DEF LayerInv, LayersUnwind, GaugeDriftsByPanics
<1>9. ASSUME NEW q \in Requests PROVE Placed(q)'
  <2>0. Placed(q)
    BY SMTT(30), Zenon DEF LayerInv
  <2>1. CASE q # r
    BY <1>1, <1>3, <1>4, <2>0, <2>1, Zenon DEF Placed
  <2>2. CASE q = r
    <3>1. /\ LOG_FIELDS'[r] <=> phase'[r] \in {"down", "up"} /\ Inside(r, "trace")'
      BY <1>1, <1>2, <1>3, <2>0, <2>2, Zenon DEF Placed
    <3>2. Len(middlewares) \in Nat /\ index'[r] \in 1 .. Len(middlewares) + 1
      BY <1>1, <1>3, StackAssumption DEF LayerInv, LayerTypeOK
    <3>3. spent'[r] = <<>>
      <4>1. phase[r] \in {"new", "down", "panicked"}
        BY <1>1
      <4>2. QED  BY <1>1, <2>0, <2>2, <4>1, Zenon DEF Placed
    <3>4. \A i \in 1 .. Len(spent'[r]) : FALSE
      BY <3>3
    <3>5. phase'[r] \notin {"new", "done"} /\ phase'[r] \notin {"up", "done"}
      BY <1>1
    <3>6. QED  BY <1>1, <2>2, <3>1, <3>2, <3>3, <3>4, <3>5, Zenon DEF Placed
  <2>3. QED  BY <2>1, <2>2
<1>10. TraceScoped'
  <2>1. \A q \in Requests : LOG_FIELDS'[q] => phase'[q] \in {"down", "up"} /\ Inside(q, "trace")'
    BY <1>9, SMTT(30), Zenon DEF Placed
  <2>2. QED  BY <1>1, <2>1 DEF LayerInv, LayersUnwind, TraceScoped
<1>11. QED  BY <1>5, <1>8, <1>9, <1>10, SMTT(30), Zenon DEF LayerInv, LayersUnwind

\* A request leaves a layer: the gauge goes down and the request is counted at
\* the metrics layer, once; a line is logged with the context that is set
\* outside the access log; the trace layer's scope ends (turbo/mod.rs:488-571).
LEMMA LeaveKept ==
    ASSUME LayerInv, NEW r \in Requests, LeaveLayer(r)
    PROVE  LayerInv'
<1> DEFINE k == index[r] - 1
           l == middlewares[k]
           M == {q \in Requests : Inside(q, "metrics")}
<1>1. /\ phase' = phase /\ middlewares' = middlewares /\ status' = status /\ phase[r] = "up"
      /\ index' = [index EXCEPT ![r] = k] /\ spent' = [spent EXCEPT ![r] = Append(spent[r], k)]
      /\ LOG_FIELDS' = IF l = "trace" THEN [LOG_FIELDS EXCEPT ![r] = FALSE] ELSE LOG_FIELDS
      /\ in_flight' = IF l = "metrics" THEN in_flight - 1 ELSE in_flight
      /\ total' = IF l = "metrics" THEN [total EXCEPT ![status[r]] = total[status[r]] + 1] ELSE total
      /\ logged' = IF l = "log" THEN logged \cup {Line(r)} ELSE logged
  BY DEF LeaveLayer, Lowered, ScopeEnds
<1>2. /\ \A layer : Inside(r, layer)' <=> Inside(r, layer) /\ layer # l
      /\ Inside(r, l)
  BY GoesOut
<1>3. /\ k \in 1 .. Len(middlewares) /\ Len(middlewares) \in Nat /\ index[r] = k + 1
      /\ status[r] \in Statuses /\ spent[r] \in Seq(Nat)
      /\ \A i, j \in 1 .. Len(middlewares) : middlewares[i] = middlewares[j] => i = j
  <2>1. /\ Len(middlewares) \in Nat
        /\ \A i, j \in 1 .. Len(middlewares) : middlewares[i] = middlewares[j] => i = j
    BY StackAssumption DEF LayerInv, LayerTypeOK
  <2>2. index[r] \in 1 .. Len(middlewares) + 1 /\ index[r] > 1 /\ status[r] \in Statuses
    BY <1>1, Zenon DEF LeaveLayer, LayerInv, Placed
  <2>3. spent[r] \in Seq(Nat)
    BY DEF LayerInv, LayerTypeOK
  <2>4. k \in 1 .. Len(middlewares) /\ index[r] = k + 1
    BY <2>1, <2>2
  <2>5. QED  BY <2>1, <2>2, <2>3, <2>4
<1> HIDE DEF l, k
<1>4. /\ \A q \in Requests \ {r} : /\ index'[q] = index[q] /\ LOG_FIELDS'[q] = LOG_FIELDS[q]
                                   /\ spent'[q] = spent[q]
      /\ index'[r] = k /\ LOG_FIELDS'[r] = (l # "trace" /\ LOG_FIELDS[r])
      /\ spent'[r] = Append(spent[r], k)
  BY <1>1, Zenon DEF LayerInv, LayerTypeOK
<1>5. \A layer : \A q \in Requests \ {r} : Inside(q, layer)' <=> Inside(q, layer)
  BY <1>1, <1>4 DEF Inside
<1>6. Append(spent[r], k) \in Seq(Nat) /\ k \in Nat
  BY <1>3, SMTT(30), Zenon
<1>7. LayerTypeOK'
  BY <1>1, <1>3, <1>4, <1>6 DEF LayerInv, LayerTypeOK
<1>8. /\ Len(spent'[r]) = Len(spent[r]) + 1
      /\ \A i \in 1 .. Len(spent[r]) : spent'[r][i] = spent[r][i]
      /\ spent'[r][Len(spent[r]) + 1] = k
      /\ Len(spent[r]) \in Nat
  BY <1>3, <1>4, <1>6, SMTT(30), Zenon
<1>9. \A i \in 1 .. Len(spent[r]) :
         /\ spent[r][i] >= k + 1 /\ spent[r][i] \in 1 .. Len(middlewares) /\ spent[r][i] # k
  <2>1. \A i \in 1 .. Len(spent[r]) : spent[r][i] \in Nat /\ spent[r][i] >= k + 1
                                       /\ spent[r][i] <= Len(middlewares)
    BY <1>3, SMTT(30), Zenon DEF LayerInv, Placed
  <2>2. QED  BY <1>3, <2>1
<1>10. /\ \E i \in 1 .. Len(spent'[r]) : middlewares[spent'[r][i]] = l
       /\ \A layer : layer # l =>
            ((\E i \in 1 .. Len(spent'[r]) : middlewares[spent'[r][i]] = layer)
               <=> \E i \in 1 .. Len(spent[r]) : middlewares[spent[r][i]] = layer)
       /\ ~ \E i \in 1 .. Len(spent[r]) : middlewares[spent[r][i]] = l
  <2>1. 1 .. Len(spent'[r]) = (1 .. Len(spent[r])) \cup {Len(spent[r]) + 1}
    BY <1>8
  <2>2. middlewares[spent'[r][Len(spent[r]) + 1]] = l
    BY <1>8 DEF l
  <2>3. QED  BY <1>3, <1>8, <1>9, <2>1, <2>2, Zenon DEF l
<1>11. ASSUME NEW s
       PROVE  Metered(s)' = IF l = "metrics" /\ s = status[r] THEN Metered(s) \cup {r}
                            ELSE Metered(s)
  <2>1. ASSUME NEW q \in Requests
        PROVE  q \in Metered(s)' <=> \/ q \in Metered(s)
                                     \/ q = r /\ l = "metrics" /\ s = status[r]
    <3>1. CASE q # r
      <4>1. spent'[q] = spent[q] /\ q \in Requests \ {r}
        BY <1>4, <3>1
      <4>2. QED  BY <1>1, <3>1, <4>1, Zenon DEF Metered
    <3>2. CASE q = r
      <4>1. phase[r] \in {"up", "done"}
        BY <1>1
      <4>2. r \in Metered(s)' <=> /\ status[r] = s
                                  /\ \E i \in 1 .. Len(spent'[r]) : middlewares[spent'[r][i]] = "metrics"
        BY <1>1, <4>1, Zenon DEF Metered
      <4>3. r \in Metered(s) <=> /\ status[r] = s
                                 /\ \E i \in 1 .. Len(spent[r]) : middlewares[spent[r][i]] = "metrics"
        BY <4>1, Zenon DEF Metered
      <4>4. QED  BY <1>10, <3>2, <4>2, <4>3, Zenon
    <3>3. QED  BY <3>1, <3>2
  <2>2. Metered(s) \subseteq Requests /\ Metered(s)' \subseteq Requests
    BY Zenon DEF Metered
  <2>3. QED  BY <2>1, <2>2
<1>12. l = "metrics" => r \notin Metered(status[r])
  BY <1>10 DEF Metered
<1>13. in_flight' = Cardinality(M')
  <2>1. IsFiniteSet(M) /\ in_flight = Cardinality(M) /\ Cardinality(M) \in Nat
    BY MeteredFinite, FS_CardinalityType DEF LayerInv, LayersUnwind, GaugeDriftsByPanics
  <2>2. CASE l = "metrics"
    <3>1. M' = M \ {r} /\ r \in M
      BY <1>2, <1>5, <2>2
    <3>2. Cardinality(M \ {r}) = Cardinality(M) - 1
      BY <2>1, <3>1, FS_RemoveElement, Zenon
    <3>3. QED  BY <1>1, <2>1, <2>2, <3>1, <3>2, Zenon
  <2>3. CASE l # "metrics"
    <3>1. M' = M
      BY <1>2, <1>5, <2>3
    <3>2. QED  BY <1>1, <2>1, <2>3, <3>1, Zenon
  <2>4. QED  BY <2>2, <2>3
<1>14. ASSUME NEW s \in Statuses
       PROVE  total'[s] = Cardinality(Metered(s)')
  <2>1. IsFiniteSet(Metered(s)) /\ total[s] = Cardinality(Metered(s)) /\ DOMAIN total = Statuses
    BY MeteredFinite DEF LayerInv, LayerTypeOK, LayersUnwind, GaugeDriftsByPanics
  <2>2. CASE l = "metrics" /\ s = status[r]
    <3>1. Cardinality(Metered(s) \cup {r}) = Cardinality(Metered(s)) + 1
      BY <1>12, <2>1, <2>2, FS_AddElement, Zenon
    <3>2. total'[s] = total[s] + 1
      BY <1>1, <2>1, <2>2, SMTT(30), Zenon
    <3>3. QED  BY <1>11, <2>1, <2>2, <3>1, <3>2, Zenon
  <2>3. CASE ~(l = "metrics" /\ s = status[r])
    <3>1. total'[s] = total[s]
      BY <1>1, <2>1, <2>3, Zenon
    <3>2. QED  BY <1>11, <2>1, <2>3, <3>1, SMTT(30), Zenon
  <2>4. QED  BY <2>2, <2>3
<1>15. GaugeDriftsByPanics'
  BY <1>7, <1>13, <1>14, SMTT(30), Zenon DEF GaugeDriftsByPanics, LayerTypeOK
<1>16. ASSUME NEW q \in Requests PROVE Placed(q)'
  <2>0. Placed(q)
    BY DEF LayerInv
  <2>1. CASE q # r
    BY <1>1, <1>4, <1>5, <2>0, <2>1, Zenon DEF Placed
  <2>2. CASE q = r
    <3>1. LOG_FIELDS'[r] <=> phase'[r] \in {"down", "up"} /\ Inside(r, "trace")'
      BY <1>1, <1>2, <1>4, <2>0, <2>2, Zenon DEF Placed
    <3>2. index'[r] \in 1 .. Len(middlewares) + 1
      BY <1>3, <1>4
    <3>3. \A i \in 1 .. Len(spent'[r]) : spent'[r][i] >= index'[r] /\ spent'[r][i] <= Len(middlewares)
      <4>1. ASSUME NEW i \in 1 .. Len(spent[r])
            PROVE  spent'[r][i] >= k /\ spent'[r][i] <= Len(middlewares)
        <5>1. spent[r][i] >= k + 1 /\ spent[r][i] \in 1 .. Len(middlewares)
          BY <1>9
        <5>2. \A x \in 1 .. Len(middlewares) : x >= k + 1 => x >= k /\ x <= Len(middlewares)
          BY <1>3
        <5>3. QED  BY <1>8, <5>1, <5>2
      <4>2. k >= k /\ k <= Len(middlewares)
        BY <1>3
      <4>3. \A i \in 1 .. Len(spent'[r]) : i \in 1 .. Len(spent[r]) \/ i = Len(spent[r]) + 1
        BY <1>8, SMTT(30), Zenon
      <4>4. QED  BY <1>4, <1>8, <4>1, <4>2, <4>3
    <3>4. phase'[r] = "up" /\ status'[r] \in Statuses /\ middlewares' = middlewares
      BY <1>1, <1>3
    <3>5. QED  BY <2>2, <3>1, <3>2, <3>3, <3>4 DEF Placed
  <2>3. QED  BY <2>1, <2>2
<1>17. l = "log" => (LOG_FIELDS[r] <=> \E j \in 1 .. Len(middlewares) : \E i \in 1 .. (j - 1) :
                                          middlewares[i] = "trace" /\ middlewares[j] = "log")
  <2> SUFFICES ASSUME l = "log"
               PROVE  LOG_FIELDS[r] <=> \E j \in 1 .. Len(middlewares) : \E i \in 1 .. (j - 1) :
                                          middlewares[i] = "trace" /\ middlewares[j] = "log"
    OBVIOUS
  <2>1. LOG_FIELDS[r] <=> Inside(r, "trace")
    BY <1>1, SMTT(30), Zenon DEF LayerInv, Placed
  <2>2. Inside(r, "trace") <=> \E i \in 1 .. ((k + 1) - 1) : middlewares[i] = "trace"
    BY <1>1, <1>3 DEF Inside
  <2>3. \A j \in 1 .. Len(middlewares) : middlewares[j] = "log" <=> j = k
    BY <1>3 DEF l
  <2>4. middlewares[k] # "trace"
    BY DEF l
  <2>5. 1 .. ((k + 1) - 1) = (1 .. (k - 1)) \cup {k}
    BY <1>3, SMTT(30), Zenon
  <2>6. QED  BY <1>3, <2>1, <2>2, <2>3, <2>4, <2>5
<1>18. TraceScoped'
  <2>1. \A q \in Requests : LOG_FIELDS'[q] => phase'[q] \in {"down", "up"} /\ Inside(q, "trace")'
    BY <1>16 DEF Placed
  <2>2. Line(r).trace = LOG_FIELDS[r]
    BY DEF Line
  <2>3. ASSUME NEW x \in logged'
        PROVE  x.trace <=> \E j \in 1 .. Len(middlewares) : \E i \in 1 .. (j - 1) :
                             middlewares[i] = "trace" /\ middlewares[j] = "log"
    <3>1. CASE x \in logged
      BY <3>1 DEF LayerInv, LayersUnwind, TraceScoped
    <3>2. CASE x = Line(r) /\ l = "log"
      BY <1>17, <2>2, <3>2
    <3>3. QED  BY <1>1, <3>1, <3>2
  <2>4. QED  BY <1>1, <2>1, <2>3, SMTT(30), Zenon DEF TraceScoped
<1>19. QED  BY <1>7, <1>15, <1>16, <1>18 DEF LayerInv, LayersUnwind

\* Whatever requests interleave in the chain of middlewares, turn round in a
\* layer or panic in their handler, the gauge is off by exactly the panics,
\* every request is counted once, and no trace context outlives its request
\* (turbo/mod.rs:475-580).
THEOREM ChainUnwinds == LayerSpec => []LayersUnwind
<1>1. LayerInit => LayerInv
  <2> SUFFICES ASSUME LayerInit PROVE LayerInv
    OBVIOUS
  <2>0. /\ middlewares \in Stacks /\ Len(middlewares) \in Nat
        /\ \A r \in Requests : /\ index[r] = 1 /\ phase[r] = "new" /\ LOG_FIELDS[r] = FALSE
                               /\ spent[r] = <<>> /\ status[r] = "none"
        /\ DOMAIN total = Statuses /\ in_flight = 0 /\ logged = {}
        /\ \A s \in Statuses : total[s] = 0
    BY StackAssumption DEF LayerInit, Statuses
  <2>1. LayerTypeOK
    BY StackAssumption DEF LayerInit, LayerTypeOK, Statuses
  <2>2. \A r \in Requests : ~ Inside(r, "metrics") /\ ~ Inside(r, "trace")
    BY <2>0 DEF Inside
  <2>3. \A r \in Requests : Placed(r)
    BY <2>0, <2>2 DEF Placed
  <2>4. {r \in Requests : Inside(r, "metrics")} = {} /\ \A s : Metered(s) = {}
    BY <2>0, <2>2 DEF Metered
  <2>5. GaugeDriftsByPanics
    BY <2>0, <2>4, FS_EmptySet, Zenon DEF GaugeDriftsByPanics
  <2>6. TraceScoped
    BY <2>0 DEF TraceScoped
  <2>7. QED  BY <2>1, <2>3, <2>5, <2>6 DEF LayerInv, LayersUnwind
<1>2. LayerInv /\ [LayerNext]_layerVars => LayerInv'
  <2> SUFFICES ASSUME LayerInv, [LayerNext]_layerVars PROVE LayerInv'
    OBVIOUS
  <2>1. CASE UNCHANGED layerVars
    <3>1. /\ \A r, layer : Inside(r, layer)' <=> Inside(r, layer)
          /\ \A s : Metered(s)' = Metered(s)
      BY <2>1 DEF layerVars, Inside, Metered
    <3>2. LayerTypeOK' /\ \A r \in Requests : Placed(r)'
      BY <2>1, <3>1 DEF layerVars, LayerInv, LayerTypeOK, Placed
    <3>3. GaugeDriftsByPanics'
      BY <2>1, <3>1, SameMeters, SMTT(30), Zenon DEF layerVars, LayerInv
    <3>4. TraceScoped'
      BY <2>1, <3>1 DEF layerVars, LayerInv, LayersUnwind, TraceScoped
    <3>5. QED  BY <3>2, <3>3, <3>4 DEF LayerInv, LayersUnwind
  <2>2. QED  BY <2>1, TurnsKept, EnterKept, LeaveKept DEF LayerNext
<1>3. QED  BY <1>1, <1>2, PTL DEF LayerSpec, LayerInv
=============================================================================
