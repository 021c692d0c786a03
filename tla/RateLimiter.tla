----------------------------- MODULE RateLimiter ----------------------------
(* The filter Router::rate_limit of turbo/mod.rs installs. It reads the clock *)
(* before it takes the lock, so requests of several workers may pass the      *)
(* lock in another order than their stamps. Time is measured in the ticks in  *)
(* which one unit refills; a request costs Cost units (1.0 token).            *)
EXTENDS Naturals, FiniteSets

CONSTANTS
  Keys,           \* what key_of returns
  Workers,        \* worker threads of a multi-threaded runtime
  Cost,           \* ticks in which one token refills
  Burst,          \* the burst in units, not necessarily a multiple of Cost
  SweepInterval,  \* SWEEP_INTERVAL in ticks
  MaxNow,         \* bound on the clock
  MaxRequests,    \* bound on the requests of one key
  NoKey           \* the key of a worker that has no request

ASSUME LimitsAssumption == /\ Cost \in Nat \ {0} /\ Burst \in Nat /\ SweepInterval \in Nat
                           /\ MaxNow \in Nat /\ MaxRequests \in Nat /\ NoKey \notin Keys

VARIABLES
  flavor,      \* the runtime: "current_thread" or "multi_thread"
  clock,       \* Instant::now()
  buckets,     \* the map: key -> [tokens, last]
  last_sweep,
  stamp,       \* each worker's request between the clock and the lock: [key, now], or Idle
  served,      \* history: requests let through and refused, per key
  upto,        \* history: the instant up to which the key has been credited
  refunded     \* history: ticks credited a second time, per key

limitVars == <<flavor, clock, buckets, last_sweep, stamp, served, upto, refunded>>

Idle == [key |-> NoKey, now |-> 0]
Busy(w) == stamp[w].key # NoKey

(* Instant::duration_since is zero when the argument is later. *)
Since(now, then) == IF now > then THEN now - then ELSE 0

Capped(x) == IF x > Burst THEN Burst ELSE x
Later(a, b) == IF a > b THEN a ELSE b

Without(f, dead) == [k \in DOMAIN f \ dead |-> f[k]]
With(f, k, v) == [j \in DOMAIN f \cup {k} |-> IF j = k THEN v ELSE f[j]]

(* MUTANT: the sweep drops buckets that could pay for a request. *)
RefilledLoose(b, now) == b.tokens + Since(now, b.last) >= Cost

(* retain keeps the buckets that are not full yet. *)
Refilled(b, now) == Capped(b.tokens + Since(now, b.last)) >= Burst

SweepDue(now) == Since(now, last_sweep) >= SweepInterval

Swept(now) == IF SweepDue(now) THEN {k \in DOMAIN buckets : Refilled(buckets[k], now)} ELSE {}

(* MUTANT: the time between two stamps, whichever is later. *)
EntryEitherWay(kept, k, now) ==
  IF k \in DOMAIN kept
  THEN Capped(kept[k].tokens + Since(now, kept[k].last) + Since(kept[k].last, now)) ELSE Burst

(* entry(key).or_insert((burst, now)), refilled up to the stamp. *)
Entry(kept, k, now) ==
  IF k \in DOMAIN kept THEN Capped(kept[k].tokens + Since(now, kept[k].last)) ELSE Burst

LimitInit ==
  /\ flavor \in {"current_thread", "multi_thread"}
  /\ clock = 0 /\ buckets = [k \in {} |-> [tokens |-> 0, last |-> 0]] /\ last_sweep = 0
  /\ stamp = [w \in Workers |-> Idle]
  /\ served = [k \in Keys |-> <<0, 0>>]
  /\ upto = [k \in Keys |-> 0] /\ refunded = [k \in Keys |-> 0]

LimitTick == /\ clock < MaxNow
        /\ clock' = clock + 1
        /\ UNCHANGED <<flavor, buckets, last_sweep, stamp, served, upto, refunded>>

(* key_of(ctx) and Instant::now(). The filter never awaits, so on a           *)
(* current-thread runtime no other request is between its clock and the lock. *)
Stamp(w, k) ==
  /\ ~Busy(w) /\ served[k][1] + served[k][2] < MaxRequests
  /\ flavor = "current_thread" => \A v \in Workers : ~Busy(v)
  /\ stamp' = [stamp EXCEPT ![w] = [key |-> k, now |-> clock]]
  /\ UNCHANGED <<flavor, clock, buckets, last_sweep, served, upto, refunded>>

Passes(kept, k, now) == Entry(kept, k, now) >= Cost

(* The bucket after the request, stamped whatever came before. *)
Charged(kept, k, now) ==
  With(kept, k, [tokens |-> Entry(kept, k, now) - IF Passes(kept, k, now) THEN Cost ELSE 0,
                 last |-> now])

Counted(n, pass) == IF pass THEN <<n[1] + 1, n[2]>> ELSE <<n[1], n[2] + 1>>

(* The critical section: sweep, refill, take a token or answer 429. *)
Decide(w) ==
  /\ Busy(w)
  /\ LET k == stamp[w].key
         now == stamp[w].now
         gone == Swept(now)
         kept == Without(buckets, gone)
         seen == IF k \in gone THEN Later(upto[k], now) ELSE upto[k]
     IN /\ buckets' = Charged(kept, k, now)
        /\ last_sweep' = IF SweepDue(now) THEN now ELSE last_sweep
        /\ served' = [served EXCEPT ![k] = Counted(@, Passes(kept, k, now))]
        /\ refunded' = [refunded EXCEPT ![k] = @ + Since(seen, now)]
        /\ upto' = [j \in Keys |-> IF j = k THEN now
                                   ELSE IF j \in gone THEN Later(upto[j], now)
                                   ELSE upto[j]]
  /\ stamp' = [stamp EXCEPT ![w] = Idle]
  /\ UNCHANGED <<flavor, clock>>

LimitNext == \/ LimitTick
             \/ \E w \in Workers : Decide(w) \/ \E k \in Keys : Stamp(w, k)

LimitSpec == LimitInit /\ [][LimitNext]_limitVars

-----------------------------------------------------------------------------
(* The allowance as a caller sees it. A request between its clock and its     *)
(* lock counts as decided: on a current-thread runtime nothing comes between. *)
Decided == {w \in Workers : Busy(w)}

Kept(w) == Without(buckets, Swept(stamp[w].now))

Effective ==
  IF Decided = {} THEN buckets
  ELSE LET w == CHOOSE v \in Decided : TRUE
       IN Charged(Kept(w), stamp[w].key, stamp[w].now)

LevelOf(b, k) ==
  IF k \in DOMAIN b THEN Capped(b[k].tokens + Since(clock, b[k].last)) ELSE Burst

EffectiveVerdict(k) ==
  IF Decided = {} THEN served[k]
  ELSE LET w == CHOOSE v \in Decided : TRUE
       IN IF stamp[w].key = k THEN Counted(served[k], Passes(Kept(w), k, stamp[w].now))
          ELSE served[k]

levelBar == [k \in Keys |-> LevelOf(Effective, k)]
verdictBar == [k \in Keys |-> EffectiveVerdict(k)]

Bucket == INSTANCE TokenBucket WITH level <- levelBar, verdict <- verdictBar

(* On a current-thread runtime the filter (turbo/mod.rs:353) is a token       *)
(* bucket per key: sweeping the map is never visible.                         *)
ImplementsTokenBucket ==
  /\ flavor = "current_thread" => Bucket!Init
  /\ [][flavor = "current_thread" => [Bucket!Next]_<<levelBar, verdictBar>>]_limitVars

(* No key is let through beyond its burst and the time that has passed, plus  *)
(* the time that a stamp taken before the lock and used after a later one     *)
(* credits twice (turbo/mod.rs:375, 391).                                     *)
AllowanceBounded == \A k \in Keys : served[k][1] * Cost <= Burst + clock + refunded[k]

(* A bucket that was full at the last sweep is gone: the map does not keep    *)
(* the keys of clients that left (turbo/mod.rs:361, 380).                     *)
IdleBucketsGone ==
  flavor = "current_thread" =>
    \A k \in DOMAIN buckets :
      buckets[k].last >= last_sweep \/ buckets[k].last + Burst > last_sweep

(* The limiter bounds what a key gets and what the map holds                  *)
(* (turbo/mod.rs:361, 391).                                                   *)
LimiterSound == AllowanceBounded /\ IdleBucketsGone
=============================================================================
