----------------------------- MODULE TokenBucket ----------------------------
(* What Router::rate_limit promises: every key has an allowance that starts   *)
(* full, refills with time up to the burst, and pays for each request let     *)
(* through. One unit of allowance refills per tick; a request costs Cost.     *)
EXTENDS Naturals

CONSTANTS Keys, Cost, Burst

VARIABLES
  level,      \* the allowance each key has now
  verdict     \* how often each key was let through and refused

AtMost(x) == IF x > Burst THEN Burst ELSE x

Init == level = [k \in Keys |-> Burst] /\ verdict = [k \in Keys |-> <<0, 0>>]

Refill == level' = [k \in Keys |-> AtMost(level[k] + 1)] /\ UNCHANGED verdict

Pass(k) == /\ level[k] >= Cost
           /\ level' = [level EXCEPT ![k] = @ - Cost]
           /\ verdict' = [verdict EXCEPT ![k] = <<@[1] + 1, @[2]>>]

Refuse(k) == /\ level[k] < Cost
             /\ verdict' = [verdict EXCEPT ![k] = <<@[1], @[2] + 1>>]
             /\ UNCHANGED level

Next == Refill \/ \E k \in Keys : Pass(k) \/ Refuse(k)

Spec == Init /\ [][Next]_<<level, verdict>>
=============================================================================
