---------------------------- MODULE BreakerState ----------------------------
(***************************************************************************)
(* The state a circuit breaker keeps behind its mutex and the three        *)
(* critical sections on it (clients/breaker.rs).  Each operator maps the   *)
(* state before the critical section to the state after it, so a module    *)
(* with one breaker and a module with one breaker per model share them.    *)
(*                                                                         *)
(* `opened_at' is an Instant in the code and is only ever used through     *)
(* `elapsed() >= timeout'.  Here it is the number of clock ticks since     *)
(* that instant, capped at `timeout', or None.                             *)
(***************************************************************************)
EXTENDS Integers, FiniteSets

CONSTANTS
    failure_threshold,  \* CircuitBreakerConfig, clients/breaker.rs:26
    success_threshold,
    max_half_open,
    timeout             \* the cooldown, in clock ticks

\* The fields are u32 and Duration; the code checks none of them, so zero is
\* allowed for each.
ASSUME ConfigAssumption ==
    /\ failure_threshold \in Nat
    /\ success_threshold \in Nat
    /\ max_half_open \in Nat
    /\ timeout \in Nat

CircuitState == {"Closed", "Open", "HalfOpen"}

None == -1

State == [circuit : CircuitState,
          failures : Nat,
          successes : Nat,
          half_open_in_flight : Nat,
          opened_at : (0 .. timeout) \cup {None}]

New == [circuit |-> "Closed", failures |-> 0, successes |-> 0,
        half_open_in_flight |-> 0, opened_at |-> None]

\* t.elapsed() of Some(t); None counts as no time at all (unwrap_or_default).
Elapsed(s) == IF s.opened_at = None THEN 0 ELSE s.opened_at

\* The clock moves on by one tick.
Tick(s) ==
    [s EXCEPT !.opened_at =
        IF @ = None \/ @ = timeout THEN @ ELSE @ + 1]

-----------------------------------------------------------------------------
(***************************************************************************)
(* can_execute: its result, and the state it leaves.                       *)
(***************************************************************************)
Admits(s) ==
    \/ s.circuit = "Closed"
    \/ s.circuit = "Open" /\ Elapsed(s) >= timeout
    \/ s.circuit = "HalfOpen" /\ s.half_open_in_flight < max_half_open

AfterCanExecute(s) ==
    CASE s.circuit = "Open" /\ Elapsed(s) >= timeout ->
            [s EXCEPT !.circuit = "HalfOpen", !.successes = 0,
                      !.half_open_in_flight = 1]
      [] s.circuit = "HalfOpen" /\ s.half_open_in_flight < max_half_open ->
            [s EXCEPT !.half_open_in_flight = @ + 1]
      [] OTHER -> s

-----------------------------------------------------------------------------
(***************************************************************************)
(* on_execution, by the circuit's state at the time of the report.         *)
(***************************************************************************)
Trip(s) ==
    [circuit |-> "Open", failures |-> 0, successes |-> 0,
     half_open_in_flight |-> 0, opened_at |-> 0]

ReportClosed(s, success) ==
    IF success THEN [s EXCEPT !.failures = 0]
    ELSE IF s.failures + 1 >= failure_threshold THEN Trip(s)
    ELSE [s EXCEPT !.failures = @ + 1]

\* u32::saturating_sub(1)
Release(n) == IF n = 0 THEN 0 ELSE n - 1

\* Mutant: a trial's slot is not given back.
ReportHalfOpenKeepingSlot(s, success) ==
    IF ~ success THEN Trip(s)
    ELSE IF s.successes + 1 >= success_threshold
    THEN [s EXCEPT !.circuit = "Closed", !.failures = 0, !.successes = 0,
                   !.opened_at = None]
    ELSE [s EXCEPT !.successes = @ + 1]

\* Mutant: one success fewer than configured closes the circuit.
ReportHalfOpenEarly(s, success) ==
    LET freed == Release(s.half_open_in_flight)
    IN IF ~ success THEN Trip(s)
       ELSE IF s.successes + 2 >= success_threshold
       THEN [s EXCEPT !.circuit = "Closed", !.failures = 0, !.successes = 0,
                      !.opened_at = None, !.half_open_in_flight = freed]
       ELSE [s EXCEPT !.successes = @ + 1, !.half_open_in_flight = freed]

\* Closing leaves half_open_in_flight as the release left it.
ReportHalfOpen(s, success) ==
    LET freed == Release(s.half_open_in_flight)
    IN IF ~ success THEN Trip(s)
       ELSE IF s.successes + 1 >= success_threshold
       THEN [s EXCEPT !.circuit = "Closed", !.failures = 0, !.successes = 0,
                      !.opened_at = None, !.half_open_in_flight = freed]
       ELSE [s EXCEPT !.successes = @ + 1, !.half_open_in_flight = freed]

\* A stray report: a failure restarts the cooldown.
ReportOpen(s, success) ==
    IF success THEN s ELSE [s EXCEPT !.opened_at = 0]

AfterReport(s, success) ==
    CASE s.circuit = "Closed"   -> ReportClosed(s, success)
      [] s.circuit = "HalfOpen" -> ReportHalfOpen(s, success)
      [] s.circuit = "Open"     -> ReportOpen(s, success)

-----------------------------------------------------------------------------
(***************************************************************************)
(* What the counters may hold in each circuit state.  A threshold of zero  *)
(* behaves as one: the test comes after the increment.                     *)
(***************************************************************************)
AtLeastOne(n) == IF n = 0 THEN 1 ELSE n

ClosedCounters(s) ==
    s.circuit = "Closed" =>
        /\ s.failures < AtLeastOne(failure_threshold)
        /\ s.successes = 0
        /\ s.opened_at = None

OpenCounters(s) ==
    s.circuit = "Open" =>
        /\ s.failures = 0 /\ s.successes = 0 /\ s.half_open_in_flight = 0
        /\ s.opened_at # None

HalfOpenCounters(s) ==
    s.circuit = "HalfOpen" =>
        /\ s.failures = 0
        /\ s.successes < AtLeastOne(success_threshold)
        /\ s.opened_at = timeout

SlotsBounded(s) == s.half_open_in_flight <= AtLeastOne(max_half_open)

Consistent(s) ==
    /\ ClosedCounters(s)
    /\ OpenCounters(s)
    /\ HalfOpenCounters(s)
    /\ SlotsBounded(s)
=============================================================================
