------------------------- MODULE BreakerStateProofs -------------------------
(***************************************************************************)
(* Lemmas about the critical sections of a circuit breaker, for every      *)
(* configuration.  The proofs about one breaker and about the router's     *)
(* many breakers cite them.                                                *)
(***************************************************************************)
EXTENDS BreakerState, TLAPS

-----------------------------------------------------------------------------
(***************************************************************************)
(* The critical sections keep the State well typed and consistent.         *)
(***************************************************************************)
\* A new breaker (breaker.rs:79) is well typed and consistent.
LEMMA NewConsistent == New \in State /\ Consistent(New)
BY ConfigAssumption
   DEF New, State, CircuitState, None, Consistent, ClosedCounters,
       OpenCounters, HalfOpenCounters, SlotsBounded, AtLeastOne

\* can_execute (breaker.rs:100) keeps the state's type and its consistency.
LEMMA CanExecuteConsistent ==
    ASSUME NEW s \in State, Consistent(s)
    PROVE  AfterCanExecute(s) \in State /\ Consistent(AfterCanExecute(s))
<1> USE ConfigAssumption DEF State, CircuitState, None
<1>1. CASE s.circuit = "Open" /\ Elapsed(s) >= timeout
  <2>1. AfterCanExecute(s) =
          [circuit |-> "HalfOpen", failures |-> s.failures, successes |-> 0,
           half_open_in_flight |-> 1, opened_at |-> s.opened_at]
    BY <1>1, Zenon DEF AfterCanExecute
  <2>2. s.opened_at = timeout
    BY <1>1 DEF Elapsed, Consistent, OpenCounters
  <2>3. QED
    BY <1>1, <2>1, <2>2 DEF Consistent, ClosedCounters, OpenCounters,
       HalfOpenCounters, SlotsBounded, AtLeastOne
<1>2. CASE s.circuit = "HalfOpen" /\ s.half_open_in_flight < max_half_open
  <2>1. AfterCanExecute(s) = [s EXCEPT !.half_open_in_flight = @ + 1]
    BY <1>2 DEF AfterCanExecute
  <2>2. QED
    BY <1>2, <2>1 DEF Consistent, ClosedCounters, OpenCounters,
       HalfOpenCounters, SlotsBounded, AtLeastOne
<1>3. CASE /\ ~ (s.circuit = "Open" /\ Elapsed(s) >= timeout)
           /\ ~ (s.circuit = "HalfOpen"
                   /\ s.half_open_in_flight < max_half_open)
  BY <1>3 DEF AfterCanExecute
<1>4. QED  BY <1>1, <1>2, <1>3

\* on_execution (breaker.rs:127) keeps the state's type and its consistency.
LEMMA ReportConsistent ==
    ASSUME NEW s \in State, Consistent(s), NEW success \in BOOLEAN
    PROVE  AfterReport(s, success) \in State
           /\ Consistent(AfterReport(s, success))
<1> USE ConfigAssumption
<1>1. CASE s.circuit = "Closed"
  BY <1>1 DEF State, CircuitState, None, AfterReport, ReportClosed, Trip,
       Consistent, ClosedCounters, OpenCounters, HalfOpenCounters,
       SlotsBounded, AtLeastOne
<1>2. CASE s.circuit = "HalfOpen"
  <2> DEFINE freed == Release(s.half_open_in_flight)
  <2>1. freed \in Nat /\ freed <= s.half_open_in_flight
    BY DEF State, Release
  <2>2. AfterReport(s, success) = ReportHalfOpen(s, success)
    BY <1>2 DEF AfterReport
  <2>3. CASE ~ success
    BY <2>2, <2>3 DEF State, CircuitState, None, ReportHalfOpen, Trip,
       Consistent, ClosedCounters, OpenCounters, HalfOpenCounters,
       SlotsBounded, AtLeastOne
  <2>4. CASE success /\ s.successes + 1 >= success_threshold
    <3>1. ReportHalfOpen(s, success) =
            [circuit |-> "Closed", failures |-> 0, successes |-> 0,
             half_open_in_flight |-> freed, opened_at |-> None]
      BY <2>4, Zenon DEF ReportHalfOpen, State
    <3>2. QED
      BY <2>1, <2>2, <3>1 DEF State, CircuitState, None, Consistent,
         ClosedCounters, OpenCounters, HalfOpenCounters, SlotsBounded,
         AtLeastOne
  <2>5. CASE success /\ ~ (s.successes + 1 >= success_threshold)
    <3>1. ReportHalfOpen(s, success) =
            [circuit |-> "HalfOpen", failures |-> s.failures,
             successes |-> s.successes + 1,
             half_open_in_flight |-> freed, opened_at |-> s.opened_at]
      BY <1>2, <2>5, Zenon DEF ReportHalfOpen, State
    <3>2. s.failures = 0 /\ s.opened_at = timeout
          /\ s.half_open_in_flight <= AtLeastOne(max_half_open)
      BY <1>2 DEF Consistent, HalfOpenCounters, SlotsBounded
    <3> HIDE DEF freed
    <3>3. ReportHalfOpen(s, success) \in State
      BY <2>1, <3>1, <3>2 DEF State, CircuitState
    <3>4. s.successes + 1 < AtLeastOne(success_threshold)
      BY <2>5 DEF State, AtLeastOne
    <3>5. QED
      BY <2>1, <2>2, <3>1, <3>2, <3>3, <3>4 DEF State, Consistent,
         ClosedCounters, OpenCounters, HalfOpenCounters, SlotsBounded,
         AtLeastOne
  <2>6. QED  BY <2>3, <2>4, <2>5
<1>3. CASE s.circuit = "Open"
  BY <1>3 DEF State, CircuitState, None, AfterReport, ReportOpen,
       Consistent, ClosedCounters, OpenCounters, HalfOpenCounters,
       SlotsBounded, AtLeastOne
<1>4. QED  BY <1>1, <1>2, <1>3 DEF State, CircuitState

\* A clock tick keeps the state's type and its consistency.
LEMMA TickConsistent ==
    ASSUME NEW s \in State, Consistent(s)
    PROVE  Tick(s) \in State /\ Consistent(Tick(s))
BY ConfigAssumption
   DEF State, CircuitState, None, Tick, Consistent, ClosedCounters,
       OpenCounters, HalfOpenCounters, SlotsBounded, AtLeastOne

-----------------------------------------------------------------------------
(***************************************************************************)
(* What each critical section does to the circuit and the trial counters.  *)
(***************************************************************************)
\* can_execute enters HalfOpen with one slot taken, takes one more slot, or
\* leaves the state alone.
LEMMA CanExecuteEffect ==
    ASSUME NEW s \in State
    PROVE  LET t == AfterCanExecute(s) IN
           \/ /\ s.circuit = "Open" /\ Elapsed(s) >= timeout /\ Admits(s)
              /\ t.circuit = "HalfOpen" /\ t.successes = 0
              /\ t.half_open_in_flight = 1
           \/ /\ s.circuit = "HalfOpen" /\ t.circuit = "HalfOpen" /\ Admits(s)
              /\ t.successes = s.successes /\ s.half_open_in_flight < max_half_open
              /\ t.half_open_in_flight = s.half_open_in_flight + 1
           \/ t = s /\ (Admits(s) => s.circuit = "Closed")
<1>1. CASE s.circuit = "Open" /\ Elapsed(s) >= timeout
  <2>1. AfterCanExecute(s) =
          [circuit |-> "HalfOpen", failures |-> s.failures, successes |-> 0,
           half_open_in_flight |-> 1, opened_at |-> s.opened_at]
    BY <1>1, Zenon DEF AfterCanExecute, State
  <2>2. QED  BY <1>1, <2>1 DEF Admits
<1>2. CASE s.circuit = "HalfOpen" /\ s.half_open_in_flight < max_half_open
  BY <1>2 DEF AfterCanExecute, State, Admits
<1>3. CASE /\ ~ (s.circuit = "Open" /\ Elapsed(s) >= timeout)
           /\ ~ (s.circuit = "HalfOpen"
                   /\ s.half_open_in_flight < max_half_open)
  BY <1>3 DEF AfterCanExecute, Admits
<1>4. QED  BY <1>1, <1>2, <1>3

\* on_execution ends the half-open phase, or gives one slot back and counts a
\* success; outside of it, it never enters it.
LEMMA ReportEffect ==
    ASSUME NEW s \in State, NEW success \in BOOLEAN
    PROVE  LET t == AfterReport(s, success) IN
           /\ s.circuit # "HalfOpen" => t.circuit # "HalfOpen"
           /\ s.circuit = "Open" => t.circuit = "Open"
           /\ s.circuit = "HalfOpen" =>
                \/ t = Trip(s)
                \/ /\ success /\ t.circuit = "Closed"
                   /\ s.successes + 1 >= success_threshold
                \/ /\ success /\ t.circuit = "HalfOpen"
                   /\ t.successes = s.successes + 1
                   /\ t.half_open_in_flight = Release(s.half_open_in_flight)
<1>1. CASE s.circuit = "Closed"
  BY <1>1 DEF AfterReport, ReportClosed, Trip, State
<1>2. CASE s.circuit = "Open"
  BY <1>2 DEF AfterReport, ReportOpen, State
<1>3. CASE s.circuit = "HalfOpen"
  <2>1. AfterReport(s, success) = ReportHalfOpen(s, success)
    BY <1>3 DEF AfterReport
  <2>2. CASE ~ success
    BY <1>3, <2>1, <2>2 DEF ReportHalfOpen
  <2>3. CASE success /\ s.successes + 1 >= success_threshold
    BY <1>3, <2>1, <2>3 DEF ReportHalfOpen, State
  <2>4. CASE success /\ ~ (s.successes + 1 >= success_threshold)
    BY <1>3, <2>1, <2>4 DEF ReportHalfOpen, State
  <2>5. QED  BY <2>2, <2>3, <2>4
<1>4. QED  BY <1>1, <1>2, <1>3 DEF State, CircuitState

\* A tick moves only the clock.
LEMMA TickEffect ==
    ASSUME NEW s \in State
    PROVE  /\ Tick(s).circuit = s.circuit
           /\ Tick(s).successes = s.successes
           /\ Tick(s).half_open_in_flight = s.half_open_in_flight
BY DEF Tick, State
=============================================================================
