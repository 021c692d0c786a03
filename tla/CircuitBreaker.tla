--------------------------- MODULE CircuitBreaker ---------------------------
(***************************************************************************)
(* One CircuitBreaker shared by concurrent callers (clients/breaker.rs).   *)
(* Every caller follows the documented protocol: can_execute, then the     *)
(* operation, then on_execution.  Each of the two calls is one critical    *)
(* section of the breaker's mutex; anything may happen between them.       *)
(*                                                                         *)
(* The code does not tag a call with the circuit state that admitted it.   *)
(* `call' keeps that tag as history: a call is "live" while the circuit    *)
(* state that admitted it lasts and "stale" from the next transition on.   *)
(***************************************************************************)
EXTENDS BreakerState

CONSTANTS
    Callers,            \* tasks sharing the breaker
    CallersMayAbandon   \* may a caller be dropped before it reports?

ASSUME CallersAssumption ==
    /\ IsFiniteSet(Callers)
    /\ CallersMayAbandon \in BOOLEAN

VARIABLES
    state,          \* the State behind the mutex
    call,           \* per caller: "idle", "live" or "stale"
    leaked,         \* live trials of this half-open phase dropped unreported
    trialSuccesses, \* live trials of the last half-open phase that succeeded
    strayed         \* a stale call reported in the last half-open phase

breakerVars == <<state, call, leaked, trialSuccesses, strayed>>

CallState == {"idle", "live", "stale"}

InCall(kind) == {c \in Callers : call[c] = kind}

BreakerInit ==
    /\ state = New
    /\ call = [c \in Callers |-> "idle"]
    /\ leaked = 0
    /\ trialSuccesses = 0
    /\ strayed = FALSE

\* The calls as they stand after the circuit's state went from s to t.
Aged(s, t) ==
    [c \in Callers |->
        IF call[c] = "live" /\ s.circuit # t.circuit THEN "stale" ELSE call[c]]

\* can_execute by a caller with no operation under way.
CanExecute(c) ==
    /\ call[c] = "idle"
    /\ state' = AfterCanExecute(state)
    /\ call' = [Aged(state, state') EXCEPT
                    ![c] = IF Admits(state) THEN "live" ELSE "idle"]
    /\ IF state.circuit # state'.circuit
       THEN leaked' = 0 /\ trialSuccesses' = 0 /\ strayed' = FALSE
       ELSE UNCHANGED <<leaked, trialSuccesses, strayed>>

\* on_execution by a caller whose operation ended.
OnExecution(c, success) ==
    /\ call[c] # "idle"
    /\ state' = AfterReport(state, success)
    /\ call' = [Aged(state, state') EXCEPT ![c] = "idle"]
    /\ leaked' = IF state.circuit # state'.circuit THEN 0 ELSE leaked
    /\ trialSuccesses' =
        IF state.circuit = "HalfOpen" /\ call[c] = "live" /\ success
        THEN trialSuccesses + 1 ELSE trialSuccesses
    /\ strayed' = (strayed \/ (state.circuit = "HalfOpen" /\ call[c] = "stale"))

\* The caller's future is dropped during the operation, or returns without
\* reporting it: the breaker hears nothing.
Abandon(c) ==
    /\ CallersMayAbandon
    /\ call[c] # "idle"
    /\ call' = [call EXCEPT ![c] = "idle"]
    /\ leaked' = IF state.circuit = "HalfOpen" /\ call[c] = "live"
                 THEN leaked + 1 ELSE leaked
    /\ UNCHANGED <<state, trialSuccesses, strayed>>

\* Time passes, however many operations are under way.
Elapse ==
    /\ Tick(state) # state
    /\ state' = Tick(state)
    /\ UNCHANGED <<call, leaked, trialSuccesses, strayed>>

Report(c) == \E success \in BOOLEAN : OnExecution(c, success)

BreakerNext ==
    \/ \E c \in Callers : CanExecute(c) \/ Report(c) \/ Abandon(c)
    \/ Elapse

BreakerSpec == BreakerInit /\ [][BreakerNext]_breakerVars

-----------------------------------------------------------------------------
(***************************************************************************)
(* Properties                                                              *)
(***************************************************************************)
\* Every variable has its type.
BreakerTypeOK ==
    /\ state \in State
    /\ call \in [Callers -> CallState]
    /\ leaked \in Nat
    /\ trialSuccesses \in Nat
    /\ strayed \in BOOLEAN

\* After any interleaving of can_execute and on_execution, stray reports
\* included, the counters fit the circuit state: no more failures than the
\* threshold while Closed, nothing left over while Open, a cooldown that has
\* run out while HalfOpen, never more trial slots taken than configured.  The
\* u32 increments in breaker.rs:117,134,143 can therefore never wrap.
CountersConsistent == Consistent(state)

\* Nothing admitted since the circuit opened is under way while it is open:
\* can_execute lets no call through before it also leaves Open.
NoCallAdmittedWhileOpen == state.circuit = "Open" => InCall("live") = {}

\* A taken trial slot belongs to a trial that is under way or was dropped
\* unreported: the breaker never refuses trials on behalf of nobody.
SlotsAreHeld ==
    state.circuit = "HalfOpen" =>
        state.half_open_in_flight <= Cardinality(InCall("live")) + leaked

\* As long as a half-open phase hears from its own trials only, the breaker's
\* counters are exactly the trials under way or lost, and those that succeeded.
ExactTrialAccounting ==
    state.circuit = "HalfOpen" /\ ~ strayed =>
        /\ state.half_open_in_flight = Cardinality(InCall("live")) + leaked
        /\ state.successes = trialSuccesses

\* Then "Maximum concurrent trial requests permitted in `HalfOpen`"
\* (breaker.rs:31) holds; the probe that leaves Open is admitted whatever the
\* limit.
TrialsWithinMax ==
    state.circuit = "HalfOpen" /\ ~ strayed =>
        Cardinality(InCall("live")) <= AtLeastOne(max_half_open)

\* What the counters of the breaker mean, whatever calls are interleaved,
\* reported late or never (breaker.rs:100-169).
BreakerSound ==
    /\ BreakerTypeOK /\ CountersConsistent /\ NoCallAdmittedWhileOpen
    /\ SlotsAreHeld /\ ExactTrialAccounting /\ TrialsWithinMax

\* And so does "Successful trials in `HalfOpen` that close the breaker"
\* (breaker.rs:29): that many trials of the phase have succeeded.
ClosesOnTrialSuccesses ==
    [][state.circuit = "HalfOpen" /\ state'.circuit = "Closed" /\ ~ strayed'
        => trialSuccesses' >= success_threshold]_breakerVars

\* The cooldown always ends and a caller gets through to probe, however many
\* stray failures restart it: each comes from a call admitted earlier.
OpenIsLeft == state.circuit = "Open" ~> state.circuit # "Open"

\* Trials always decide: only a trial that never reports can keep the circuit
\* half-open (breaker.rs:140-153).
HalfOpenIsLeft ==
    state.circuit = "HalfOpen" ~> (state.circuit # "HalfOpen" \/ leaked > 0)

\* The breaker moves on, and for a reason: it closes on enough successful
\* trials only, and neither stays open nor half-open for ever unless a trial
\* was lost (breaker.rs:104-152).
BreakerMoves == ClosesOnTrialSuccesses /\ OpenIsLeft /\ HalfOpenIsLeft
=============================================================================
