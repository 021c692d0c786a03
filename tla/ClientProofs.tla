---------------------------- MODULE ClientProofs ----------------------------
(***************************************************************************)
(* Proofs about the parts of the clients: CircuitBreaker, for every        *)
(* configuration and every finite set of callers; the retries of the REST  *)
(* client, for every retry policy; resumed downloads, for every size.      *)
(***************************************************************************)
EXTENDS CircuitBreaker, RestClient, BreakerStateProofs, FiniteSetTheorems

-----------------------------------------------------------------------------
(***************************************************************************)
(* Type correctness and the counters.                                      *)
(***************************************************************************)
\* The variables keep their types and the State stays consistent, whatever
\* calls are interleaved, reported late or never reported (breaker.rs:100-169).
THEOREM CountersInvariant == BreakerSpec => [](BreakerTypeOK /\ CountersConsistent)
<1>1. BreakerInit => BreakerTypeOK /\ CountersConsistent
  <2>1. New \in State /\ Consistent(New)
    BY NewConsistent
  <2>2. BreakerInit => /\ state \in State /\ call \in [Callers -> CallState]
                /\ leaked \in Nat /\ trialSuccesses \in Nat
    BY <2>1 DEF BreakerInit, CallState
  <2>3. BreakerInit => strayed \in BOOLEAN /\ Consistent(state)
    BY <2>1, Zenon DEF BreakerInit
  <2>4. QED  BY <2>2, <2>3 DEF BreakerTypeOK, CountersConsistent
<1>2. BreakerTypeOK /\ CountersConsistent /\ [BreakerNext]_breakerVars
        => BreakerTypeOK' /\ CountersConsistent'
  <2> SUFFICES ASSUME BreakerTypeOK, CountersConsistent, [BreakerNext]_breakerVars
               PROVE  BreakerTypeOK' /\ CountersConsistent'
    OBVIOUS
  <2>1. ASSUME NEW c \in Callers, CanExecute(c)
        PROVE  BreakerTypeOK' /\ CountersConsistent'
    <3>1. state' \in State /\ Consistent(state')
      BY <2>1, CanExecuteConsistent DEF BreakerTypeOK, CountersConsistent, CanExecute
    <3>2. call' \in [Callers -> CallState]
      BY <2>1 DEF BreakerTypeOK, CanExecute, Aged, CallState
    <3>3. leaked' \in Nat /\ trialSuccesses' \in Nat
      BY <2>1 DEF BreakerTypeOK, CanExecute
    <3>4. strayed' \in BOOLEAN
      BY <2>1, Zenon DEF BreakerTypeOK, CanExecute
    <3>5. QED  BY <3>1, <3>2, <3>3, <3>4 DEF BreakerTypeOK, CountersConsistent
  <2>2. ASSUME NEW c \in Callers, NEW success \in BOOLEAN,
               OnExecution(c, success)
        PROVE  BreakerTypeOK' /\ CountersConsistent'
    <3>1. state' \in State /\ Consistent(state')
      BY <2>2, ReportConsistent DEF BreakerTypeOK, CountersConsistent, OnExecution
    <3>2. call' \in [Callers -> CallState]
      BY <2>2 DEF BreakerTypeOK, OnExecution, Aged, CallState
    <3>3. leaked' \in Nat /\ trialSuccesses' \in Nat /\ strayed' \in BOOLEAN
      BY <2>2 DEF BreakerTypeOK, OnExecution
    <3>4. QED  BY <3>1, <3>2, <3>3 DEF BreakerTypeOK, CountersConsistent
  <2>3. ASSUME NEW c \in Callers, Abandon(c)
        PROVE  BreakerTypeOK' /\ CountersConsistent'
    BY <2>3 DEF BreakerTypeOK, CountersConsistent, Abandon, CallState
  <2>4. CASE Elapse
    BY <2>4, TickConsistent DEF BreakerTypeOK, CountersConsistent, Elapse
  <2>5. CASE UNCHANGED breakerVars
    BY <2>5 DEF breakerVars, BreakerTypeOK, CountersConsistent
  <2>6. QED  BY <2>4, <2>5, <2>3, <2>2, <2>1 DEF Report, BreakerNext
<1>3. QED  BY <1>1, <1>2, PTL DEF BreakerSpec

-----------------------------------------------------------------------------
(***************************************************************************)
(* How the calls under way change, as sets.                                *)
(***************************************************************************)
\* There are finitely many calls of each kind.
LEMMA InCallFinite ==
    ASSUME NEW kind
    PROVE  IsFiniteSet(InCall(kind)) /\ Cardinality(InCall(kind)) \in Nat
<1>1. InCall(kind) \subseteq Callers
  BY DEF InCall
<1>2. QED
  BY <1>1, CallersAssumption, FS_Subset, FS_CardinalityType

\* An admitted call joins the live ones; entering another circuit state makes
\* every earlier live call stale.
LEMMA CanExecuteCalls ==
    ASSUME BreakerTypeOK, NEW c \in Callers, CanExecute(c)
    PROVE  /\ c \notin InCall("live")
           /\ state.circuit = state'.circuit =>
                /\ InCall("live")' = IF Admits(state)
                                     THEN InCall("live") \cup {c}
                                     ELSE InCall("live")
                /\ InCall("stale")' = InCall("stale")
           /\ state.circuit # state'.circuit /\ Admits(state) =>
                /\ InCall("live")' = {c}
                /\ InCall("stale")' = InCall("stale") \cup InCall("live")
BY DEF BreakerTypeOK, CanExecute, Aged, InCall, CallState

\* A call that reports leaves; a change of the circuit makes the rest stale.
LEMMA ReportCalls ==
    ASSUME BreakerTypeOK, NEW c \in Callers, NEW success \in BOOLEAN,
           OnExecution(c, success)
    PROVE  /\ state.circuit = state'.circuit =>
                /\ InCall("live")' = InCall("live") \ {c}
                /\ InCall("stale")' = InCall("stale") \ {c}
           /\ state.circuit # state'.circuit => InCall("live")' = {}
BY DEF BreakerTypeOK, OnExecution, Aged, InCall, CallState

\* A dropped call leaves.
LEMMA AbandonCalls ==
    ASSUME BreakerTypeOK, NEW c \in Callers, Abandon(c)
    PROVE  /\ InCall("live")' = InCall("live") \ {c}
           /\ InCall("stale")' = InCall("stale") \ {c}
BY DEF BreakerTypeOK, Abandon, InCall, CallState

-----------------------------------------------------------------------------
\* While the circuit is open no call admitted since it opened is under way:
\* can_execute leaves Open in the critical section that admits (breaker.rs:104).
THEOREM OpenAdmitsNothing == BreakerSpec => []NoCallAdmittedWhileOpen
<1>1. BreakerInit => NoCallAdmittedWhileOpen
  BY DEF BreakerInit, New, NoCallAdmittedWhileOpen
<1>2. BreakerTypeOK /\ NoCallAdmittedWhileOpen /\ [BreakerNext]_breakerVars
        => NoCallAdmittedWhileOpen'
  <2> SUFFICES ASSUME BreakerTypeOK, NoCallAdmittedWhileOpen, [BreakerNext]_breakerVars
               PROVE  NoCallAdmittedWhileOpen'
    OBVIOUS
  <2> USE DEF NoCallAdmittedWhileOpen
  <2>1. ASSUME NEW c \in Callers, CanExecute(c)
        PROVE  NoCallAdmittedWhileOpen'
    <3>1. state' = AfterCanExecute(state)
      BY <2>1 DEF CanExecute
    <3>2. QED
      BY <2>1, <3>1, CanExecuteEffect, CanExecuteCalls DEF BreakerTypeOK
  <2>2. ASSUME NEW c \in Callers, NEW success \in BOOLEAN,
               OnExecution(c, success)
        PROVE  NoCallAdmittedWhileOpen'
    BY <2>2, ReportCalls
  <2>3. ASSUME NEW c \in Callers, Abandon(c)
        PROVE  NoCallAdmittedWhileOpen'
    BY <2>3, AbandonCalls, Zenon DEF Abandon
  <2>4. CASE Elapse
    BY <2>4, TickEffect DEF Elapse, BreakerTypeOK, InCall
  <2>5. CASE UNCHANGED breakerVars
    BY <2>5 DEF breakerVars, InCall
  <2>6. QED  BY <2>4, <2>5, <2>3, <2>2, <2>1 DEF Report, BreakerNext
<1>3. QED  BY <1>1, <1>2, CountersInvariant, PTL DEF BreakerSpec

\* Every taken half-open slot is held by a trial under way or was leaked by
\* one dropped before its on_execution (breaker.rs:115-120, 141).
THEOREM SlotsHeld == BreakerSpec => []SlotsAreHeld
<1>1. BreakerInit => SlotsAreHeld
  BY DEF BreakerInit, New, SlotsAreHeld
<1>2. BreakerTypeOK /\ SlotsAreHeld /\ [BreakerNext]_breakerVars => SlotsAreHeld'
  <2> SUFFICES ASSUME BreakerTypeOK, SlotsAreHeld, [BreakerNext]_breakerVars,
                      state'.circuit = "HalfOpen"
               PROVE  state'.half_open_in_flight
                        <= Cardinality(InCall("live")') + leaked'
    BY DEF SlotsAreHeld
  <2>1. ASSUME NEW c \in Callers, CanExecute(c)
        PROVE  state'.half_open_in_flight
                 <= Cardinality(InCall("live")') + leaked'
    <3>1. state' = AfterCanExecute(state)
      BY <2>1 DEF CanExecute
    <3>2. CASE state.circuit = "Open"
      <4>1. InCall("live")' = {c} /\ leaked' = 0
            /\ state'.half_open_in_flight = 1
        BY <2>1, <3>1, <3>2, CanExecuteEffect, CanExecuteCalls, Zenon
           DEF CanExecute, BreakerTypeOK
      <4>2. Cardinality({c}) = 1
        BY FS_Singleton, Zenon
      <4>3. Cardinality(InCall("live")') = 1
        BY <4>1, <4>2
      <4>4. QED  BY <4>1, <4>3
    <3>3. CASE state.circuit = "HalfOpen" /\ Admits(state)
      <4>1. InCall("live")' = InCall("live") \cup {c} /\ leaked' = leaked
            /\ state'.half_open_in_flight = state.half_open_in_flight + 1
            /\ c \notin InCall("live")
        BY <2>1, <3>1, <3>3, CanExecuteEffect, CanExecuteCalls, Zenon
           DEF CanExecute, BreakerTypeOK
      <4>2. Cardinality(InCall("live")') = Cardinality(InCall("live")) + 1
        BY <4>1, InCallFinite, FS_AddElement
      <4>3. QED
        BY <3>3, <4>1, <4>2, InCallFinite DEF SlotsAreHeld, BreakerTypeOK, State
    <3>4. CASE ~ Admits(state)
      BY <2>1, <3>1, <3>4, CanExecuteEffect, CanExecuteCalls, Zenon
         DEF CanExecute, SlotsAreHeld, BreakerTypeOK
    <3>5. QED
      BY <3>1, <3>2, <3>3, <3>4, CanExecuteEffect DEF BreakerTypeOK, State, CircuitState
  <2>2. ASSUME NEW c \in Callers, NEW success \in BOOLEAN,
               OnExecution(c, success)
        PROVE  state'.half_open_in_flight
                 <= Cardinality(InCall("live")') + leaked'
    <3>1. /\ state.circuit = "HalfOpen" /\ leaked' = leaked
          /\ state'.half_open_in_flight = Release(state.half_open_in_flight)
      BY <2>2, ReportEffect DEF OnExecution, BreakerTypeOK, Trip
    <3>2. InCall("live")' = InCall("live") \ {c}
      BY <2>2, <3>1, ReportCalls
    <3>3. Cardinality(InCall("live")') =
            IF c \in InCall("live") THEN Cardinality(InCall("live")) - 1
                                    ELSE Cardinality(InCall("live"))
      BY <3>2, InCallFinite, FS_RemoveElement
    <3>4. Cardinality(InCall("live")') \in Nat
      BY <3>2, InCallFinite, FS_Subset, FS_CardinalityType
    <3>5. QED
      BY <3>1, <3>3, <3>4, InCallFinite
         DEF SlotsAreHeld, Release, BreakerTypeOK, State
  <2>3. ASSUME NEW c \in Callers, Abandon(c)
        PROVE  state'.half_open_in_flight
                 <= Cardinality(InCall("live")') + leaked'
    <3>1. state' = state /\ InCall("live")' = InCall("live") \ {c}
          /\ leaked' = (IF c \in InCall("live") THEN leaked + 1 ELSE leaked)
      BY <2>3, AbandonCalls, Zenon DEF Abandon, InCall
    <3>2. Cardinality(InCall("live")') =
            IF c \in InCall("live") THEN Cardinality(InCall("live")) - 1
                                    ELSE Cardinality(InCall("live"))
      BY <3>1, InCallFinite, FS_RemoveElement
    <3>3. QED
      BY <3>1, <3>2, InCallFinite DEF SlotsAreHeld, BreakerTypeOK, State
  <2>4. CASE Elapse
    BY <2>4, TickEffect DEF Elapse, BreakerTypeOK, InCall, SlotsAreHeld
  <2>5. CASE UNCHANGED breakerVars
    BY <2>5 DEF breakerVars, InCall, SlotsAreHeld
  <2>6. QED  BY <2>4, <2>5, <2>3, <2>2, <2>1 DEF Report, BreakerNext
<1>3. QED  BY <1>1, <1>2, CountersInvariant, PTL DEF BreakerSpec

-----------------------------------------------------------------------------
(***************************************************************************)
(* The two documented limits hold wherever a half-open phase hears from    *)
(* its own trials alone.  Both follow from the exact accounting of the     *)
(* trials.                                                                 *)
(***************************************************************************)
\* Until a stale call reports, half_open_in_flight counts the trials under way
\* or lost and successes those that succeeded (breaker.rs:104-120, 140-152).
THEOREM ExactAccounting == BreakerSpec => []ExactTrialAccounting
<1>1. BreakerInit => ExactTrialAccounting
  BY DEF BreakerInit, New, ExactTrialAccounting
<1>2. BreakerTypeOK /\ ExactTrialAccounting /\ [BreakerNext]_breakerVars => ExactTrialAccounting'
  <2> DEFINE Exact == /\ state.half_open_in_flight
                            = Cardinality(InCall("live")) + leaked
                      /\ state.successes = trialSuccesses
  <2> SUFFICES ASSUME BreakerTypeOK, ExactTrialAccounting, [BreakerNext]_breakerVars,
                      state'.circuit = "HalfOpen", ~ strayed'
               PROVE  Exact'
    BY DEF ExactTrialAccounting
  <2>0. state.circuit = "HalfOpen" /\ ~ strayed => Exact
    BY DEF ExactTrialAccounting
  <2>1. ASSUME NEW c \in Callers, CanExecute(c)
        PROVE  Exact'
    <3>1. state' = AfterCanExecute(state)
      BY <2>1 DEF CanExecute
    <3>2. CASE state.circuit = "Open" /\ Admits(state)
      <4>1. InCall("live")' = {c} /\ leaked' = 0 /\ trialSuccesses' = 0
            /\ state'.half_open_in_flight = 1 /\ state'.successes = 0
        BY <2>1, <3>1, <3>2, CanExecuteEffect, CanExecuteCalls, Zenon
           DEF CanExecute, BreakerTypeOK
      <4>2. Cardinality({c}) = 1
        BY FS_Singleton
      <4>3. Cardinality(InCall("live")') = 1
        BY <4>1, <4>2
      <4>4. QED  BY <4>1, <4>3
    <3>3. CASE state.circuit = "HalfOpen" /\ Admits(state)
      <4>1. /\ InCall("live")' = InCall("live") \cup {c}
            /\ leaked' = leaked /\ trialSuccesses' = trialSuccesses
            /\ state'.half_open_in_flight = state.half_open_in_flight + 1
            /\ state'.successes = state.successes
            /\ c \notin InCall("live") /\ strayed' = strayed
        BY <2>1, <3>1, <3>3, CanExecuteEffect, CanExecuteCalls, Zenon
           DEF CanExecute, BreakerTypeOK
      <4>2. Cardinality(InCall("live")') = Cardinality(InCall("live")) + 1
        BY <4>1, InCallFinite, FS_AddElement
      <4>3. QED
        BY <2>0, <3>3, <4>1, <4>2, InCallFinite DEF BreakerTypeOK, State
    <3>4. CASE ~ Admits(state)
      <4>1. /\ state' = state /\ InCall("live")' = InCall("live")
            /\ UNCHANGED <<leaked, trialSuccesses, strayed>>
        BY <2>1, <3>1, <3>4, CanExecuteEffect, CanExecuteCalls, Zenon
           DEF CanExecute, BreakerTypeOK
      <4>2. QED  BY <2>0, <4>1
    <3>5. state.circuit # "Closed"
      BY <3>1, CanExecuteEffect DEF BreakerTypeOK
    <3>6. QED
      BY <3>2, <3>3, <3>4, <3>5 DEF BreakerTypeOK, State, CircuitState
  <2>2. ASSUME NEW c \in Callers, NEW success \in BOOLEAN,
               OnExecution(c, success)
        PROVE  Exact'
    <3>1. /\ state.circuit = "HalfOpen" /\ leaked' = leaked /\ success
          /\ state'.half_open_in_flight = Release(state.half_open_in_flight)
          /\ state'.successes = state.successes + 1
      BY <2>2, ReportEffect DEF OnExecution, BreakerTypeOK, Trip
    <3>2. ~ strayed /\ call[c] = "live"
      BY <2>2, <3>1, Zenon DEF OnExecution, BreakerTypeOK, CallState
    <3>3. /\ InCall("live")' = InCall("live") \ {c} /\ c \in InCall("live")
      BY <2>2, <3>1, <3>2, ReportCalls, Zenon DEF InCall
    <3>4. /\ Cardinality(InCall("live")') = Cardinality(InCall("live")) - 1
          /\ Cardinality(InCall("live")') \in Nat
      BY <3>3, InCallFinite, FS_RemoveElement, FS_CardinalityType
    <3>5. trialSuccesses' = trialSuccesses + 1
      BY <2>2, <3>1, <3>2 DEF OnExecution
    <3>6. QED
      BY <2>0, <3>1, <3>2, <3>4, <3>5, InCallFinite DEF Release, BreakerTypeOK, State
  <2>3. ASSUME NEW c \in Callers, Abandon(c)
        PROVE  Exact'
    <3>1. /\ state' = state /\ trialSuccesses' = trialSuccesses
          /\ strayed' = strayed
          /\ InCall("live")' = InCall("live") \ {c}
          /\ leaked' = IF c \in InCall("live") THEN leaked + 1 ELSE leaked
      BY <2>3, AbandonCalls, Zenon DEF Abandon, InCall
    <3>2. Cardinality(InCall("live")') =
            IF c \in InCall("live") THEN Cardinality(InCall("live")) - 1
                                    ELSE Cardinality(InCall("live"))
      BY <3>1, InCallFinite, FS_RemoveElement
    <3>3. QED
      BY <2>0, <3>1, <3>2, InCallFinite DEF BreakerTypeOK, State
  <2>4. CASE Elapse
    <3>1. /\ state'.circuit = state.circuit
          /\ state'.successes = state.successes
          /\ state'.half_open_in_flight = state.half_open_in_flight
          /\ InCall("live")' = InCall("live") /\ leaked' = leaked
          /\ trialSuccesses' = trialSuccesses /\ strayed' = strayed
      BY <2>4, TickEffect DEF Elapse, BreakerTypeOK, InCall
    <3>2. QED  BY <2>0, <3>1
  <2>5. CASE UNCHANGED breakerVars
    BY <2>0, <2>5 DEF breakerVars, InCall
  <2>6. QED  BY <2>4, <2>5, <2>3, <2>2, <2>1 DEF Report, BreakerNext
<1>3. QED  BY <1>1, <1>2, CountersInvariant, PTL DEF BreakerSpec

\* Until a stale call reports, never more concurrent trials than max_half_open
\* allows (breaker.rs:31).
THEOREM TrialLimit == BreakerSpec => []TrialsWithinMax
<1>1. BreakerTypeOK /\ CountersConsistent /\ ExactTrialAccounting => TrialsWithinMax
  BY InCallFinite, ConfigAssumption
     DEF BreakerTypeOK, State, CountersConsistent, Consistent, SlotsBounded,
         ExactTrialAccounting, TrialsWithinMax, AtLeastOne
<1>2. QED  BY <1>1, CountersInvariant, ExactAccounting, PTL

\* Unless a stale call reported, on_execution closes the circuit only after
\* success_threshold trials of the phase succeeded (breaker.rs:29).
THEOREM ClosingNeedsTrials == BreakerSpec => ClosesOnTrialSuccesses
<1>1. BreakerTypeOK /\ ExactTrialAccounting /\ [BreakerNext]_breakerVars
        => [state.circuit = "HalfOpen" /\ state'.circuit = "Closed" /\ ~ strayed'
              => trialSuccesses' >= success_threshold]_breakerVars
  <2> SUFFICES ASSUME BreakerTypeOK, ExactTrialAccounting, [BreakerNext]_breakerVars,
                      state.circuit = "HalfOpen", state'.circuit = "Closed",
                      ~ strayed'
               PROVE  trialSuccesses' >= success_threshold
    OBVIOUS
  <2>1. ASSUME NEW c \in Callers, CanExecute(c)
        PROVE  FALSE
    <3>1. state' = AfterCanExecute(state)
      BY <2>1 DEF CanExecute
    <3>2. QED  BY <3>1, CanExecuteEffect DEF BreakerTypeOK
  <2>2. ASSUME NEW c \in Callers, NEW success \in BOOLEAN,
               OnExecution(c, success)
        PROVE  trialSuccesses' >= success_threshold
    <3>1. success /\ state.successes + 1 >= success_threshold
      BY <2>2, ReportEffect DEF OnExecution, BreakerTypeOK, Trip
    <3>2. ~ strayed /\ call[c] = "live"
      BY <2>2, Zenon DEF OnExecution, BreakerTypeOK, CallState
    <3>3. trialSuccesses' = state.successes + 1
      BY <2>2, <3>1, <3>2 DEF OnExecution, ExactTrialAccounting
    <3>4. QED  BY <3>1, <3>3
  <2>3. ASSUME NEW c \in Callers, Abandon(c)
        PROVE  FALSE
    BY <2>3 DEF Abandon
  <2>4. CASE Elapse
    BY <2>4, TickEffect DEF Elapse, BreakerTypeOK
  <2>5. CASE UNCHANGED breakerVars
    BY <2>5 DEF breakerVars
  <2>6. QED  BY <2>4, <2>5, <2>3, <2>2, <2>1 DEF Report, BreakerNext
<1>2. QED
  BY <1>1, CountersInvariant, ExactAccounting, PTL
     DEF BreakerSpec, ClosesOnTrialSuccesses

\* The counters mean what the breaker takes them for, for any number of
\* callers and any configuration (breaker.rs:100-169).
THEOREM BreakerSafety == BreakerSpec => []BreakerSound
<1>1. /\ BreakerTypeOK /\ CountersConsistent /\ NoCallAdmittedWhileOpen
      /\ SlotsAreHeld /\ ExactTrialAccounting /\ TrialsWithinMax
      => BreakerSound
  BY DEF BreakerSound
<1>2. QED
  BY <1>1, CountersInvariant, OpenAdmitsNothing, SlotsHeld, ExactAccounting,
     TrialLimit, PTL

-----------------------------------------------------------------------------
(***************************************************************************)
(* The REST client's retries (RestClient).                                 *)
(***************************************************************************)
\* The powers of two are numbers that double.
LEMMA PowerDoubles ==
    ASSUME NEW n \in Nat
    PROVE  2^n \in Nat /\ 2^(n + 1) = 2^n + 2^n
<1> DEFINE S == 1 .. n
           T == 1 .. n + 1
           Q == {A \cup {n + 1} : A \in SUBSET S}
           f == [A \in SUBSET S |-> A \cup {n + 1}]
<1>1. IsFiniteSet(S) /\ Cardinality(S) = n /\ IsFiniteSet(T) /\ Cardinality(T) = n + 1
  BY FS_Interval
<1>2. IsFiniteSet(SUBSET S) /\ Cardinality(SUBSET S) = 2^n
  BY <1>1, FS_SUBSET, Zenon
<1>3. Cardinality(SUBSET T) = 2^(n + 1)
  BY <1>1, FS_SUBSET, Zenon
<1>4. n + 1 \notin S /\ T = S \cup {n + 1}
  OBVIOUS
<1> HIDE DEF S, T
<1>5. f \in Bijection(SUBSET S, Q)
  <2>1. f \in [SUBSET S -> Q]
    OBVIOUS
  <2>2. \A A, B \in SUBSET S : f[A] = f[B] => A = B
    BY <1>4
  <2>3. \A q \in Q : \E A \in SUBSET S : f[A] = q
    BY Zenon
  <2> HIDE DEF f, Q
  <2>4. f \in Injection(SUBSET S, Q)
    BY <2>1, <2>2 DEF Injection, IsInjective
  <2>5. f \in Surjection(SUBSET S, Q)
    BY <2>1, <2>3 DEF Surjection
  <2>6. QED  BY <2>4, <2>5 DEF Bijection
<1>6. SUBSET T = (SUBSET S) \cup Q /\ (SUBSET S) \cap Q = {}
  <2>1. ASSUME NEW B \in SUBSET T, B \notin SUBSET S
        PROVE  B \in Q
    <3>1. B \ {n + 1} \in SUBSET S /\ B = (B \ {n + 1}) \cup {n + 1}
      BY <1>4, <2>1
    <3>2. QED  BY <3>1, Zenon
  <2>2. Q \subseteq SUBSET T /\ SUBSET S \subseteq SUBSET T
    BY <1>4
  <2>3. \A B \in Q : n + 1 \in B
    OBVIOUS
  <2> HIDE DEF Q
  <2>4. QED  BY <1>4, <2>1, <2>2, <2>3
<1> HIDE DEF Q, f
<1>7. IsFiniteSet(Q) /\ Cardinality(Q) = 2^n
  <2>1. ExistsBijection(SUBSET S, Q)
    BY <1>5, Zenon DEF ExistsBijection
  <2>2. QED  BY <1>2, <2>1, FS_Bijection
<1>8. Cardinality((SUBSET S) \cap Q) = 0
  BY <1>6, FS_EmptySet
<1>9. Cardinality((SUBSET S) \cup Q) = 2^n + 2^n - 0
  BY <1>2, <1>7, <1>8, FS_Union, Zenon
<1>10. 2^n \in Nat
  BY <1>2, FS_CardinalityType
<1> DEFINE x == 2^n
           y == 2^(n + 1)
<1>11. y = x + x - 0 /\ x \in Nat
  BY <1>3, <1>6, <1>9, <1>10, Zenon
<1> HIDE DEF x, y
<1>12. x \in Nat /\ y = x + x
  BY <1>11
<1>13. QED  BY <1>12 DEF x, y

\* A product grows with its second factor.
LEMMA ProductGrows ==
    ASSUME NEW d \in Nat, NEW a \in Nat, NEW b \in Nat, a <= b
    PROVE  d * a \in Nat /\ d * b \in Nat /\ d * a <= d * b
<1>1. PICK k \in Nat : b = a + k
  <2>1. b - a \in Nat /\ b = a + (b - a)
    OBVIOUS
  <2>2. QED  BY <2>1
<1>2. \A x, y \in Nat : x * y \in Nat
  OBVIOUS
<1>3. d * b = d * a + d * k
  BY <1>1
<1>4. d * a \in Nat /\ d * b \in Nat /\ d * k \in Nat
  BY <1>2
<1>5. QED  BY <1>3, <1>4

\* A wait of a policy is a Duration, at most the cap, and the next one is not
\* shorter (clients/retry.rs:42).
LEMMA BackoffGrows ==
    ASSUME NEW p \in Calls, NEW n \in Nat
    PROVE  /\ BackoffFor(p, n) \in 0 .. MaxDuration
           /\ p.exponential /\ p.cap # NoCap => BackoffFor(p, n) <= p.cap
           /\ BackoffFor(p, n) <= BackoffFor(p, n + 1)
<1> DEFINE few == SaturatingPow2(n)
           many == SaturatingPow2(n + 1)
           now == SaturatingMul(p.wait, few)
           then == SaturatingMul(p.wait, many)
<1>1. p.wait \in 0 .. MaxDuration /\ p.cap \in (0 .. MaxDuration) \cup {NoCap}
  BY RetryAssumption, Zenon DEF Calls
<1>2. MaxDuration \in Nat /\ MaxU32 \in Nat
  BY RetryAssumption
<1>3. few \in Nat /\ many \in Nat /\ few <= many
  BY <1>2, PowerDoubles DEF SaturatingPow2, Smaller
<1> HIDE DEF few, many
<1>4. now \in 0 .. MaxDuration /\ then \in 0 .. MaxDuration /\ now <= then
  <2>1. p.wait * few \in Nat /\ p.wait * many \in Nat /\ p.wait * few <= p.wait * many
    BY <1>1, <1>2, <1>3, ProductGrows
  <2>2. QED  BY <1>2, <2>1 DEF SaturatingMul, Smaller
<1>5. /\ BackoffFor(p, n) = IF ~p.exponential THEN p.wait
                            ELSE IF p.cap # NoCap THEN Smaller(now, p.cap) ELSE now
      /\ BackoffFor(p, n + 1) = IF ~p.exponential THEN p.wait
                            ELSE IF p.cap # NoCap THEN Smaller(then, p.cap) ELSE then
  BY DEF BackoffFor, few, many
<1> HIDE DEF now, then
<1>6. QED  BY <1>1, <1>2, <1>4, <1>5 DEF Smaller

\* Without a cap the second wait is twice the first, or has saturated
\* (clients/retry.rs:42).
LEMMA BackoffDoubles ==
    ASSUME NEW p \in Calls, p.exponential, p.cap = NoCap
    PROVE  \/ BackoffFor(p, 1) = 2 * BackoffFor(p, 0)
           \/ BackoffFor(p, 1) >= Smaller(MaxDuration, MaxU32)
<1> DEFINE w == p.wait
<1>1. w \in 0 .. MaxDuration /\ MaxDuration \in Nat /\ MaxU32 \in Nat
  BY RetryAssumption, Zenon DEF Calls
<1>2. 2^0 = 1 /\ 2^1 = 2
  <2>1. 2^0 = 1
    OBVIOUS
  <2>2. 0 \in Nat /\ 2^(0 + 1) = 2^0 + 2^0
    BY PowerDoubles
  <2>3. QED  BY <2>1, <2>2
<1>3. /\ BackoffFor(p, 0) = Smaller(w * Smaller(1, MaxU32), MaxDuration)
      /\ BackoffFor(p, 1) = Smaller(w * Smaller(2, MaxU32), MaxDuration)
  BY <1>2 DEF BackoffFor, SaturatingMul, SaturatingPow2
<1> HIDE DEF w
<1>4. CASE MaxU32 >= 2
  <2>1. Smaller(1, MaxU32) = 1 /\ Smaller(2, MaxU32) = 2
    BY <1>1, <1>4 DEF Smaller
  <2>2. BackoffFor(p, 0) = w /\ BackoffFor(p, 1) = Smaller(w * 2, MaxDuration)
    BY <1>1, <1>3, <2>1 DEF Smaller
  <2>3. QED  BY <1>1, <2>2 DEF Smaller
<1>5. CASE MaxU32 = 1
  <2>1. BackoffFor(p, 1) = w
    BY <1>1, <1>3, <1>5 DEF Smaller
  <2>2. BackoffFor(p, 0) = w
    BY <1>1, <1>3, <1>5 DEF Smaller
  <2>3. QED  BY <1>1, <1>5, <2>1, <2>2 DEF Smaller
<1>6. CASE MaxU32 = 0
  <2>1. BackoffFor(p, 1) = 0 /\ BackoffFor(p, 0) = 0
    BY <1>1, <1>3, <1>6 DEF Smaller
  <2>2. QED  BY <2>1
<1>7. QED  BY <1>1, <1>4, <1>5, <1>6

\* The waits slept are those the policy gives for the attempts made, and only a
\* policy for an idempotent method has attempts.
CallInv ==
    /\ builder \in Calls
    /\ loop \in {"built", "executing", "done"}
    /\ attempt \in Nat /\ processed \in Nat
    /\ slept \in Seq(Nat) /\ Len(slept) = attempt
    /\ \A i \in 1 .. attempt : slept[i] = BackoffFor(builder, i - 1)
    /\ attempt > 0 => Retries
    /\ builder.method \notin Idempotent =>
          processed <= 1 /\ (loop # "done" => processed = 0)

\* However the transport fails, only idempotent requests are sent again, after
\* waits that grow up to their cap and saturate (rest/client/request.rs:92,
\* clients/retry.rs:42-92).
THEOREM CallsRetried == CallSpec => []RetriesBounded
<1>1. CallInit => CallInv
  BY DEF CallInit, CallInv
<1>2. CallInv /\ [CallNext]_callVars => CallInv'
  <2> SUFFICES ASSUME CallInv, [CallNext]_callVars PROVE CallInv'
    OBVIOUS
  <2>1. CASE Send
    BY <2>1 DEF Send, CallInv, Retries
  <2>2. CASE Responds
    BY <2>2 DEF Responds, CallInv, Retries
  <2>3. ASSUME NEW p \in {0, 1}, Breaks(p)
        PROVE  CallInv'
    <3>1. /\ loop = "executing" /\ processed' = processed + p /\ builder' = builder
          /\ p \in Nat
      BY <2>3 DEF Breaks
    <3>2. CASE Retries /\ attempt < MaxRetries
      <4> DEFINE w == BackoffFor(builder, attempt)
      <4>1. /\ slept' = Append(slept, w) /\ attempt' = attempt + 1
            /\ loop' = loop /\ outcome' = outcome
        BY <2>3, <3>2 DEF Breaks
      <4>2. w \in Nat
        BY BackoffGrows, RetryAssumption DEF CallInv
      <4>3. w = BackoffFor(builder', attempt' - 1)
        BY <3>1, <4>1 DEF CallInv
      <4> HIDE DEF w
      <4>4. /\ slept' \in Seq(Nat) /\ Len(slept') = attempt'
            /\ slept'[attempt + 1] = w /\ \A i \in 1 .. attempt : slept'[i] = slept[i]
        BY <4>1, <4>2 DEF CallInv
      <4>5. \A i \in 1 .. attempt' : slept'[i] = BackoffFor(builder', i - 1)
        <5>1. 1 .. attempt' = (1 .. attempt) \cup {attempt + 1}
          BY <4>1 DEF CallInv
        <5>2. QED  BY <3>1, <4>1, <4>3, <4>4, <5>1 DEF CallInv
      <4>6. builder.method \in Idempotent /\ Retries'
        BY <3>1, <3>2 DEF Retries
      <4>7. QED  BY <3>1, <4>1, <4>4, <4>5, <4>6 DEF CallInv
    <3>3. CASE ~(Retries /\ attempt < MaxRetries)
      BY <2>3, <3>1, <3>3 DEF Breaks, CallInv, Retries
    <3>4. QED  BY <3>2, <3>3
  <2>4. CASE Invalid
    BY <2>4 DEF Invalid, CallInv, Retries
  <2>5. CASE UNCHANGED callVars
    BY <2>5 DEF callVars, CallInv, Retries
  <2>6. QED  BY <2>1, <2>2, <2>3, <2>4, <2>5 DEF CallNext
<1>3. CallInv => RetriesBounded
  <2> SUFFICES ASSUME CallInv PROVE NotIdempotentOnce /\ BackoffSane
    BY DEF RetriesBounded
  <2>1. NotIdempotentOnce
    BY DEF NotIdempotentOnce, CallInv, Retries
  <2>2. ASSUME NEW i \in 1 .. Len(slept)
        PROVE  /\ slept[i] <= MaxDuration
               /\ builder.exponential /\ builder.cap # NoCap => slept[i] <= builder.cap
               /\ i > 1 => slept[i] >= slept[i - 1]
    <3>1. i \in 1 .. attempt /\ attempt \in Nat /\ i - 1 \in Nat /\ builder \in Calls
      BY DEF CallInv
    <3>2. slept[i] = BackoffFor(builder, i - 1)
      BY <3>1 DEF CallInv
    <3>3. /\ BackoffFor(builder, i - 1) \in 0 .. MaxDuration
          /\ builder.exponential /\ builder.cap # NoCap =>
                BackoffFor(builder, i - 1) <= builder.cap
      BY <3>1, BackoffGrows, Zenon
    <3>4. ASSUME i > 1
          PROVE  slept[i] >= slept[i - 1]
      <4>1. i - 1 \in 1 .. attempt /\ i - 2 \in Nat /\ (i - 2) + 1 = i - 1 /\ (i - 1) - 1 = i - 2
        BY <3>1, <3>4
      <4>2. slept[i - 1] = BackoffFor(builder, i - 2)
        BY <4>1 DEF CallInv
      <4>3. /\ BackoffFor(builder, i - 2) \in 0 .. MaxDuration
            /\ BackoffFor(builder, i - 2) <= BackoffFor(builder, i - 1)
        BY <3>1, <4>1, BackoffGrows, Zenon
      <4>4. QED  BY <3>2, <3>3, <4>2, <4>3, RetryAssumption
    <3>5. QED  BY <3>2, <3>3, <3>4, RetryAssumption
  <2>3. ASSUME builder.exponential, builder.cap = NoCap, Len(slept) > 1
        PROVE  slept[2] = 2 * slept[1] \/ slept[2] >= Smaller(MaxDuration, MaxU32)
    <3>1. slept[1] = BackoffFor(builder, 0) /\ slept[2] = BackoffFor(builder, 1)
      <4>1. 1 \in 1 .. attempt /\ 2 \in 1 .. attempt
        BY <2>3 DEF CallInv
      <4>2. QED  BY <4>1 DEF CallInv
    <3>2. QED  BY <2>3, <3>1, BackoffDoubles DEF CallInv
  <2>4. QED  BY <2>1, <2>2, <2>3 DEF BackoffSane
<1>4. QED  BY <1>1, <1>2, <1>3, PTL DEF CallSpec

-----------------------------------------------------------------------------
(***************************************************************************)
(* Downloads that resume (RestClient).                                     *)
(***************************************************************************)
\* A byte, by the version of the resource it is of and its place there.
Byte == Nat \X Nat

\* The bytes on disk are in their places, and what a body under way still
\* brings continues them.
DlInv ==
    /\ version \in Nat /\ mixed \in BOOLEAN
    /\ file \in Seq(Byte) /\ Len(file) <= Size
    /\ \A i \in 1 .. Len(file) : file[i][2] = i /\ (~mixed => file[i][1] = version)
    /\ transfer \in [at : {"idle", "asked", "reading"}, existing : Nat, body : Seq(Byte)]
    /\ transfer.at = "asked" => transfer.existing = Len(file)
    /\ transfer.at = "reading" =>
         /\ Len(file) + Len(transfer.body) = Size
         /\ \A i \in 1 .. Len(transfer.body) :
               /\ transfer.body[i][2] = Len(file) + i
               /\ ~mixed => transfer.body[i][1] = version
    /\ returned \in [ok : BOOLEAN, total : Nat]
    /\ returned.ok => transfer.at = "idle" /\ returned.total = Len(file)

\* The resource of a version, as a sequence of bytes in their places.
LEMMA ResourceBytes ==
    ASSUME NEW v \in Nat
    PROVE  /\ Resource(v) \in Seq(Byte) /\ Len(Resource(v)) = Size
           /\ \A i \in 1 .. Size : Resource(v)[i] = <<v, i>>
                                   /\ Resource(v)[i][1] = v /\ Resource(v)[i][2] = i
<1>1. Size \in Nat
  BY DownloadAssumption
<1>2. \A i \in 1 .. Size : <<v, i>> \in Byte
  BY <1>1 DEF Byte
<1>3. \A i \in 1 .. Size : Resource(v)[i] = <<v, i>>
  BY DEF Resource
<1>4. Resource(v) \in [1 .. Size -> Byte]
  BY <1>2 DEF Resource
<1>5. QED  BY <1>1, <1>3, <1>4

\* A sequence cut after its n-th element.
LEMMA SplitAt ==
    ASSUME NEW S, NEW s \in Seq(S), NEW n \in 1 .. Len(s)
    PROVE  /\ SubSeq(s, 1, n) \in Seq(S) /\ Len(SubSeq(s, 1, n)) = n
           /\ \A i \in 1 .. n : SubSeq(s, 1, n)[i] = s[i]
           /\ SubSeq(s, n + 1, Len(s)) \in Seq(S)
           /\ Len(SubSeq(s, n + 1, Len(s))) = Len(s) - n
           /\ \A i \in 1 .. Len(s) - n : SubSeq(s, n + 1, Len(s))[i] = s[i + n]
<1>1. /\ SubSeq(s, 1, n) \in Seq(S) /\ Len(SubSeq(s, 1, n)) = n
      /\ \A i \in 1 .. n : SubSeq(s, 1, n)[i] = s[i]
  OBVIOUS
<1>2. SubSeq(s, n + 1, Len(s)) \in Seq(S)
  OBVIOUS
<1>3. Len(SubSeq(s, n + 1, Len(s))) = Len(s) - n
  OBVIOUS
<1>4. ASSUME NEW i \in 1 .. Len(s) - n
      PROVE  SubSeq(s, n + 1, Len(s))[i] = s[i + n]
  <2>1. /\ n + 1 \in Nat /\ i \in 1 .. (Len(s) - (n + 1) + 1)
        /\ n + 1 + i - 1 = i + n
    OBVIOUS
  <2>2. SubSeq(s, n + 1, Len(s))[i] = s[n + 1 + i - 1]
    BY <2>1
  <2>3. QED  BY <2>1, <2>2
<1>5. QED  BY <1>1, <1>2, <1>3, <1>4

\* A chunk moves bytes from the body to the file (http/download.rs:71-79).
LEMMA ChunkMoves ==
    ASSUME DlInv, NEW n, Chunk(n)
    PROVE  DlInv'
<1> DEFINE body == transfer.body
           k == Len(file)
           m == Len(body)
<1>1. /\ transfer.at = "reading" /\ n \in 1 .. m
      /\ file' = file \o SubSeq(body, 1, n)
      /\ transfer' = [transfer EXCEPT !.body = SubSeq(body, n + 1, m)]
      /\ version' = version /\ returned' = returned /\ mixed' = mixed
  BY DEF Chunk
<1>2. /\ file \in Seq(Byte) /\ body \in Seq(Byte) /\ k \in Nat /\ m \in Nat /\ k + m = Size
      /\ n \in Nat
  BY <1>1 DEF DlInv
<1> DEFINE head == SubSeq(body, 1, n)
           tail == SubSeq(body, n + 1, m)
<1>3. /\ head \in Seq(Byte) /\ Len(head) = n
      /\ \A i \in 1 .. n : head[i] = body[i]
      /\ tail \in Seq(Byte) /\ Len(tail) = m - n
      /\ \A i \in 1 .. m - n : tail[i] = body[i + n]
  <2>1. body \in Seq(Byte) /\ n \in 1 .. Len(body)
    BY <1>1, <1>2
  <2> HIDE DEF body
  <2>2. QED  BY <2>1, SplitAt
<1> HIDE DEF head, tail
<1>5. /\ file' \in Seq(Byte) /\ Len(file') = k + n
      /\ \A i \in 1 .. k : file'[i] = file[i]
      /\ \A i \in k + 1 .. k + n : file'[i] = head[i - k]
  <2>1. file \in Seq(Byte) /\ head \in Seq(Byte) /\ Len(head) = n /\ n \in Nat
    BY <1>2, <1>3
  <2>2. file' = file \o head
    BY <1>1 DEF head
  <2>3. QED  BY <2>1, <2>2
<1>6. /\ transfer'.at = "reading" /\ transfer'.existing = transfer.existing
      /\ transfer'.body = tail
      /\ transfer' \in [at : {"idle", "asked", "reading"}, existing : Nat, body : Seq(Byte)]
  BY <1>1, <1>3, Zenon DEF DlInv, tail
<1> HIDE DEF body, k, m
<1>7. \A i \in 1 .. m : body[i][2] = k + i /\ (~mixed => body[i][1] = version)
  BY <1>1 DEF DlInv, body, k, m
<1>8. ASSUME NEW i \in 1 .. k + n
      PROVE  file'[i][2] = i /\ (~mixed => file'[i][1] = version)
  <2>1. CASE i \in 1 .. k
    BY <1>5, <2>1 DEF DlInv, k
  <2>2. CASE i \in k + 1 .. k + n
    <3>1. i - k \in 1 .. n /\ i - k \in 1 .. m
      BY <1>1, <1>2, <2>2
    <3>2. file'[i] = body[i - k]
      BY <1>3, <1>5, <2>2, <3>1
    <3>3. body[i - k][2] = k + (i - k) /\ k + (i - k) = i
      BY <1>2, <1>7, <3>1
    <3>4. QED  BY <1>7, <3>1, <3>2, <3>3
  <2>3. QED  BY <1>2, <2>1, <2>2
<1>9. ASSUME NEW i \in 1 .. m - n
      PROVE  tail[i][2] = k + n + i /\ (~mixed => tail[i][1] = version)
  <2>1. i + n \in 1 .. m
    BY <1>1, <1>2, SMTT(30), Zenon
  <2>2. tail[i] = body[i + n]
    BY <1>3
  <2>3. body[i + n][2] = k + (i + n) /\ k + (i + n) = k + n + i
    BY <1>2, <1>7, <2>1
  <2>4. QED  BY <1>7, <2>1, <2>2, <2>3
<1>10. Len(file') + Len(tail) = Size /\ Len(file') <= Size
  <2>1. n <= m /\ Len(file') = k + n /\ Len(tail) = m - n
    BY <1>1, <1>3, <1>5
  <2>2. (k + n) + (m - n) = Size /\ k + n <= Size
    BY <1>2, <2>1
  <2>3. QED  BY <2>1, <2>2
<1>11. /\ version' \in Nat /\ mixed' \in BOOLEAN /\ returned' \in [ok : BOOLEAN, total : Nat]
       /\ ~returned'.ok
  BY <1>1 DEF DlInv
<1>12. \A i \in 1 .. Len(file') : file'[i][2] = i /\ (~mixed' => file'[i][1] = version')
  BY <1>1, <1>5, <1>8
<1>13. \A i \in 1 .. Len(transfer'.body) :
          /\ transfer'.body[i][2] = Len(file') + i
          /\ ~mixed' => transfer'.body[i][1] = version'
  BY <1>1, <1>3, <1>5, <1>6, <1>9, ZenonT(60)
<1>14. QED  BY <1>5, <1>6, <1>10, <1>11, <1>12, <1>13 DEF DlInv

\* However often a download is cut off, refused, broken off by a crash and
\* called again, and whenever the resource is replaced, the file holds the
\* bytes of the resource in their places, and the total returned is its length
\* (http/download.rs:45-82).
THEOREM DownloadsResumed == DlSpec => []DownloadResumes
<1>1. DlInit => DlInv
  <2> SUFFICES ASSUME DlInit PROVE DlInv
    OBVIOUS
  <2>1. Size \in Nat
    BY DownloadAssumption
  <2>2. file = <<>> /\ transfer = [at |-> "idle", existing |-> 0, body |-> <<>>]
        /\ returned = [ok |-> FALSE, total |-> 0] /\ version = 1 /\ mixed = FALSE
    BY DEF DlInit, Idle0, NoResult
  <2>3. /\ <<>> \in Seq(Byte) /\ Len(<<>>) = 0 /\ 1 .. 0 = {} /\ 0 \in Nat /\ 1 \in Nat
        /\ 0 <= Size
    BY <2>1
  <2>4. /\ transfer \in [at : {"idle", "asked", "reading"}, existing : Nat, body : Seq(Byte)]
        /\ transfer.at = "idle"
    BY <2>2, <2>3
  <2>5. returned \in [ok : BOOLEAN, total : Nat] /\ ~returned.ok
    BY <2>2, <2>3
  <2>6. QED  BY <2>2, <2>3, <2>4, <2>5, Zenon DEF DlInv
<1>2. DlInv /\ [DlNext]_dlVars => DlInv'
  <2> SUFFICES ASSUME DlInv, [DlNext]_dlVars PROVE DlInv'
    OBVIOUS
  <2>0. Size \in Nat /\ Len(file) \in Nat
    BY DownloadAssumption DEF DlInv
  <2>1. CASE Call
    <3>1. /\ transfer' = [at |-> "asked", existing |-> Len(file), body |-> <<>>]
          /\ returned' = [ok |-> FALSE, total |-> 0]
          /\ file' = file /\ version' = version /\ mixed' = mixed
      BY <2>1 DEF Call, NoResult
    <3>2. QED  BY <2>0, <3>1, SMTT(30), Zenon DEF DlInv
  <2>2. CASE Partial
    <3> DEFINE whole == Resource(version)
               body == SubSeq(whole, transfer.existing + 1, Size)
               k == Len(file)
    <3>1. /\ transfer.at = "asked" /\ transfer.existing = k /\ k \in 1 .. Size - 1
          /\ transfer' = [transfer EXCEPT !.at = "reading", !.body = body]
          /\ file' = file /\ version' = version /\ returned' = returned /\ mixed' = mixed
      BY <2>2 DEF Partial, Reads, DlInv
    <3>2. /\ whole \in Seq(Byte) /\ Len(whole) = Size
          /\ \A i \in 1 .. Size : whole[i][1] = version /\ whole[i][2] = i
      BY ResourceBytes DEF DlInv
    <3> HIDE DEF whole
    <3>3. /\ body \in Seq(Byte) /\ Len(body) = Size - k
          /\ \A i \in 1 .. Size - k : body[i] = whole[k + i]
      BY <2>0, <3>1, <3>2, SMTT(30), Zenon
    <3> HIDE DEF body
    <3>4. /\ transfer'.at = "reading" /\ transfer'.body = body
          /\ transfer' \in [at : {"idle", "asked", "reading"}, existing : Nat, body : Seq(Byte)]
      BY <3>1, <3>3, Zenon DEF DlInv
    <3>5. \A i \in 1 .. Size - k : body[i][2] = k + i /\ body[i][1] = version
      <4>1. \A i \in 1 .. Size - k : k + i \in 1 .. Size
        BY <2>0
      <4>2. QED  BY <3>2, <3>3, <4>1
    <3>6. k + (Size - k) = Size
      BY <2>0
    <3>7. QED  BY <3>1, <3>3, <3>4, <3>5, <3>6, Zenon DEF DlInv
  <2>3. CASE Whole
    <3> DEFINE whole == Resource(version)
    <3>1. /\ transfer.at = "asked"
          /\ transfer' = [transfer EXCEPT !.at = "reading", !.body = whole]
          /\ file' = <<>> /\ version' = version /\ returned' = returned /\ mixed' = FALSE
      BY <2>3 DEF Whole, Reads
    <3>2. /\ whole \in Seq(Byte) /\ Len(whole) = Size
          /\ \A i \in 1 .. Size : whole[i][1] = version /\ whole[i][2] = i
      BY ResourceBytes DEF DlInv
    <3> HIDE DEF whole
    <3>3. /\ transfer'.at = "reading" /\ transfer'.body = whole
          /\ transfer' \in [at : {"idle", "asked", "reading"}, existing : Nat, body : Seq(Byte)]
      BY <3>1, <3>2, Zenon DEF DlInv
    <3>4. /\ file' \in Seq(Byte) /\ Len(file') = 0 /\ 0 + Size = Size
          /\ \A i \in 1 .. Size : 0 + i = i
      BY <2>0, <3>1
    <3>5. /\ \A i \in 1 .. Len(file') : FALSE
          /\ Len(file') <= Size /\ Len(file') + Len(transfer'.body) = Size
      BY <2>0, <3>2, <3>3, <3>4
    <3>6. \A i \in 1 .. Len(transfer'.body) :
             /\ transfer'.body[i][2] = Len(file') + i
             /\ transfer'.body[i][1] = version'
      BY <3>1, <3>2, <3>3, <3>4
    <3>7. QED  BY <3>1, <3>3, <3>4, <3>5, <3>6, Zenon DEF DlInv
  <2>4. CASE Unsatisfiable
    <3>1. /\ transfer.at = "asked" /\ transfer.existing = Len(file)
          /\ transfer' = [at |-> "idle", existing |-> 0, body |-> <<>>]
          /\ returned' = [ok |-> TRUE, total |-> Len(file)]
          /\ file' = file /\ version' = version /\ mixed' = mixed
      BY <2>4, Zenon DEF Unsatisfiable, Idle0, DlInv
    <3>2. QED  BY <2>0, <3>1, SMTT(30), Zenon DEF DlInv
  <2>5. CASE BodyEnds \/ CutOff
    <3>1. /\ transfer' = [at |-> "idle", existing |-> 0, body |-> <<>>]
          /\ returned' = [ok |-> TRUE, total |-> Len(file)]
          /\ file' = file /\ version' = version /\ mixed' = mixed
      BY <2>5 DEF BodyEnds, CutOff, Idle0
    <3>2. QED  BY <2>0, <3>1, SMTT(30), Zenon DEF DlInv
  <2>6. CASE Refused \/ Broken
    <3>1. /\ transfer.at # "idle"
          /\ transfer' = [at |-> "idle", existing |-> 0, body |-> <<>>]
          /\ file' = file /\ version' = version /\ mixed' = mixed /\ returned' = returned
      BY <2>6 DEF Refused, Broken, Idle0
    <3>2. QED  BY <2>0, <3>1, SMTT(30), Zenon DEF DlInv
  <2>7. CASE Replace
    <3>1. /\ version' = version + 1 /\ file' = file /\ transfer' = transfer
          /\ returned' = returned
          /\ mixed' = (mixed \/ file # <<>> \/ transfer.at = "reading")
      BY <2>7 DEF Replace
    <3>2. mixed' \in BOOLEAN /\ version' \in Nat
      BY <3>1 DEF DlInv
    <3>3. ~mixed' => Len(file) = 0 /\ transfer.at # "reading" /\ ~mixed
      BY <3>1, Zenon DEF DlInv
    <3>4. QED  BY <3>1, <3>2, <3>3 DEF DlInv
  <2>8. ASSUME NEW n \in 1 .. Size, Chunk(n)
        PROVE  DlInv'
    BY <2>8, ChunkMoves, SMTT(30), Zenon
  <2>9. CASE UNCHANGED dlVars
    BY <2>9 DEF dlVars, DlInv
  <2>10. QED
    BY <2>1, <2>2, <2>3, <2>4, <2>5, <2>6, <2>7, <2>8, <2>9 DEF DlNext
<1>3. DlInv => DownloadResumes
  <2> SUFFICES ASSUME DlInv PROVE DownloadResumes
    OBVIOUS
  <2>1. ASSUME NEW i \in 1 .. Len(file)
        PROVE  /\ file[i][2] = i
               /\ ~mixed => i <= Size /\ file[i] = Resource(version)[i]
    <3>1. /\ file[i] \in Byte /\ file[i][2] = i /\ (~mixed => file[i][1] = version)
          /\ i \in 1 .. Size
      BY DownloadAssumption DEF DlInv
    <3>2. file[i] = <<file[i][1], file[i][2]>>
      BY <3>1 DEF Byte
    <3>3. Resource(version)[i] = <<version, i>>
      BY <3>1 DEF Resource
    <3>4. QED  BY <3>1, <3>2, <3>3
  <2>2. FileIsPrefix
    BY <2>1 DEF FileIsPrefix
  <2>3. TotalOnDisk
    BY DEF TotalOnDisk, DlInv
  <2>4. QED  BY <2>2, <2>3 DEF DownloadResumes
<1>4. QED  BY <1>1, <1>2, <1>3, PTL DEF DlSpec
=============================================================================
