------------------------- MODULE ModelRouterProofs -------------------------
(***************************************************************************)
(* Proofs about ModelRouter, for every set of models, tasks, rules,        *)
(* registries and requests, and every breaker configuration.               *)
(***************************************************************************)
EXTENDS ModelRouter, BreakerStateProofs, FiniteSetTheorems, WellFoundedInduction

\* The breakers are well typed and each is consistent.
BreakersInv == breaker \in [Models -> State] /\ BreakersConsistent

\* What a step of the router may do to one breaker.
BreakerStep(m) ==
    \/ breaker'[m] = breaker[m]
    \/ breaker'[m] = AfterCanExecute(breaker[m])
    \/ \E success \in BOOLEAN : breaker'[m] = AfterReport(breaker[m], success)
    \/ breaker'[m] = Tick(breaker[m])

\* The router touches a breaker only through its critical sections, at most
\* once in a step (default_router.rs:131-170, 205-219).
LEMMA OnlyCriticalSections ==
    ASSUME breaker \in [Models -> State], [Next]_vars
    PROVE  /\ breaker' = [m \in Models |-> breaker'[m]]
           /\ \A m \in Models : BreakerStep(m)
<1> USE DEF BreakerStep
<1>1. CASE UNCHANGED breaker
  BY <1>1
<1>2. ASSUME NEW n,
             breaker' = [breaker EXCEPT ![n] = AfterCanExecute(@)]
      PROVE  /\ breaker' = [m \in Models |-> breaker'[m]]
             /\ \A m \in Models : BreakerStep(m)
  BY <1>2, Zenon
<1>3. ASSUME NEW n, NEW success \in BOOLEAN,
             breaker' = [breaker EXCEPT ![n] = AfterReport(@, success)]
      PROVE  /\ breaker' = [m \in Models |-> breaker'[m]]
             /\ \A m \in Models : BreakerStep(m)
  BY <1>3, Zenon
<1>4. CASE Elapse
  BY <1>4 DEF Elapse
<1>5. ASSUME NEW r \in Requests, Proceed(r)
      PROVE  /\ breaker' = [m \in Models |-> breaker'[m]]
             /\ \A m \in Models : BreakerStep(m)
  <2>1. CASE Execute(r) \/ Exhausted(r) \/ TooLate(r)
    BY <1>1, <2>1 DEF Execute, Exhausted, TooLate
  <2>2. CASE Skip(r) \/ Call(r)
    <3>1. \/ UNCHANGED breaker
          \/ breaker' = [breaker EXCEPT ![Candidate(request[r])] = AfterCanExecute(@)]
      BY <2>2 DEF Skip, Call
    <3>2. QED  BY <1>1, <1>2, <3>1
  <2>3. CASE TimeOut(r)
    <3>1. \/ UNCHANGED breaker
          \/ breaker' = [breaker EXCEPT ![Candidate(request[r])] = AfterReport(@, FALSE)]
      BY <2>3, Zenon DEF TimeOut, Report
    <3>2. QED  BY <1>1, <1>3, <3>1, Zenon
  <2>4. QED  BY <1>5, <2>1, <2>2, <2>3 DEF Proceed
<1>6. ASSUME NEW r \in Requests, NEW outcome, Answer(r, outcome)
      PROVE  /\ breaker' = [m \in Models |-> breaker'[m]]
             /\ \A m \in Models : BreakerStep(m)
  <2>1. breaker' = [breaker EXCEPT ![Candidate(request[r])]
                                      = AfterReport(@, outcome = "ok")]
    BY <1>6 DEF Answer, Report
  <2>2. (outcome = "ok") \in BOOLEAN
    OBVIOUS
  <2>3. QED  BY <1>3, <2>1, <2>2, Zenon
<1>7. ASSUME NEW r \in Requests,
             \/ \E t \in Tasks, stream \in BOOLEAN : Route(r, t, stream)
             \/ RetryCall(r) \/ Drop(r) \/ Deadline(r) \/ Reload
      PROVE  UNCHANGED breaker
  BY <1>7, Zenon DEF Route, RetryCall, Drop, Deadline, Reload
<1>8. CASE Reload \/ UNCHANGED vars
  BY <1>1, <1>8 DEF Reload, vars
<1>9. QED  BY <1>1, <1>4, <1>5, <1>6, <1>7, <1>8 DEF Next

\* So their consistency carries over from step to step.
LEMMA BreakersStep == BreakersInv /\ [Next]_vars => BreakersInv'
<1> SUFFICES ASSUME BreakersInv, [Next]_vars
             PROVE  BreakersInv'
  OBVIOUS
<1>1. ASSUME NEW m \in Models
      PROVE  breaker'[m] \in State /\ Consistent(breaker'[m])
  <2>1. breaker[m] \in State /\ Consistent(breaker[m])
    BY DEF BreakersInv, BreakersConsistent
  <2>2. BreakerStep(m)
    BY OnlyCriticalSections DEF BreakersInv
  <2>3. QED
    BY <2>1, <2>2, CanExecuteConsistent, ReportConsistent, TickConsistent
       DEF BreakerStep
<1>2. breaker' = [m \in Models |-> breaker'[m]]
  BY OnlyCriticalSections DEF BreakersInv
<1>3. QED  BY <1>1, <1>2 DEF BreakersInv, BreakersConsistent

\* However requests, reloads, timeouts and cancellations interleave, every
\* model's breaker keeps its counters within its thresholds
\* (default_router.rs:65-76, 125-219).
THEOREM RouterBreakers == Spec => []BreakersConsistent
<1>1. Init => BreakersInv
  BY NewConsistent DEF Init, BreakersInv, BreakersConsistent
<1>2. BreakersInv /\ [Next]_vars => BreakersInv'
  BY BreakersStep
<1>3. BreakersInv => BreakersConsistent
  BY DEF BreakersInv
<1>4. QED  BY <1>1, <1>2, <1>3, PTL DEF Spec

-----------------------------------------------------------------------------
(***************************************************************************)
(* How the calls under way change.                                         *)
(***************************************************************************)
\* The local state of every request has the fields the argument reads.
Fields ==
    /\ request = [r \in Requests |-> request[r]]
    /\ \A r \in Requests : {"phase", "plan", "next"} \subseteq DOMAIN request[r]

\* Request r begins to call its candidate.
Enters(r) ==
    /\ request[r].phase # "calling"
    /\ request'[r].phase = "calling"
    /\ Candidate(request'[r]) = Candidate(request[r])

\* Request r has an answer, or gives up on one.
Leaves(r) == request[r].phase = "calling" /\ request'[r].phase # "calling"

\* Request r calls whom it called before, or nobody before and after.
Stays(r) ==
    \/ request[r].phase # "calling" /\ request'[r].phase # "calling"
    \/ /\ request[r].phase = "calling" /\ request'[r].phase = "calling"
       /\ Candidate(request'[r]) = Candidate(request[r])

\* A step replaces the local state of one request only (execute is a future
\* of its own for every request, default_router.rs:115).
LEMMA UpdateFields ==
    ASSUME Fields, NEW r \in Requests, NEW q, Update(r, q),
           {"phase", "plan", "next"} \subseteq DOMAIN q
    PROVE  /\ Fields'
           /\ request'[r] = q
           /\ \A s \in Requests \ {r} : request'[s] = request[s]
BY DEF Fields, Update

\* Call begins a call and keeps the rest of the plan.
LEMMA CallEnters ==
    ASSUME Fields, NEW r \in Requests, Call(r)
    PROVE  Fields' /\ Enters(r) /\ \A s \in Requests \ {r} : request'[s] = request[s]
<1> DEFINE q == request[r]
           p == [q EXCEPT !.phase = "calling", !.attempt = 0,
                          !.tried = @ + 1, !.calls = @ + 1,
                          !.called = Append(@, Candidate(q)),
                          !.max_tokens = Clamp(MaxTokens, Candidate(q), Registry[q.reg])]
<1>1. Update(r, p) /\ q.phase = "attempting"
  BY DEF Call, MayAttempt
<1>2. {"phase", "plan", "next"} \subseteq DOMAIN q
  BY DEF Fields
<1>3. /\ {"phase", "plan", "next"} \subseteq DOMAIN p
      /\ p.phase = "calling" /\ p.plan = q.plan /\ p.next = q.next
  BY <1>2
<1> HIDE DEF p
<1>4. QED  BY <1>1, <1>3, UpdateFields DEF Enters, Candidate

\* An answer, a timeout and a dropped future each end a call.
LEMMA CallLeaves ==
    ASSUME Fields, NEW r \in Requests,
           \/ \E outcome \in {"ok", "transient", "permanent"} : Answer(r, outcome)
           \/ TimeOut(r) \/ Drop(r)
    PROVE  Fields' /\ Leaves(r) /\ \A s \in Requests \ {r} : request'[s] = request[s]
<1> DEFINE q == request[r]
<1>1. {"phase", "plan", "next"} \subseteq DOMAIN q
  BY DEF Fields
<1>2. ASSUME NEW p, Update(r, p), {"phase", "plan", "next"} \subseteq DOMAIN p,
             q.phase = "calling", p.phase # "calling"
      PROVE  Fields' /\ Leaves(r) /\ \A s \in Requests \ {r} : request'[s] = request[s]
  BY <1>2, UpdateFields DEF Leaves
<1>3. CASE TimeOut(r) \/ Drop(r)
  <2>1. PICK result \in {"DeadlineExceeded", "dropped"} : Update(r, Ended(q, result))
    BY <1>3, Zenon DEF TimeOut, Drop
  <2>2. {"phase", "plan", "next"} \subseteq DOMAIN Ended(q, result)
        /\ Ended(q, result).phase = "done"
    BY <1>1 DEF Ended
  <2>3. QED  BY <1>2, <1>3, <2>1, <2>2, Zenon DEF TimeOut, Drop
<1>4. CASE Answer(r, "ok")
  <2>1. {"phase", "plan", "next"} \subseteq DOMAIN Ended(q, "Ok")
        /\ Ended(q, "Ok").phase = "done"
    BY <1>1 DEF Ended
  <2>2. Update(r, Ended(q, "Ok"))
    BY <1>4 DEF Answer
  <2>3. QED  BY <1>2, <1>4, <2>1, <2>2 DEF Answer
<1>5. CASE Answer(r, "permanent")
  <2> DEFINE p == Ended([q EXCEPT !.failed = TRUE], "GenAi")
  <2>1. {"phase", "plan", "next"} \subseteq DOMAIN p /\ p.phase = "done"
    BY <1>1 DEF Ended
  <2>2. Update(r, p)
    BY <1>5 DEF Answer
  <2> HIDE DEF p
  <2>3. QED  BY <1>2, <1>5, <2>1, <2>2 DEF Answer
<1>6. CASE Answer(r, "transient")
  <2> DEFINE p == [q EXCEPT !.phase = "attempting", !.failed = TRUE, !.next = @ + 1]
  <2>1. {"phase", "plan", "next"} \subseteq DOMAIN p /\ p.phase = "attempting"
    BY <1>1
  <2>2. Update(r, p)
    BY <1>6 DEF Answer
  <2> HIDE DEF p
  <2>3. QED  BY <1>2, <1>6, <2>1, <2>2 DEF Answer
<1>7. QED  BY <1>3, <1>4, <1>5, <1>6

\* Every other step of a request leaves the calls under way as they are.
LEMMA CallStays ==
    ASSUME Fields, NEW r \in Requests,
           \/ \E t \in Tasks, stream \in BOOLEAN : Route(r, t, stream)
           \/ Execute(r) \/ Exhausted(r) \/ TooLate(r) \/ Skip(r)
           \/ RetryCall(r) \/ Deadline(r)
    PROVE  Fields' /\ Stays(r) /\ \A s \in Requests \ {r} : request'[s] = request[s]
<1> DEFINE q == request[r]
           Goal == Fields' /\ Stays(r)
                   /\ \A s \in Requests \ {r} : request'[s] = request[s]
<1>1. {"phase", "plan", "next"} \subseteq DOMAIN q
  BY DEF Fields
<1>2. ASSUME NEW p, Update(r, p), {"phase", "plan", "next"} \subseteq DOMAIN p,
             \/ q.phase # "calling" /\ p.phase # "calling"
             \/ p.phase = q.phase /\ p.plan = q.plan /\ p.next = q.next
      PROVE  Goal
  BY <1>2, UpdateFields DEF Stays, Candidate
<1>3. ASSUME NEW t \in Tasks, NEW stream \in BOOLEAN, Route(r, t, stream)
      PROVE  Goal
  <2> DEFINE new == [Idle EXCEPT !.stream = stream, !.task = t, !.start = registry,
                                 !.plan = Plan(t, Registry[registry])]
             p == IF new.plan = <<>> THEN Ended(new, "NoRoute")
                  ELSE [new EXCEPT !.phase = "planned"]
  <2>1. Update(r, p) /\ q.phase = "idle"
    BY <1>3, Zenon DEF Route
  <2>2. {"phase", "plan", "next"} \subseteq DOMAIN new
    BY DEF Idle
  <2> HIDE DEF new
  <2>3. {"phase", "plan", "next"} \subseteq DOMAIN p /\ p.phase \in {"done", "planned"}
    BY <2>2 DEF Ended
  <2> HIDE DEF p
  <2>4. QED  BY <1>2, <2>1, <2>3
<1>4. CASE Exhausted(r) \/ TooLate(r)
  <2>1. PICK result \in Result : Update(r, Ended(q, result))
    BY <1>4 DEF Exhausted, TooLate, Result
  <2>2. {"phase", "plan", "next"} \subseteq DOMAIN Ended(q, result)
        /\ Ended(q, result).phase = "done"
    BY <1>1 DEF Ended
  <2>3. QED  BY <1>2, <1>4, <2>1, <2>2 DEF Exhausted, TooLate
<1>5. CASE Execute(r)
  <2> DEFINE p == [q EXCEPT !.phase = "attempting", !.reg = registry]
  <2>1. Update(r, p) /\ q.phase = "planned"
    BY <1>5 DEF Execute
  <2>2. {"phase", "plan", "next"} \subseteq DOMAIN p /\ p.phase = "attempting"
    BY <1>1
  <2> HIDE DEF p
  <2>3. QED  BY <1>2, <2>1, <2>2
<1>6. CASE Skip(r)
  <2> DEFINE p == [q EXCEPT !.next = @ + 1]
  <2>1. Update(r, p) /\ q.phase = "attempting"
    BY <1>6 DEF Skip, MayAttempt
  <2>2. {"phase", "plan", "next"} \subseteq DOMAIN p /\ p.phase = q.phase
    BY <1>1
  <2> HIDE DEF p
  <2>3. QED  BY <1>2, <2>1, <2>2
<1>7. CASE RetryCall(r)
  <2> DEFINE p == [q EXCEPT !.attempt = @ + 1, !.calls = @ + 1]
  <2>1. Update(r, p)
    BY <1>7 DEF RetryCall
  <2>2. /\ {"phase", "plan", "next"} \subseteq DOMAIN p
        /\ p.phase = q.phase /\ p.plan = q.plan /\ p.next = q.next
    BY <1>1
  <2> HIDE DEF p
  <2>3. QED  BY <1>2, <2>1, <2>2
<1>8. CASE Deadline(r)
  <2> DEFINE p == [q EXCEPT !.late = TRUE]
  <2>1. Update(r, p)
    BY <1>8 DEF Deadline
  <2>2. /\ {"phase", "plan", "next"} \subseteq DOMAIN p
        /\ p.phase = q.phase /\ p.plan = q.plan /\ p.next = q.next
    BY <1>1
  <2> HIDE DEF p
  <2>3. QED  BY <1>2, <2>1, <2>2
<1>9. QED  BY <1>3, <1>4, <1>5, <1>6, <1>7, <1>8

\* The calls to a model as sets: one joins, one leaves, or none does.
LEMMA CallsToStep ==
    ASSUME Fields, Fields', NEW r \in Requests, NEW m,
           \A s \in Requests \ {r} : request'[s] = request[s]
    PROVE  /\ Enters(r) =>
                /\ r \notin CallsTo(m)
                /\ CallsTo(m)' = IF Candidate(request[r]) = m
                                  THEN CallsTo(m) \cup {r} ELSE CallsTo(m)
           /\ Leaves(r) => CallsTo(m)' = CallsTo(m) \ {r}
           /\ Stays(r) => CallsTo(m)' = CallsTo(m)
BY DEF CallsTo, Enters, Leaves, Stays, Candidate

\* The numbers among the constants: how many registries there are, the fallback
\* depth and the limits on retries and tokens.
LEMMA Sizes ==
    /\ Len(Overlays) \in Nat \ {0} /\ DOMAIN Overlays = 1 .. Len(Overlays)
    /\ fallback_depth \in Nat /\ max_retries \in Nat /\ MaxTokens \in Nat
BY RouterAssumption, PlanAssumption, Zenon

\* There are finitely many calls to a model.
LEMMA CallsToFinite ==
    ASSUME NEW m
    PROVE  IsFiniteSet(CallsTo(m)) /\ Cardinality(CallsTo(m)) \in Nat
<1>1. CallsTo(m) \subseteq Requests
  BY DEF CallsTo
<1>2. QED  BY <1>1, RouterAssumption, FS_Subset, FS_CardinalityType

-----------------------------------------------------------------------------
\* The half-open slots of model m's breaker are covered by calls and losses.
Covered(m) ==
    breaker[m].circuit = "HalfOpen" =>
        breaker[m].half_open_in_flight <= lost[m] + Cardinality(CallsTo(m))

SlotsInv == BreakersInv /\ Fields /\ lost \in [Models -> Nat] /\ SlotsBelongToCalls

\* A call that is admitted covers the slot it takes (default_router.rs:131-144).
LEMMA CallCovers ==
    ASSUME SlotsInv, NEW r \in Requests, Call(r), NEW m \in Models
    PROVE  Covered(m)'
<1> DEFINE n == Candidate(request[r])
<1>1. /\ Admits(breaker[n]) /\ lost' = lost
      /\ breaker' = [breaker EXCEPT ![n] = AfterCanExecute(@)]
  BY DEF Call
<1>2. /\ r \notin CallsTo(m)
      /\ CallsTo(m)' = IF n = m THEN CallsTo(m) \cup {r} ELSE CallsTo(m)
  BY CallEnters, CallsToStep DEF SlotsInv
<1>3. Covered(m) /\ breaker[m] \in State /\ lost[m] \in Nat
  BY DEF SlotsInv, SlotsBelongToCalls, Covered, BreakersInv
<1> HIDE DEF n
<1>4. CASE n # m
  BY <1>1, <1>2, <1>3, <1>4 DEF Covered, SlotsInv, BreakersInv
<1>5. CASE n = m
  <2>1. Cardinality(CallsTo(m)') = Cardinality(CallsTo(m)) + 1
    BY <1>2, <1>5, CallsToFinite, FS_AddElement, Zenon
  <2>2. breaker'[m] = AfterCanExecute(breaker[m]) /\ lost'[m] = lost[m]
    BY <1>1, <1>5 DEF SlotsInv, BreakersInv
  <2>3. QED
    BY <1>1, <1>3, <1>5, <2>1, <2>2, CanExecuteEffect, CallsToFinite
       DEF Covered, State
<1>6. QED  BY <1>4, <1>5

\* A call that ends gives its slot back, or is counted as lost
\* (default_router.rs:145-170, 205-219).
LEMMA EndCovers ==
    ASSUME SlotsInv, NEW r \in Requests,
           \/ \E outcome \in {"ok", "transient", "permanent"} : Answer(r, outcome)
           \/ TimeOut(r) \/ Drop(r),
           NEW m \in Models
    PROVE  Covered(m)'
<1> DEFINE n == Candidate(request[r])
<1>1. request[r].phase = "calling" /\ CallsTo(m)' = CallsTo(m) \ {r}
  BY CallLeaves, CallsToStep DEF SlotsInv, Leaves
<1>2. r \in CallsTo(m) <=> n = m
  BY <1>1 DEF CallsTo
<1>3. Covered(m) /\ breaker[m] \in State /\ lost[m] \in Nat
  BY DEF SlotsInv, SlotsBelongToCalls, Covered, BreakersInv
<1>4. \/ /\ \E success \in BOOLEAN :
               breaker' = [breaker EXCEPT ![n] = AfterReport(@, success)]
         /\ lost' = lost
      \/ /\ breaker' = breaker
         /\ lost' = [lost EXCEPT ![n] = @ + 1]
  <2>1. ASSUME NEW outcome, Answer(r, outcome)
        PROVE  /\ breaker' = [breaker EXCEPT ![n] = AfterReport(@, outcome = "ok")]
               /\ (outcome = "ok") \in BOOLEAN /\ lost' = lost
    BY <2>1 DEF Answer, Report
  <2>2. CASE TimeOut(r)
    BY <2>2, Zenon DEF TimeOut, Report
  <2>3. CASE Drop(r)
    BY <2>3 DEF Drop
  <2>4. QED  BY <2>1, <2>2, <2>3, Zenon
<1> HIDE DEF n
<1>5. CASE n # m
  <2>1. CallsTo(m)' = CallsTo(m)
    BY <1>1, <1>2, <1>5
  <2>2. breaker'[m] = breaker[m] /\ lost'[m] = lost[m]
    BY <1>4, <1>5 DEF SlotsInv, BreakersInv
  <2>3. QED  BY <1>3, <2>1, <2>2 DEF Covered
<1>6. CASE n = m
  <2>1. Cardinality(CallsTo(m)') = Cardinality(CallsTo(m)) - 1
    BY <1>1, <1>2, <1>6, CallsToFinite, FS_RemoveElement, Zenon
  <2>2. Cardinality(CallsTo(m)) \in Nat /\ Cardinality(CallsTo(m)') \in Nat
    <3>1. IsFiniteSet(CallsTo(m)')
      BY <1>1, CallsToFinite, FS_RemoveElement
    <3>2. QED  BY <3>1, CallsToFinite, FS_CardinalityType
  <2>3. CASE breaker' = breaker /\ lost' = [lost EXCEPT ![n] = @ + 1]
    <3>1. lost'[m] = lost[m] + 1
      BY <1>6, <2>3 DEF SlotsInv
    <3>2. QED
      BY <1>3, <2>1, <2>2, <2>3, <3>1 DEF Covered, State
  <2>4. ASSUME NEW success \in BOOLEAN, lost' = lost,
               breaker' = [breaker EXCEPT ![n] = AfterReport(@, success)]
        PROVE  Covered(m)'
    <3>1. breaker'[m] = AfterReport(breaker[m], success)
      BY <1>6, <2>4 DEF SlotsInv, BreakersInv
    <3>2. breaker'[m].circuit = "HalfOpen" =>
            /\ breaker[m].circuit = "HalfOpen"
            /\ breaker'[m].half_open_in_flight
                 = Release(breaker[m].half_open_in_flight)
      BY <1>3, <3>1, ReportEffect DEF Trip
    <3>3. QED
      BY <1>3, <2>1, <2>2, <2>4, <3>2 DEF Covered, State, Release
  <2>5. QED  BY <1>4, <2>3, <2>4
<1>7. QED  BY <1>5, <1>6

\* Every other step leaves slots, losses and calls alone.
LEMMA RestCovers ==
    ASSUME SlotsInv, NEW m \in Models, CallsTo(m)' = CallsTo(m), lost' = lost,
           \/ breaker'[m] = breaker[m]
           \/ breaker'[m] = Tick(breaker[m])
           \/ ~Admits(breaker[m]) /\ breaker'[m] = AfterCanExecute(breaker[m])
    PROVE  Covered(m)'
<1>1. Covered(m) /\ breaker[m] \in State
  BY DEF SlotsInv, SlotsBelongToCalls, Covered, BreakersInv
<1>2. /\ breaker'[m].circuit = breaker[m].circuit
      /\ breaker'[m].half_open_in_flight = breaker[m].half_open_in_flight
  BY <1>1, TickEffect, CanExecuteEffect
<1>3. QED  BY <1>1, <1>2 DEF Covered

\* The slots and what covers them, as an inductive invariant.
LEMMA SlotsInvariant == Spec => []SlotsInv
<1>1. Init => SlotsInv
  <2> SUFFICES ASSUME Init PROVE SlotsInv
    OBVIOUS
  <2>1. BreakersInv
    BY NewConsistent DEF Init, BreakersInv, BreakersConsistent
  <2>2. Fields
    BY DEF Init, Fields, Idle
  <2>3. SlotsBelongToCalls
    BY DEF Init, SlotsBelongToCalls, New
  <2>4. QED  BY <2>1, <2>2, <2>3 DEF Init, SlotsInv
<1>2. SlotsInv /\ [Next]_vars => Fields' /\ lost' \in [Models -> Nat]
                                   /\ SlotsBelongToCalls'
  <2> SUFFICES ASSUME SlotsInv, [Next]_vars
               PROVE  /\ Fields' /\ lost' \in [Models -> Nat]
                      /\ \A m \in Models : Covered(m)'
    BY DEF Covered, SlotsBelongToCalls
  <2> DEFINE Goal == /\ Fields' /\ lost' \in [Models -> Nat]
                     /\ \A m \in Models : Covered(m)'
  <2>1. ASSUME NEW r \in Requests, Call(r)
        PROVE  Goal
    BY <2>1, CallEnters, CallCovers, Zenon DEF SlotsInv, Call
  <2>2. ASSUME NEW r \in Requests,
               \/ \E outcome \in {"ok", "transient", "permanent"} : Answer(r, outcome)
               \/ TimeOut(r) \/ Drop(r)
        PROVE  Goal
    <3>1. \/ lost' = lost
          \/ lost' = [lost EXCEPT ![Candidate(request[r])] = @ + 1]
      BY <2>2, Zenon DEF Answer, TimeOut, Drop
    <3>2. lost' \in [Models -> Nat]
      BY <3>1 DEF SlotsInv
    <3>3. QED  BY <2>2, <3>2, CallLeaves, EndCovers DEF SlotsInv
  <2>3. ASSUME NEW r \in Requests,
               \/ \E t \in Tasks, stream \in BOOLEAN : Route(r, t, stream)
               \/ Execute(r) \/ Exhausted(r) \/ TooLate(r) \/ Skip(r)
               \/ RetryCall(r) \/ Deadline(r)
        PROVE  Goal
    <3>1. Fields' /\ \A m \in Models : CallsTo(m)' = CallsTo(m)
      BY <2>3, CallStays, CallsToStep DEF SlotsInv
    <3>2. lost' = lost
      BY <2>3, Zenon DEF Route, Execute, Exhausted, TooLate, Skip, RetryCall, Deadline
    <3>3. ASSUME NEW m \in Models
          PROVE  \/ breaker'[m] = breaker[m]
                 \/ ~Admits(breaker[m]) /\ breaker'[m] = AfterCanExecute(breaker[m])
      <4>1. CASE Skip(r)
        BY <4>1 DEF Skip, SlotsInv, BreakersInv
      <4>2. CASE ~Skip(r)
        BY <2>3, <4>2, Zenon DEF Route, Execute, Exhausted, TooLate, RetryCall, Deadline
      <4>3. QED  BY <4>1, <4>2
    <3>4. QED  BY <3>1, <3>2, <3>3, RestCovers, Zenon DEF SlotsInv
  <2>4. CASE Reload \/ Elapse \/ UNCHANGED vars
    <3>1. request' = request /\ lost' = lost
      BY <2>4 DEF Reload, Elapse, vars
    <3>2. Fields' /\ \A m \in Models : CallsTo(m)' = CallsTo(m)
      BY <3>1 DEF SlotsInv, Fields, CallsTo
    <3>3. \A m \in Models : breaker'[m] = breaker[m] \/ breaker'[m] = Tick(breaker[m])
      BY <2>4 DEF Reload, Elapse, vars
    <3>4. QED  BY <3>1, <3>2, <3>3, RestCovers DEF SlotsInv
  <2>5. QED  BY <2>1, <2>2, <2>3, <2>4 DEF Next, Proceed
<1>3. BreakersInv /\ [Next]_vars => BreakersInv'
  BY BreakersStep
<1>4. SlotsInv /\ [Next]_vars => SlotsInv'
  BY <1>2, <1>3 DEF SlotsInv
<1>5. QED  BY <1>1, <1>4, PTL DEF Spec

\* A trial slot of a half-open breaker always belongs to a call in progress or
\* to one whose report was lost with its future: no other way through the
\* attempt loop keeps a slot (default_router.rs:125-219).
THEOREM RouterSlots == Spec => []SlotsBelongToCalls
<1>1. SlotsInv => SlotsBelongToCalls
  BY DEF SlotsInv
<1>2. QED  BY <1>1, SlotsInvariant, PTL

\* The router's breakers are consistent and their slots accounted for, for any
\* models, requests and overlays (default_router.rs:125-219).
THEOREM RouterSafety == Spec => []BreakersSound
<1>1. BreakersConsistent /\ SlotsBelongToCalls => BreakersSound
  BY DEF BreakersSound
<1>2. QED  BY <1>1, RouterBreakers, RouterSlots, PTL

-----------------------------------------------------------------------------
(***************************************************************************)
(* The registry, the rankings and the plans cut from them.                 *)
(***************************************************************************)
\* above[x] are the elements before x in a strict order of S.
OrderOf(S, above) ==
    /\ above \in [S -> SUBSET S]
    /\ \A x \in S : x \notin above[x]
    /\ \A x, y \in S : x # y => x \in above[y] \/ y \in above[x]
    /\ \A x, y \in S : x \in above[y] => above[x] \subseteq above[y]

\* An element that comes later has more before it.
LEMMA MoreAbove ==
    ASSUME NEW S, IsFiniteSet(S), NEW above, OrderOf(S, above),
           NEW x \in S, NEW y \in S, x \in above[y]
    PROVE  /\ Cardinality(above[x]) \in Nat /\ Cardinality(above[y]) \in Nat
           /\ Cardinality(above[x]) < Cardinality(above[y])
<1>1. above[x] \in SUBSET S /\ above[y] \in SUBSET S /\ x \notin above[x]
  BY DEF OrderOf
<1>2. IsFiniteSet(above[x]) /\ IsFiniteSet(above[y])
  BY <1>1, FS_Subset
<1>3. above[x] \cup {x} \in SUBSET above[y]
  BY DEF OrderOf
<1>4. Cardinality(above[x] \cup {x}) = Cardinality(above[x]) + 1
  BY <1>1, <1>2, FS_AddElement, Zenon
<1>5. Cardinality(above[x] \cup {x}) <= Cardinality(above[y])
  BY <1>2, <1>3, FS_Subset
<1>6. Cardinality(above[x]) \in Nat /\ Cardinality(above[y]) \in Nat
  BY <1>2, FS_CardinalityType
<1>7. QED  BY <1>4, <1>5, <1>6

\* Sorted lists every element once, the ones before it first (sort_by of
\* strategy_capability.rs:49-56, the filtered rules of strategy.rs:91).
LEMMA SortedCorrect ==
    ASSUME NEW S, IsFiniteSet(S), NEW above, OrderOf(S, above)
    PROVE  /\ Cardinality(S) \in Nat
           /\ Sorted(S, above) \in Bijection(1 .. Cardinality(S), S)
           /\ \A i, j \in 1 .. Cardinality(S) :
                 i < j => Sorted(S, above)[i] \in above[Sorted(S, above)[j]]
<1> DEFINE n == Cardinality(S)
           place == [x \in S |-> Cardinality(above[x]) + 1]
           s == Sorted(S, above)
<1>1. n \in Nat
  BY FS_CardinalityType
<1>2. ASSUME NEW x \in S
      PROVE  Cardinality(above[x]) \in Nat /\ place[x] \in 1 .. n
  <2>1. above[x] \in SUBSET (S \ {x})
    BY DEF OrderOf
  <2>2. IsFiniteSet(S \ {x}) /\ Cardinality(S \ {x}) = n - 1
    BY FS_RemoveElement
  <2>3. IsFiniteSet(above[x]) /\ Cardinality(above[x]) <= n - 1
    BY <2>1, <2>2, FS_Subset
  <2>4. Cardinality(above[x]) \in Nat
    BY <2>3, FS_CardinalityType
  <2>5. QED  BY <1>1, <2>3, <2>4
<1>3. ASSUME NEW x \in S, NEW y \in S, x # y
      PROVE  place[x] # place[y]
  <2>1. CASE x \in above[y]
    <3>1. Cardinality(above[x]) < Cardinality(above[y])
      BY <2>1, MoreAbove
    <3>2. QED  BY <1>2, <3>1
  <2>2. CASE y \in above[x]
    <3>1. Cardinality(above[y]) < Cardinality(above[x])
      BY <2>2, MoreAbove
    <3>2. QED  BY <1>2, <3>1
  <2>3. QED  BY <1>3, <2>1, <2>2 DEF OrderOf
<1>4. place \in [S -> 1 .. n]
  BY <1>2
<1>5. place \in Injection(S, 1 .. n)
  <2> HIDE DEF place
  <2>1. QED  BY <1>3, <1>4 DEF Injection, IsInjective
<1>6. IsFiniteSet(1 .. n) /\ Cardinality(1 .. n) = n
  BY <1>1, FS_Interval
<1>7. place \in Surjection(S, 1 .. n)
  <2> HIDE DEF place, n
  <2>1. Cardinality(S) = Cardinality(1 .. n)
    BY <1>6 DEF n
  <2>2. QED  BY <1>5, <1>6, <2>1, FS_Injection
<1>8. ASSUME NEW i \in 1 .. n
      PROVE  s[i] \in S /\ Cardinality(above[s[i]]) = i - 1
  <2>1. PICK x \in S : place[x] = i
    <3> HIDE DEF place, n
    <3>1. QED  BY <1>7 DEF Surjection
  <2>2. Cardinality(above[x]) = i - 1
    BY <1>1, <1>2, <2>1
  <2>3. s[i] = CHOOSE y \in S : Cardinality(above[y]) = i - 1
    BY DEF Sorted
  <2> HIDE DEF s
  <2>4. QED  BY <2>2, <2>3
<1>9. s = [i \in 1 .. n |-> s[i]]
  BY DEF Sorted
<1> HIDE DEF s
<1>10. s \in Injection(1 .. n, S)
  <2>1. s \in [1 .. n -> S]
    BY <1>8, <1>9
  <2>2. ASSUME NEW i \in 1 .. n, NEW j \in 1 .. n, s[i] = s[j]
        PROVE  i = j
    BY <1>1, <1>8, <2>2
  <2>3. QED  BY <2>1, <2>2 DEF Injection, IsInjective
<1>11. s \in Surjection(1 .. n, S)
  <2> HIDE DEF n
  <2>1. Cardinality(S) = Cardinality(1 .. n)
    BY <1>6 DEF n
  <2>2. QED  BY <1>10, <1>6, <2>1, FS_Injection, SMTT(30), Zenon
<1>12. ASSUME NEW i \in 1 .. n, NEW j \in 1 .. n, i < j
       PROVE  s[i] \in above[s[j]]
  <2>1. s[i] # s[j]
    BY <1>1, <1>8, <1>12
  <2>2. CASE s[j] \in above[s[i]]
    <3>1. Cardinality(above[s[j]]) < Cardinality(above[s[i]])
      BY <1>8, <2>2, MoreAbove
    <3>2. QED  BY <1>1, <1>8, <1>12, <3>1
  <2>3. QED  BY <1>8, <2>1, <2>2 DEF OrderOf
<1>13. s \in Bijection(1 .. n, S)
  BY <1>10, <1>11 DEF Bijection
<1>14. QED  BY <1>1, <1>12, <1>13 DEF s

\* The number a set of numbers begins with.
LEMMA LeastIndex ==
    ASSUME NEW I \in SUBSET Nat, I # {}
    PROVE  \E i \in I : \A j \in I : i <= j
<1>1. PICK i \in I : \A j \in I : <<j, i>> \notin OpToRel(<, Nat)
  BY NatLessThanWellFounded, WFMin, Zenon
<1>2. \A j \in I : ~(j < i)
  BY <1>1, Zenon DEF OpToRel
<1>3. QED  BY <1>2

\* What the operators rely on in a registry.
Typed(reg) == DOMAIN reg \subseteq Models /\ \A m \in DOMAIN reg : reg[m] \in ModelInfo

\* What the configuration declines stays out of the registry, but for custom
\* models (registry.rs:58-89).
LEMMA RegistryHonest ==
    ASSUME NEW i \in DOMAIN Overlays
    PROVE  /\ Typed(Registry[i])
           /\ \A m \in DOMAIN Registry[i] \ DOMAIN Overlays[i].custom_models :
                /\ m \notin Overlays[i].disabled_models
                /\ m \in DOMAIN Overlays[i].disabled_capabilities =>
                      Registry[i][m].capabilities
                        \cap Overlays[i].disabled_capabilities[m] = {}
<1> DEFINE cfg == Overlays[i]
           priced == Priced(Catalog, cfg)
           stripped == Stripped(priced, cfg)
           kept == Without(stripped, cfg)
<1>1. /\ DOMAIN cfg.custom_models \subseteq Models
      /\ \A m \in DOMAIN cfg.custom_models : cfg.custom_models[m] \in ModelInfo
      /\ \A m \in DOMAIN cfg.cost_overrides : cfg.cost_overrides[m] \in Cost
  BY RouterAssumption
<1>2. Registry[i] = WithCustom(kept, cfg)
  BY DEF Registry, BuildRegistry
<1> HIDE DEF cfg
<1>3. Typed(priced)
  <2>1. DOMAIN priced = DOMAIN Catalog
    BY DEF Priced
  <2>2. ASSUME NEW m \in DOMAIN Catalog
        PROVE  priced[m] \in ModelInfo
    <3>1. Catalog[m] \in ModelInfo
      BY PlanAssumption
    <3>2. priced[m] = IF m \in DOMAIN cfg.cost_overrides
                      THEN [Catalog[m] EXCEPT !.cost = cfg.cost_overrides[m]] ELSE Catalog[m]
      BY DEF Priced
    <3>3. QED  BY <1>1, <3>1, <3>2 DEF ModelInfo
  <2> HIDE DEF priced
  <2>3. QED  BY <2>1, <2>2, PlanAssumption DEF Typed
<1> HIDE DEF priced
<1>4. /\ Typed(stripped)
      /\ \A m \in DOMAIN stripped : m \in DOMAIN cfg.disabled_capabilities =>
            stripped[m].capabilities \cap cfg.disabled_capabilities[m] = {}
  <2>1. DOMAIN stripped = DOMAIN priced
    BY DEF Stripped
  <2>2. ASSUME NEW m \in DOMAIN priced
        PROVE  /\ stripped[m] \in ModelInfo
               /\ m \in DOMAIN cfg.disabled_capabilities =>
                    stripped[m].capabilities \cap cfg.disabled_capabilities[m] = {}
    <3>1. priced[m] \in ModelInfo
      BY <1>3 DEF Typed
    <3>2. stripped[m] = IF m \in DOMAIN cfg.disabled_capabilities
                        THEN [priced[m] EXCEPT !.capabilities
                                = priced[m].capabilities \ cfg.disabled_capabilities[m]]
                        ELSE priced[m]
      BY DEF Stripped
    <3>3. QED  BY <3>1, <3>2 DEF ModelInfo
  <2> HIDE DEF stripped
  <2>3. QED  BY <1>3, <2>1, <2>2 DEF Typed
<1> HIDE DEF stripped
<1>5. /\ DOMAIN kept = DOMAIN stripped \ cfg.disabled_models
      /\ \A m \in DOMAIN kept : kept[m] = stripped[m]
  BY DEF Without
<1> HIDE DEF kept
<1>6. /\ DOMAIN Registry[i] = DOMAIN kept \cup DOMAIN cfg.custom_models
      /\ \A m \in DOMAIN Registry[i] :
            Registry[i][m] = IF m \in DOMAIN cfg.custom_models
                             THEN cfg.custom_models[m] ELSE kept[m]
  BY <1>2 DEF WithCustom
<1>7. Typed(Registry[i])
  BY <1>1, <1>4, <1>5, <1>6 DEF Typed
<1>8. QED  BY <1>4, <1>5, <1>6, <1>7 DEF cfg

\* Scores are numbers.
LEMMA ScoreType ==
    ASSUME NEW info \in ModelInfo, NEW t \in Tasks
    PROVE  Score(info, t) \in Int
<1>1. /\ t.est_input_tokens \in Nat /\ t.est_output_tokens \in Nat
      /\ t.priority \in {"Cost", "Speed", "Quality"}
  BY RouterAssumption
<1>2. info.max_input_tokens \in Nat /\ info.cost.input \in Int /\ info.cost.output \in Int
  BY DEF ModelInfo, Cost
<1>3. DefaultOutput(t.kind) \in Nat
  BY DEF DefaultOutput
<1>4. EstCost(info, t) \in Int
  <2> DEFINE out == IF t.est_output_tokens > 0 THEN t.est_output_tokens
                    ELSE DefaultOutput(t.kind)
  <2>1. out \in Int
    BY <1>1, <1>3
  <2>2. EstCost(info, t) = t.est_input_tokens * info.cost.input + out * info.cost.output
    BY DEF EstCost
  <2> HIDE DEF out
  <2>3. QED  BY <1>1, <1>2, <2>1, <2>2
<1>5. QED  BY <1>1, <1>2, <1>4 DEF Score

\* The models that a task's requirements leave.
Fit(t, reg) == {m \in DOMAIN reg : ~Rejected(reg[m], t)}

\* The capability strategy ranks exactly the models that satisfy the task, each
\* once, a better one before a worse one (strategy_capability.rs:21-62).
THEOREM RankingCorrect ==
    ASSUME NEW t \in Tasks, NEW reg, Typed(reg)
    PROVE  LET ranked == CapabilityRank(t, reg)
               n == Cardinality(Fit(t, reg))
           IN  /\ n \in Nat
               /\ ranked \in Bijection(1 .. n, Fit(t, reg))
               /\ \A i, j \in 1 .. n : i < j => Better(ranked[i], ranked[j], t, reg)
<1> DEFINE fit == Fit(t, reg)
           above == [m \in fit |-> {n \in fit : Better(n, m, t, reg)}]
<1>1. fit \subseteq Models /\ fit \subseteq DOMAIN reg
  BY DEF Typed, Fit
<1>2. IsFiniteSet(fit)
  BY <1>1, FS_Subset, PlanAssumption
<1>3. \A m \in fit : Score(reg[m], t) \in Int /\ m \in Nat
  BY <1>1, ScoreType, PlanAssumption, Zenon DEF Typed
<1> HIDE DEF fit
<1>4. OrderOf(fit, above)
  <2>1. above \in [fit -> SUBSET fit]
    OBVIOUS
  <2>2. \A x \in fit : x \notin above[x]
    BY <1>3 DEF Better
  <2>3. ASSUME NEW x \in fit, NEW y \in fit, x # y
        PROVE  x \in above[y] \/ y \in above[x]
    BY <1>3, <2>3 DEF Better
  <2>4. ASSUME NEW x \in fit, NEW y \in fit, x \in above[y]
        PROVE  above[x] \subseteq above[y]
    BY <1>3, <2>4 DEF Better
  <2> HIDE DEF above
  <2>5. QED  BY <2>1, <2>2, <2>3, <2>4 DEF OrderOf
<1>5. CapabilityRank(t, reg) = Sorted(fit, above)
  BY DEF CapabilityRank, fit, Fit
<1>6. ASSUME NEW x \in fit, NEW y \in fit, x \in above[y]
      PROVE  Better(x, y, t, reg)
  BY <1>6
<1> HIDE DEF above
<1>7. /\ Cardinality(fit) \in Nat
      /\ Sorted(fit, above) \in Bijection(1 .. Cardinality(fit), fit)
      /\ \A i, j \in 1 .. Cardinality(fit) :
             i < j => Sorted(fit, above)[i] \in above[Sorted(fit, above)[j]]
  BY <1>2, <1>4, SortedCorrect
<1>8. \A i \in 1 .. Cardinality(fit) : Sorted(fit, above)[i] \in fit
  BY <1>7 DEF Bijection, Injection
<1>9. QED  BY <1>5, <1>6, <1>7, <1>8 DEF fit

\* The rule-based strategy lists models (strategy.rs:88-110).
LEMMA RuleRankType ==
    ASSUME NEW t \in Tasks
    PROVE  RuleRank(t) \in Seq(Models)
<1> DEFINE matching == {i \in DOMAIN Rules : Rules[i].kind = t.kind /\ t.kind # NoKind}
           above == [i \in matching |-> {j \in matching : j < i}]
           order == Sorted(matching, above)
           models == [i \in DOMAIN order |-> Rules[order[i]].model]
           last == IF DefaultModel = NoModel THEN <<>> ELSE <<DefaultModel>>
<1>1. matching \subseteq 1 .. Len(Rules) /\ Len(Rules) \in Nat
  BY PlanAssumption
<1>2. IsFiniteSet(matching)
  BY <1>1, FS_Interval, FS_Subset
<1>3. \A i \in matching : Rules[i].model \in Models
  BY PlanAssumption
<1>4. RuleRank(t) = models \o last
  BY DEF RuleRank
<1> HIDE DEF matching
<1>5. OrderOf(matching, above)
  <2>1. \A i \in matching : i \in Nat
    BY <1>1
  <2>2. above \in [matching -> SUBSET matching]
    OBVIOUS
  <2>3. \A i, j \in matching : i \in above[j] <=> i < j
    OBVIOUS
  <2> HIDE DEF above
  <2>4. \A i, j \in matching : i \in above[j] => above[i] \subseteq above[j]
    BY <2>1, <2>2, <2>3, SMTT(30), Zenon
  <2>5. QED  BY <2>1, <2>2, <2>3, <2>4 DEF OrderOf
<1> HIDE DEF above
<1>6. Cardinality(matching) \in Nat /\ order \in Bijection(1 .. Cardinality(matching), matching)
  BY <1>2, <1>5, SortedCorrect
<1> HIDE DEF order
<1>7. order \in [1 .. Cardinality(matching) -> matching]
  BY <1>6 DEF Bijection, Injection
<1>8. models \in Seq(Models)
  BY <1>3, <1>6, <1>7
<1>9. last \in Seq(Models)
  BY PlanAssumption
<1> HIDE DEF models, last
<1>10. QED  BY <1>4, <1>8, <1>9

\* A ranking lists models; without a rule or a default for the task it lists
\* models that satisfy the task (strategy_composite.rs:27-35).
LEMMA RankHonest ==
    ASSUME NEW t \in Tasks, NEW reg, Typed(reg)
    PROVE  /\ Rank(t, reg) \in Seq(Models)
           /\ RuleRank(t) = <<>> =>
                \A k \in DOMAIN Rank(t, reg) : Rank(t, reg)[k] \in Fit(t, reg)
<1> DEFINE ranked == CapabilityRank(t, reg)
           n == Cardinality(Fit(t, reg))
           voting == {i \in DOMAIN Strategy : RankBy(Strategy[i], t, reg) # <<>>}
           first == CHOOSE i \in voting : \A j \in voting : i <= j
<1>1. n \in Nat /\ ranked \in [1 .. n -> Fit(t, reg)]
  <2>1. n \in Nat /\ ranked \in Bijection(1 .. n, Fit(t, reg))
    BY RankingCorrect
  <2>2. QED  BY <2>1 DEF Bijection, Injection
<1>2. Fit(t, reg) \subseteq Models
  BY DEF Fit, Typed
<1> HIDE DEF ranked, n
<1>3. ranked \in Seq(Models) /\ \A k \in DOMAIN ranked : ranked[k] \in Fit(t, reg)
  BY <1>1, <1>2
<1>4. Rank(t, reg) = IF voting = {} THEN <<>> ELSE RankBy(Strategy[first], t, reg)
  BY DEF Rank
<1>5. ASSUME voting # {}
      PROVE  first \in voting
  <2>1. voting \in SUBSET Nat
    BY PlanAssumption
  <2> HIDE DEF voting
  <2>2. \E i \in voting : \A j \in voting : i <= j
    BY <1>5, <2>1, LeastIndex
  <2>3. QED  BY <2>2
<1>6. CASE voting = {}
  <2>1. Rank(t, reg) = <<>>
    BY <1>4, <1>6
  <2>2. QED  BY <2>1
<1>7. CASE voting # {}
  <2>1. Rank(t, reg) = RankBy(Strategy[first], t, reg) /\ Rank(t, reg) # <<>>
    BY <1>4, <1>5, <1>7
  <2> HIDE DEF first, voting
  <2>2. CASE Strategy[first] = "rule_based"
    BY <2>1, <2>2, RuleRankType DEF RankBy
  <2>3. CASE Strategy[first] # "rule_based"
    BY <1>3, <2>1, <2>3 DEF RankBy, ranked
  <2>4. QED  BY <2>2, <2>3
<1>8. QED  BY <1>6, <1>7

\* A plan is the beginning of the ranking, no longer than fallback_depth
\* allows (default_router.rs:246-311).
LEMMA PlanHonest ==
    ASSUME NEW t \in Tasks, NEW reg, Typed(reg)
    PROVE  /\ Ranked(t, reg) \in Seq(Models)
           /\ Plan(t, reg) \in Seq(Models)
           /\ Len(Plan(t, reg)) <= 1 + fallback_depth
           /\ \A i \in 1 .. Len(Plan(t, reg)) :
                i \in DOMAIN Ranked(t, reg) /\ Plan(t, reg)[i] = Ranked(t, reg)[i]
<1> DEFINE ranked == Ranked(t, reg)
           n == IF Len(ranked) < 1 + fallback_depth THEN Len(ranked) ELSE 1 + fallback_depth
<1>1. ranked \in Seq(Models)
  <2>1. CASE t.pin = NoModel
    BY <2>1, RankHonest DEF Ranked
  <2>2. CASE t.pin # NoModel
    BY <2>2, RouterAssumption DEF Ranked
  <2>3. QED  BY <2>1, <2>2
<1>2. Plan(t, reg) = SubSeq(ranked, 1, n)
  BY DEF Plan
<1> HIDE DEF ranked
<1>3. n \in Nat /\ n <= Len(ranked) /\ n <= 1 + fallback_depth
  BY <1>1, PlanAssumption
<1> HIDE DEF n
<1>4. /\ SubSeq(ranked, 1, n) \in Seq(Models) /\ Len(SubSeq(ranked, 1, n)) = n
      /\ \A i \in 1 .. n : SubSeq(ranked, 1, n)[i] = ranked[i]
  BY <1>1, <1>3, SMTT(30), Zenon
<1>5. QED  BY <1>1, <1>2, <1>3, <1>4 DEF ranked

-----------------------------------------------------------------------------
(***************************************************************************)
(* What holds of one request at every turn of its loop.                    *)
(***************************************************************************)
\* The local state of a request.
Local ==
    [phase : {"idle", "planned", "attempting", "calling", "done"}, stream : BOOLEAN,
     task : Tasks, start : DOMAIN Overlays, plan : Seq(Models), reg : DOMAIN Overlays,
     next : Nat, attempt : Nat, failed : BOOLEAN, tried : Nat, called : Seq(Models),
     calls : Nat, max_tokens : Nat, late : BOOLEAN, result : Result]

\* The plan is the one that the task's ranking gives, and the request is
\* within it.
OnPlan(q) ==
    /\ q.plan = <<>> \/ q.plan = Plan(q.task, Registry[q.start])
    /\ 1 <= q.next /\ q.next <= Len(q.plan) + 1
    /\ q.phase = "calling" => q.next <= Len(q.plan)

\* The models called, at increasing places of the plan, none beyond the next.
CalledFrom(q) ==
    \E at \in [DOMAIN q.called -> DOMAIN q.plan] :
        \A i \in DOMAIN q.called :
            /\ q.called[i] = q.plan[at[i]]
            /\ at[i] <= q.next /\ (q.phase \in {"planned", "attempting"} => at[i] < q.next)
            /\ \A j \in 1 .. i - 1 : at[j] < at[i]

\* The turns that retry() gives one model.
Turns(q) == IF q.stream THEN 1 ELSE 1 + max_retries

\* The counters agree with the models called.
Counted(q) ==
    /\ q.tried = Len(q.called) /\ q.tried <= q.next /\ q.tried <= Len(q.plan)
    /\ q.phase \in {"idle", "planned", "attempting"} => q.tried < q.next
    /\ q.calls <= q.tried * Turns(q)
    /\ q.phase = "calling" => /\ q.attempt < Turns(q)
                              /\ q.calls + Turns(q) <= q.tried * Turns(q) + q.attempt + 1

\* The flag and the last model called say how the request stands.
Standing(q) ==
    /\ q.phase \in {"idle", "planned"} => q.called = <<>> /\ ~q.failed /\ q.next = 1
    /\ q.phase = "attempting" => (q.failed <=> q.called # <<>>)
    /\ q.phase = "calling" \/ (q.phase = "done" /\ q.result \in {"Ok", "GenAi"}) =>
          /\ q.called # <<>> /\ q.called[Len(q.called)] = Candidate(q)
          /\ q.next <= Len(q.plan)
    /\ q.phase = "done" /\ q.result = "NoRoute" => q.called = <<>>
    /\ q.phase = "done" /\ q.result = "AllRoutesFailed" =>
          q.called # <<>> /\ q.next > Len(q.plan)

Sound(q) == q \in Local /\ OnPlan(q) /\ CalledFrom(q) /\ Counted(q) /\ Standing(q)

RequestsInv ==
    /\ registry \in DOMAIN Overlays
    /\ request \in [Requests -> Local]
    /\ \A r \in Requests : /\ Sound(request[r])
                           /\ request[r].start <= registry /\ request[r].reg <= registry

\* What a request has called, as it was.
SameCalls(q, p) ==
    /\ p.stream = q.stream /\ p.task = q.task /\ p.start = q.start /\ p.plan = q.plan
    /\ p.tried = q.tried /\ p.called = q.called

\* The places of the calls in the plan carry over as long as the request does
\* not go back.
LEMMA CalledFromStays ==
    ASSUME NEW q \in Local, NEW p \in Local, CalledFrom(q), SameCalls(q, p),
           \/ q.next < p.next
           \/ q.next = p.next /\ (p.phase \in {"planned", "attempting"} =>
                                    q.phase \in {"planned", "attempting"})
    PROVE  CalledFrom(p)
<1>1. PICK at \in [DOMAIN q.called -> DOMAIN q.plan] :
        \A i \in DOMAIN q.called :
            /\ q.called[i] = q.plan[at[i]]
            /\ at[i] <= q.next /\ (q.phase \in {"planned", "attempting"} => at[i] < q.next)
            /\ \A j \in 1 .. i - 1 : at[j] < at[i]
  BY DEF CalledFrom
<1>2. q.next \in Nat /\ p.next \in Nat /\ q.plan \in Seq(Models)
  BY DEF Local
<1>3. \A i \in DOMAIN q.called : at[i] \in Nat
  BY <1>2
<1>4. \A i \in DOMAIN q.called :
        at[i] <= p.next /\ (p.phase \in {"planned", "attempting"} => at[i] < p.next)
  BY <1>1, <1>2, <1>3
<1>5. p.called = q.called /\ p.plan = q.plan
  BY DEF SameCalls
<1>6. QED  BY <1>1, <1>4, <1>5, SMTT(30), Zenon DEF CalledFrom

\* execute ends with the deadline or with its future: nothing is claimed of
\* the calls (default_router.rs:126, 146-150).
LEMMA GivingUpSound ==
    ASSUME NEW q, Sound(q), NEW result \in {"DeadlineExceeded", "dropped"}
    PROVE  Sound(Ended(q, result))
<1> DEFINE p == Ended(q, result)
<1> USE DEF Sound
<1>1. p \in Local
  BY Zenon DEF Ended, Local, Result
<1>2. /\ SameCalls(q, p) /\ p.next = q.next /\ p.calls = q.calls
      /\ p.phase = "done" /\ p.result = result
  BY DEF Ended, Local, SameCalls
<1> HIDE DEF p
<1>3. OnPlan(p)
  BY <1>2 DEF OnPlan, SameCalls
<1>4. CalledFrom(p)
  BY <1>1, <1>2, CalledFromStays, Zenon
<1>5. Counted(p)
  BY <1>2, Zenon DEF Counted, SameCalls, Turns
<1>6. Standing(p)
  BY <1>2 DEF Standing
<1>7. QED  BY <1>1, <1>3, <1>4, <1>5, <1>6 DEF p

\* A skipped candidate is behind the request (default_router.rs:127-135).
LEMMA SkipSound ==
    ASSUME NEW q, Sound(q), MayAttempt(q)
    PROVE  Sound([q EXCEPT !.next = @ + 1])
<1> DEFINE p == [q EXCEPT !.next = @ + 1]
<1> USE DEF Sound
<1>1. q.phase = "attempting" /\ q.next <= Len(q.plan)
  BY DEF MayAttempt
<1>2. q.next \in Nat /\ q.tried \in Nat /\ q.plan \in Seq(Models)
  BY DEF Local
<1>3. p \in Local
  <2>1. \A a \in Nat : [q EXCEPT !.next = a] \in Local
    BY Zenon DEF Local
  <2>2. q.next + 1 \in Nat
    BY <1>2
  <2>3. QED  BY <2>1, <2>2, Zenon
<1>4. /\ SameCalls(q, p) /\ p.next = q.next + 1 /\ p.calls = q.calls
      /\ p.phase = "attempting" /\ p.failed = q.failed
  BY <1>1, Zenon DEF Local, SameCalls
<1> HIDE DEF p
<1>5. OnPlan(p)
  BY <1>1, <1>2, <1>4 DEF OnPlan, SameCalls
<1>6. CalledFrom(p)
  <2>1. q.next < p.next
    BY <1>2, <1>4
  <2>2. QED  BY <1>3, <1>4, <2>1, CalledFromStays
<1>7. Counted(p)
  BY <1>1, <1>2, <1>4, SMTT(30), Zenon DEF Counted, SameCalls, Turns
<1>8. Standing(p)
  BY <1>1, <1>4, Zenon DEF Standing, SameCalls
<1>9. QED  BY <1>3, <1>5, <1>6, <1>7, <1>8 DEF p

\* A number of turns, and one model more.
LEMMA TurnsType ==
    ASSUME NEW q \in Local
    PROVE  /\ Turns(q) \in Nat /\ Turns(q) >= 1
           /\ q.tried * Turns(q) \in Nat
           /\ (q.tried + 1) * Turns(q) = q.tried * Turns(q) + Turns(q)
<1>1. Turns(q) \in Nat /\ Turns(q) >= 1 /\ q.tried \in Nat
  BY Sizes DEF Turns, Local
<1>2. \A a, b \in Nat : a * b \in Nat /\ (a + 1) * b = a * b + b
  OBVIOUS
<1>3. QED  BY <1>1, <1>2

\* The tokens asked for are a number.
LEMMA ClampType ==
    ASSUME NEW m, NEW i \in DOMAIN Overlays
    PROVE  Clamp(MaxTokens, m, Registry[i]) \in Nat
<1>1. Typed(Registry[i])
  BY RegistryHonest
<1>2. \A n \in DOMAIN Registry[i] : Registry[i][n].max_output_tokens \in Nat
  BY <1>1 DEF Typed, ModelInfo
<1>3. QED  BY <1>2, Sizes DEF Clamp

\* A call is one more, at the place the request has reached
\* (default_router.rs:131-144).
LEMMA CallSound ==
    ASSUME NEW q, Sound(q), MayAttempt(q), NEW tokens \in Nat
    PROVE  Sound([q EXCEPT !.phase = "calling", !.attempt = 0,
                           !.tried = @ + 1, !.calls = @ + 1,
                           !.called = Append(@, Candidate(q)),
                           !.max_tokens = tokens])
<1> DEFINE p == [q EXCEPT !.phase = "calling", !.attempt = 0,
                          !.tried = @ + 1, !.calls = @ + 1,
                          !.called = Append(@, Candidate(q)),
                          !.max_tokens = tokens]
           n == Len(q.called)
<1> USE DEF Sound
<1>1. q.phase = "attempting" /\ q.next <= Len(q.plan)
  BY DEF MayAttempt
<1>2. /\ q.next \in Nat /\ q.tried \in Nat /\ q.calls \in Nat /\ n \in Nat
      /\ q.plan \in Seq(Models) /\ q.called \in Seq(Models)
  BY DEF Local
<1>3. q.next \in DOMAIN q.plan /\ Candidate(q) \in Models
  BY <1>1, <1>2 DEF OnPlan, Candidate
<1>4. Append(q.called, Candidate(q)) \in Seq(Models)
  BY <1>2, <1>3
<1>5. p \in Local
  <2>1. ASSUME NEW a \in Nat, NEW b \in Nat, NEW c \in Seq(Models)
        PROVE  [q EXCEPT !.phase = "calling", !.attempt = 0, !.tried = a, !.calls = b,
                         !.called = c, !.max_tokens = tokens] \in Local
    BY Zenon DEF Local
  <2>2. q.tried + 1 \in Nat /\ q.calls + 1 \in Nat
    BY <1>2
  <2>3. QED  BY <1>4, <2>1, <2>2, Zenon
<1>6. /\ p.stream = q.stream /\ p.task = q.task /\ p.start = q.start /\ p.plan = q.plan
      /\ p.next = q.next /\ p.phase = "calling" /\ p.attempt = 0
      /\ p.tried = q.tried + 1 /\ p.calls = q.calls + 1
      /\ p.called = Append(q.called, Candidate(q))
  BY DEF Local
<1> HIDE DEF p
<1>7. OnPlan(p)
  BY <1>1, <1>6 DEF OnPlan
<1>8. /\ DOMAIN p.called = 1 .. n + 1 /\ DOMAIN q.called = 1 .. n
      /\ Len(p.called) = n + 1 /\ p.called[n + 1] = q.plan[q.next]
      /\ \A i \in 1 .. n : p.called[i] = q.called[i]
  <2>1. \A s \in Seq(Models), x \in Models :
          /\ DOMAIN Append(s, x) = 1 .. Len(s) + 1 /\ DOMAIN s = 1 .. Len(s)
          /\ Len(Append(s, x)) = Len(s) + 1 /\ Append(s, x)[Len(s) + 1] = x
          /\ \A i \in 1 .. Len(s) : Append(s, x)[i] = s[i]
    OBVIOUS
  <2>2. q.called \in Seq(Models) /\ Candidate(q) = q.plan[q.next]
    BY <1>2, Zenon DEF Candidate
  <2>3. /\ DOMAIN Append(q.called, Candidate(q)) = 1 .. n + 1 /\ DOMAIN q.called = 1 .. n
        /\ Len(Append(q.called, Candidate(q))) = n + 1
        /\ Append(q.called, Candidate(q))[n + 1] = Candidate(q)
        /\ \A i \in 1 .. n : Append(q.called, Candidate(q))[i] = q.called[i]
    <3> HIDE DEF Sound
    <3>1. QED  BY <1>3, <2>1, <2>2, Zenon
  <2>4. p.called = Append(q.called, Candidate(q))
    BY <1>6, Zenon
  <2>5. QED
    <3> HIDE DEF Sound
    <3>1. QED  BY <2>2, <2>3, <2>4, Zenon
<1>9. CalledFrom(p)
  <2>1. PICK at \in [1 .. n -> DOMAIN q.plan] :
          \A i \in 1 .. n :
            /\ q.called[i] = q.plan[at[i]] /\ at[i] < q.next
            /\ \A j \in 1 .. i - 1 : at[j] < at[i]
    BY <1>1, <1>8, Zenon DEF CalledFrom
  <2> DEFINE to == [i \in 1 .. n + 1 |-> IF i = n + 1 THEN q.next ELSE at[i]]
  <2>2. to \in [1 .. n + 1 -> DOMAIN q.plan]
    BY <1>2, <1>3, SMTT(30), Zenon
  <2>3. to[n + 1] = q.next /\ \A i \in 1 .. n : to[i] = at[i] /\ at[i] \in Nat
    <3>1. DOMAIN q.plan \subseteq Nat
      BY <1>2
    <3> HIDE DEF n
    <3>2. QED  BY <1>2, <3>1
  <2> HIDE DEF to, n
  <2>4. ASSUME NEW i \in 1 .. n + 1
        PROVE  /\ p.called[i] = p.plan[to[i]]
               /\ to[i] <= p.next
               /\ \A j \in 1 .. i - 1 : to[j] < to[i]
    <3>1. CASE i = n + 1
      <4>1. /\ p.called[i] = q.plan[q.next] /\ p.plan = q.plan /\ to[i] = q.next
            /\ p.next = q.next /\ q.next \in Nat /\ n \in Nat
        BY <1>2, <1>6, <1>8, <2>3, <3>1, Zenon
      <4>2. \A j \in 1 .. i - 1 : j \in 1 .. n
        BY <3>1, <4>1
      <4>3. \A j \in 1 .. i - 1 : to[j] < to[i]
        BY <2>1, <2>3, <4>1, <4>2, Zenon
      <4>4. to[i] <= p.next
        BY <4>1
      <4>5. QED  BY <4>1, <4>3, <4>4, Zenon
    <3>2. CASE i \in 1 .. n
      <4>1. \A j \in 1 .. i - 1 : j \in 1 .. n
        BY <1>2, <3>2
      <4>2. to[i] = at[i] /\ \A j \in 1 .. i - 1 : to[j] = at[j]
        BY <2>3, <3>2, <4>1
      <4>3. at[i] \in Nat /\ at[i] < q.next /\ \A j \in 1 .. i - 1 : at[j] < at[i]
        BY <2>1, <2>3, <3>2, SMTT(30), Zenon
      <4>4. p.called[i] = p.plan[to[i]]
        BY <1>6, <1>8, <2>1, <3>2, <4>2, SMTT(30), Zenon
      <4>50. p.next = q.next /\ q.next \in Nat /\ to[i] \in Nat /\ to[i] < q.next
        BY <1>2, <1>6, <4>2, <4>3, Zenon
      <4>5. to[i] <= p.next
        BY <4>50
      <4>6. QED  BY <4>2, <4>3, <4>4, <4>5
    <3>3. QED  BY <1>2, <3>1, <3>2, SMTT(30), Zenon
  <2>5. QED  BY <1>6, <1>8, <2>2, <2>4, Zenon DEF CalledFrom
<1>10. Counted(p)
  <2>1. Turns(p) = Turns(q)
    BY <1>6 DEF Turns
  <2>2. p.tried * Turns(q) = q.tried * Turns(q) + Turns(q)
    BY <1>6, TurnsType
  <2>3. /\ q.tried = n /\ q.tried < q.next /\ q.calls <= q.tried * Turns(q)
    BY <1>1 DEF Counted
  <2>4. p.tried = Len(p.called) /\ p.tried <= p.next /\ p.tried <= Len(p.plan)
    BY <1>1, <1>2, <1>6, <1>8, <2>3, SMTT(30), Zenon
  <2>5. /\ p.calls <= p.tried * Turns(p) /\ p.attempt < Turns(p)
        /\ p.calls + Turns(p) <= p.tried * Turns(p) + p.attempt + 1
    <3> DEFINE k == Turns(q)
               all == q.tried * Turns(q)
    <3>1. k \in Nat /\ k >= 1 /\ all \in Nat
      BY TurnsType
    <3>2. p.tried * Turns(p) = all + k /\ Turns(p) = k /\ q.calls <= all
      BY <2>1, <2>2, <2>3
    <3> DEFINE most == p.tried * Turns(p)
    <3>3. most = all + k
      BY <3>2
    <3> HIDE DEF k, all, most
    <3>4. p.calls <= most /\ p.attempt < k /\ p.calls + k <= most + p.attempt + 1
      <4>1. /\ p.calls = q.calls + 1 /\ p.attempt = 0 /\ q.calls \in Nat /\ q.calls <= all
        BY <1>2, <1>6, <3>2, Zenon
      <4>2. QED  BY <3>1, <3>3, <4>1
    <3>5. QED  BY <3>2, <3>4 DEF most
  <2>6. QED  BY <1>6, <2>4, <2>5 DEF Counted
<1>11. Standing(p)
  <2>1. /\ p.called # <<>> /\ p.called[Len(p.called)] = Candidate(p)
        /\ p.next <= Len(p.plan) /\ p.phase = "calling"
    <3>1. /\ p.next = q.next /\ p.plan = q.plan /\ p.phase = "calling"
          /\ Len(p.called) = n + 1 /\ p.called[n + 1] = q.plan[q.next] /\ n \in Nat
      BY <1>2, <1>6, <1>8, Zenon
    <3>2. Candidate(p) = p.called[Len(p.called)]
      BY <3>1, Zenon DEF Candidate
    <3>3. n + 1 # 0
      BY <3>1
    <3>4. p.called # <<>>
      BY <3>1, <3>3
    <3>5. QED  BY <1>1, <3>1, <3>2, <3>4, Zenon
  <2>2. QED  BY <2>1 DEF Standing
<1>12. QED  BY <1>5, <1>7, <1>9, <1>10, <1>11 DEF p

\* retry() has a turn left (clients/retry.rs:79-92).
LEMMA RetrySound ==
    ASSUME NEW q, Sound(q), q.phase = "calling", Retries(q)
    PROVE  Sound([q EXCEPT !.attempt = @ + 1, !.calls = @ + 1])
<1> DEFINE p == [q EXCEPT !.attempt = @ + 1, !.calls = @ + 1]
           k == Turns(q)
           most == q.tried * Turns(q)
<1> USE DEF Sound
<1>1. q.next \in Nat /\ q.attempt \in Nat /\ q.calls \in Nat /\ k \in Nat /\ most \in Nat
  BY TurnsType, Zenon DEF Local
<1>2. p \in Local
  <2>1. \A a, b \in Nat : [q EXCEPT !.attempt = a, !.calls = b] \in Local
    BY Zenon DEF Local
  <2>2. q.attempt + 1 \in Nat /\ q.calls + 1 \in Nat
    BY <1>1
  <2>3. QED  BY <2>1, <2>2, Zenon
<1>3. /\ SameCalls(q, p) /\ p.next = q.next /\ p.phase = "calling"
      /\ p.attempt = q.attempt + 1 /\ p.calls = q.calls + 1
  BY DEF Local, SameCalls
<1>4. q.attempt + 1 < k
  BY <1>1, Sizes DEF Retries, Turns
<1> HIDE DEF p
<1>5. OnPlan(p)
  BY <1>3 DEF OnPlan, SameCalls
<1>6. CalledFrom(p)
  BY <1>2, <1>3, CalledFromStays
<1>7. Counted(p)
  <2>1. Turns(p) = k /\ p.tried * Turns(p) = most
    BY <1>3 DEF Turns, SameCalls
  <2>2. /\ q.calls + k <= most + q.attempt + 1 /\ q.tried <= q.next
        /\ q.tried = Len(q.called) /\ q.tried <= Len(q.plan)
    BY DEF Counted
  <2> HIDE DEF k, most
  <2>3. p.calls <= most /\ p.attempt < k /\ p.calls + k <= most + p.attempt + 1
    <3>1. /\ q.calls + k <= most + q.attempt + 1
          /\ p.attempt = q.attempt + 1 /\ p.calls = q.calls + 1
          /\ q.attempt \in Nat /\ q.calls \in Nat /\ k \in Nat /\ most \in Nat
      BY <1>1, <1>3, <2>2, Zenon
    <3>2. QED  BY <1>4, <3>1
  <2>4. p.tried = Len(p.called) /\ p.tried <= p.next /\ p.tried <= Len(p.plan)
    BY <1>3, <2>2, Zenon DEF SameCalls
  <2>5. QED  BY <1>3, <2>1, <2>3, <2>4, Zenon DEF Counted
<1>8. Standing(p)
  BY <1>3 DEF Standing, SameCalls, Candidate
<1>9. QED  BY <1>2, <1>5, <1>6, <1>7, <1>8, SMTT(30), Zenon DEF p

\* An answer that ends the request: its model was the last one called
\* (default_router.rs:151-163).
LEMMA AnsweredSound ==
    ASSUME NEW q, Sound(q), q.phase = "calling", NEW failed \in BOOLEAN,
           NEW result \in {"Ok", "GenAi"}
    PROVE  Sound(Ended([q EXCEPT !.failed = failed], result))
<1> DEFINE p == Ended([q EXCEPT !.failed = failed], result)
<1> USE DEF Sound
<1>1. p \in Local
  BY Zenon DEF Ended, Local, Result
<1>2. /\ SameCalls(q, p) /\ p.next = q.next /\ p.calls = q.calls
      /\ p.phase = "done" /\ p.result = result
  BY Zenon DEF Ended, Local, SameCalls
<1> HIDE DEF p
<1>3. OnPlan(p)
  BY <1>2 DEF OnPlan, SameCalls
<1>4. CalledFrom(p)
  BY <1>1, <1>2, CalledFromStays, Zenon
<1>5. Counted(p)
  BY <1>2 DEF Counted, SameCalls, Turns
<1>6. Standing(p)
  BY <1>2 DEF Standing, SameCalls, Candidate
<1>7. QED  BY <1>1, <1>3, <1>4, <1>5, <1>6 DEF p

\* A transient error falls over to the next candidate
\* (default_router.rs:164-170).
LEMMA FallOverSound ==
    ASSUME NEW q, Sound(q), q.phase = "calling"
    PROVE  Sound([q EXCEPT !.phase = "attempting", !.failed = TRUE, !.next = @ + 1])
<1> DEFINE p == [q EXCEPT !.phase = "attempting", !.failed = TRUE, !.next = @ + 1]
<1> USE DEF Sound
<1>1. q.next \in Nat /\ q.tried \in Nat /\ q.plan \in Seq(Models)
  BY DEF Local
<1>2. p \in Local
  <2>1. \A a \in Nat :
          [q EXCEPT !.phase = "attempting", !.failed = TRUE, !.next = a] \in Local
    BY Zenon DEF Local
  <2>2. q.next + 1 \in Nat
    BY <1>1
  <2>3. QED  BY <2>1, <2>2, Zenon
<1>3. /\ SameCalls(q, p) /\ p.next = q.next + 1 /\ p.calls = q.calls
      /\ p.phase = "attempting" /\ p.failed
  BY SMTT(30), Zenon DEF Local, SameCalls
<1> HIDE DEF p
<1>4. OnPlan(p)
  BY <1>1, <1>3, SMTT(30), Zenon DEF OnPlan, SameCalls
<1>5. CalledFrom(p)
  <2>1. q.next < p.next
    BY <1>1, <1>3, SMTT(30), Zenon
  <2>2. QED  BY <1>2, <1>3, <2>1, CalledFromStays, Zenon
<1>6. Counted(p)
  BY <1>1, <1>3, SMTT(30), Zenon DEF Counted, SameCalls, Turns
<1>7. Standing(p)
  BY <1>3 DEF Standing, SameCalls
<1>8. QED  BY <1>2, <1>4, <1>5, <1>6, <1>7 DEF p

\* The loop is over: its error says whether anything was called
\* (default_router.rs:172-180).
LEMMA ExhaustedSound ==
    ASSUME NEW q, Sound(q), q.phase = "attempting", q.next > Len(q.plan)
    PROVE  Sound(Ended(q, IF q.failed THEN "AllRoutesFailed" ELSE "NoRoute"))
<1> DEFINE p == Ended(q, IF q.failed THEN "AllRoutesFailed" ELSE "NoRoute")
<1> USE DEF Sound
<1>1. p \in Local
  BY Zenon DEF Ended, Local, Result
<1>2. /\ SameCalls(q, p) /\ p.next = q.next /\ p.calls = q.calls /\ p.phase = "done"
      /\ p.result = IF q.failed THEN "AllRoutesFailed" ELSE "NoRoute"
  BY DEF Ended, Local, SameCalls
<1> HIDE DEF p
<1>3. OnPlan(p)
  BY <1>2 DEF OnPlan, SameCalls
<1>4. CalledFrom(p)
  BY <1>1, <1>2, CalledFromStays, Zenon
<1>5. Counted(p)
  BY <1>2, SMTT(30), Zenon DEF Counted, SameCalls, Turns
<1>6. Standing(p)
  BY <1>2 DEF Standing, SameCalls
<1>7. QED  BY <1>1, <1>3, <1>4, <1>5, <1>6 DEF p

\* The deadline passing changes nothing else.
LEMMA LateSound ==
    ASSUME NEW q, Sound(q)
    PROVE  Sound([q EXCEPT !.late = TRUE])
<1> DEFINE p == [q EXCEPT !.late = TRUE]
<1> USE DEF Sound
<1>1. p \in Local
  BY Zenon DEF Local
<1>2. /\ SameCalls(q, p) /\ p.next = q.next /\ p.calls = q.calls /\ p.phase = q.phase
      /\ p.result = q.result /\ p.failed = q.failed /\ p.attempt = q.attempt
  BY DEF Local, SameCalls
<1> HIDE DEF p
<1>3. OnPlan(p)
  BY <1>2 DEF OnPlan, SameCalls
<1>4. CalledFrom(p)
  BY <1>1, <1>2, CalledFromStays, SMTT(30), Zenon
<1>5. Counted(p)
  BY <1>2, Zenon DEF Counted, SameCalls, Turns
<1>6. Standing(p)
  BY <1>2 DEF Standing, SameCalls, Candidate
<1>7. QED  BY <1>1, <1>3, <1>4, <1>5, <1>6 DEF p

\* execute starts with its own snapshot (default_router.rs:115-123).
LEMMA ExecuteSound ==
    ASSUME NEW q, Sound(q), q.phase = "planned", NEW reg \in DOMAIN Overlays
    PROVE  Sound([q EXCEPT !.phase = "attempting", !.reg = reg])
<1> DEFINE p == [q EXCEPT !.phase = "attempting", !.reg = reg]
<1> USE DEF Sound
<1>1. p \in Local
  BY Zenon DEF Local
<1>2. /\ SameCalls(q, p) /\ p.next = q.next /\ p.calls = q.calls
      /\ p.phase = "attempting" /\ p.failed = q.failed
  BY Zenon DEF Local, SameCalls
<1> HIDE DEF p
<1>3. OnPlan(p)
  BY <1>2 DEF OnPlan, SameCalls
<1>4. CalledFrom(p)
  BY <1>1, <1>2, CalledFromStays, Zenon
<1>5. Counted(p)
  BY <1>2, SMTT(30), Zenon DEF Counted, SameCalls, Turns
<1>6. Standing(p)
  BY <1>2 DEF Standing, SameCalls
<1>7. QED  BY <1>1, <1>3, <1>4, <1>5, <1>6 DEF p

\* A request that has called nothing is sound with any plan that its task has.
LEMMA FreshSound ==
    ASSUME NEW q \in Local, q.plan = <<>> \/ q.plan = Plan(q.task, Registry[q.start]),
           q.phase \in {"idle", "planned", "done"}, q.phase = "done" => q.result = "NoRoute",
           q.next = 1, q.called = <<>>, q.tried = 0, q.calls = 0, ~q.failed
    PROVE  Sound(q)
<1>1. Len(q.plan) \in Nat
  BY DEF Local
<1>2. OnPlan(q)
  BY <1>1 DEF OnPlan
<1>3. CalledFrom(q)
  <2>1. DOMAIN q.called = {}
    OBVIOUS
  <2>2. <<>> \in [DOMAIN q.called -> DOMAIN q.plan]
    BY <2>1
  <2>3. QED  BY <2>1, <2>2, Zenon DEF CalledFrom
<1>4. Counted(q)
  <2>1. Turns(q) \in Nat /\ 0 * Turns(q) = 0
    BY TurnsType
  <2>2. QED  BY <1>1, <2>1 DEF Counted
<1>5. Standing(q)
  BY DEF Standing
<1>6. QED  BY <1>2, <1>3, <1>4, <1>5, Zenon DEF Sound

\* One request takes a step, the registry does not.
LEMMA RequestStep ==
    ASSUME RequestsInv, NEW r \in Requests, NEW q, Update(r, q), registry' = registry,
           Sound(q), q.start <= registry, q.reg <= registry
    PROVE  RequestsInv'
<1>1. q \in Local
  BY DEF Sound
<1>2. request' \in [Requests -> Local]
  BY <1>1 DEF RequestsInv, Update
<1>3. \A s \in Requests : request'[s] = q \/ request'[s] = request[s]
  BY DEF RequestsInv, Update
<1>4. QED  BY <1>2, <1>3 DEF RequestsInv

\* A request before route() is called.
LEMMA IdleType == Idle \in Local
<1>1. 1 \in DOMAIN Overlays
  BY Sizes
<1>2. (CHOOSE t \in Tasks : TRUE) \in Tasks
  BY RouterAssumption, Zenon
<1>3. QED  BY <1>1, <1>2 DEF Idle, Local, Result

\* resolve gives the request the plan of its task by the registry of the
\* moment (default_router.rs:320-346).
LEMMA RouteStep ==
    ASSUME RequestsInv, NEW r \in Requests, NEW t \in Tasks, NEW stream \in BOOLEAN,
           Route(r, t, stream)
    PROVE  RequestsInv'
<1> DEFINE plan == Plan(t, Registry[registry])
           q == [Idle EXCEPT !.stream = stream, !.task = t, !.start = registry, !.plan = plan]
           p == IF q.plan = <<>> THEN Ended(q, "NoRoute") ELSE [q EXCEPT !.phase = "planned"]
<1>1. registry \in DOMAIN Overlays /\ 1 \in DOMAIN Overlays /\ 1 <= registry
  BY Sizes DEF RequestsInv
<1>2. plan \in Seq(Models)
  <2>1. Typed(Registry[registry])
    BY <1>1, RegistryHonest
  <2>2. QED  BY <2>1, PlanHonest
<1>3. Update(r, p) /\ registry' = registry
  BY DEF Route
<1>4. plan = Plan(t, Registry[registry])
  OBVIOUS
<1> HIDE DEF plan
<1>5. q \in Local
  BY <1>1, <1>2, IdleType, Zenon DEF Local
<1>6. /\ q.task = t /\ q.start = registry /\ q.reg = 1 /\ q.plan = plan /\ q.phase = "idle"
      /\ q.next = 1 /\ q.called = <<>> /\ q.tried = 0 /\ q.calls = 0 /\ ~q.failed
  BY DEF Idle
<1> HIDE DEF q
<1>7. /\ p \in Local
      /\ p.phase \in {"planned", "done"} /\ (p.phase = "done" => p.result = "NoRoute")
      /\ p.task = t /\ p.start = registry /\ p.reg = 1 /\ p.plan = plan
      /\ p.next = 1 /\ p.called = <<>> /\ p.tried = 0 /\ p.calls = 0 /\ ~p.failed
  <2>1. CASE q.plan = <<>>
    BY <1>5, <1>6, <2>1, Zenon DEF Ended, Local, Result
  <2>2. CASE q.plan # <<>>
    BY <1>5, <1>6, <2>2, Zenon DEF Local
  <2>3. QED  BY <2>1, <2>2
<1> HIDE DEF p
<1>8. Sound(p)
  BY <1>4, <1>7, FreshSound, SMTT(30), Zenon
<1>9. p.start <= registry /\ p.reg <= registry
  BY <1>1, <1>7, Sizes
<1>10. QED  BY <1>3, <1>8, <1>9, RequestStep

\* A turn of the attempt loop (default_router.rs:125-219).
LEMMA TurnStep ==
    ASSUME RequestsInv, NEW r \in Requests,
           \/ Proceed(r) \/ RetryCall(r) \/ Drop(r) \/ Deadline(r)
           \/ \E outcome \in {"ok", "transient", "permanent"} : Answer(r, outcome)
    PROVE  RequestsInv'
<1> DEFINE q == request[r]
<1>1. /\ Sound(q) /\ q \in Local /\ q.start <= registry /\ q.reg <= registry
      /\ registry \in DOMAIN Overlays
  BY DEF RequestsInv, Sound
<1>2. registry' = registry
  BY Zenon DEF Proceed, Execute, Exhausted, TooLate, Skip, Call, TimeOut, RetryCall, Drop,
         Deadline, Answer
<1>3. ASSUME NEW p, Update(r, p), Sound(p), p.start = q.start,
             p.reg = q.reg \/ p.reg = registry
      PROVE  RequestsInv'
  <2>1. p.start <= registry /\ p.reg <= registry
    BY <1>1, <1>3, Sizes
  <2>2. QED  BY <1>2, <1>3, <2>1, RequestStep, Zenon
<1> HIDE DEF q
<1>4. CASE Execute(r)
  <2> DEFINE p == [q EXCEPT !.phase = "attempting", !.reg = registry]
  <2>1. Update(r, p) /\ q.phase = "planned"
    BY <1>4 DEF Execute, q
  <2>2. Sound(p)
    BY <1>1, <2>1, ExecuteSound, Zenon
  <2>3. p.start = q.start /\ p.reg = registry
    BY <1>1 DEF Local
  <2> HIDE DEF p
  <2>4. QED  BY <1>3, <2>1, <2>2, <2>3
<1>5. CASE Exhausted(r)
  <2> DEFINE p == Ended(q, IF q.failed THEN "AllRoutesFailed" ELSE "NoRoute")
  <2>1. Update(r, p) /\ q.phase = "attempting" /\ q.next > Len(q.plan)
    BY <1>5 DEF Exhausted, q
  <2>2. Sound(p)
    BY <1>1, <2>1, ExhaustedSound
  <2>3. p.start = q.start /\ p.reg = q.reg
    BY <1>1 DEF Local, Ended
  <2> HIDE DEF p
  <2>4. QED  BY <1>3, <2>1, <2>2, <2>3, SMTT(30), Zenon
<1>6. CASE TooLate(r) \/ TimeOut(r) \/ Drop(r)
  <2>1. PICK result \in {"DeadlineExceeded", "dropped"} : Update(r, Ended(q, result))
    BY <1>6, Zenon DEF TooLate, TimeOut, Drop, q
  <2> DEFINE p == Ended(q, result)
  <2>2. Sound(p)
    BY <1>1, GivingUpSound
  <2>3. p.start = q.start /\ p.reg = q.reg
    BY <1>1 DEF Local, Ended
  <2>4. Update(r, p)
    BY <2>1
  <2> HIDE DEF p
  <2>5. QED  BY <1>3, <2>2, <2>3, <2>4
<1>7. CASE Skip(r)
  <2> DEFINE p == [q EXCEPT !.next = @ + 1]
  <2>1. Update(r, p) /\ MayAttempt(q)
    BY <1>7 DEF Skip, q
  <2>2. Sound(p)
    BY <1>1, <2>1, SkipSound
  <2>3. p.start = q.start /\ p.reg = q.reg
    BY <1>1, Zenon DEF Local
  <2> HIDE DEF p
  <2>4. QED  BY <1>3, <2>1, <2>2, <2>3
<1>8. CASE Call(r)
  <2> DEFINE tokens == Clamp(MaxTokens, Candidate(q), Registry[q.reg])
             p == [q EXCEPT !.phase = "calling", !.attempt = 0,
                            !.tried = @ + 1, !.calls = @ + 1,
                            !.called = Append(@, Candidate(q)),
                            !.max_tokens = tokens]
  <2>1. Update(r, p) /\ MayAttempt(q)
    BY <1>8 DEF Call, q
  <2>2. tokens \in Nat
    BY <1>1, ClampType, Zenon DEF Local
  <2> HIDE DEF tokens
  <2>3. Sound(p)
    BY <1>1, <2>1, <2>2, CallSound, Zenon
  <2>4. p.start = q.start /\ p.reg = q.reg
    BY <1>1, Zenon DEF Local
  <2> HIDE DEF p
  <2>5. QED  BY <1>3, <2>1, <2>3, <2>4
<1>9. CASE RetryCall(r)
  <2> DEFINE p == [q EXCEPT !.attempt = @ + 1, !.calls = @ + 1]
  <2>1. Update(r, p) /\ q.phase = "calling" /\ Retries(q)
    BY <1>9 DEF RetryCall, q
  <2>2. Sound(p)
    BY <1>1, <2>1, RetrySound, Zenon
  <2>3. p.start = q.start /\ p.reg = q.reg
    BY <1>1, Zenon DEF Local
  <2> HIDE DEF p
  <2>4. QED  BY <1>3, <2>1, <2>2, <2>3
<1>10. CASE Deadline(r)
  <2> DEFINE p == [q EXCEPT !.late = TRUE]
  <2>1. Update(r, p)
    BY <1>10 DEF Deadline, q
  <2>2. Sound(p)
    BY <1>1, LateSound
  <2>3. p.start = q.start /\ p.reg = q.reg
    BY <1>1, Zenon DEF Local
  <2> HIDE DEF p
  <2>4. QED  BY <1>3, <2>1, <2>2, <2>3, Zenon
<1>11. CASE Answer(r, "ok")
  <2> DEFINE p == Ended(q, "Ok")
             e == Ended([q EXCEPT !.failed = q.failed], "Ok")
  <2>1. Update(r, p) /\ q.phase = "calling"
    BY <1>11 DEF Answer, q
  <2>2. [q EXCEPT !.failed = q.failed] = q /\ q.failed \in BOOLEAN
    BY <1>1 DEF Local
  <2>3. Sound(e)
    BY <1>1, <2>1, <2>2, AnsweredSound, Zenon
  <2>4. Sound(p)
    BY <2>2, <2>3
  <2>5. p.start = q.start /\ p.reg = q.reg
    BY <1>1, Zenon DEF Local, Ended
  <2> HIDE DEF p
  <2>6. QED  BY <1>3, <2>1, <2>4, <2>5, Zenon
<1>12. CASE Answer(r, "permanent")
  <2> DEFINE p == Ended([q EXCEPT !.failed = TRUE], "GenAi")
  <2>1. Update(r, p) /\ q.phase = "calling"
    BY <1>12 DEF Answer, q
  <2>2. Sound(p)
    BY <1>1, <2>1, AnsweredSound, Zenon
  <2>3. p.start = q.start /\ p.reg = q.reg
    BY <1>1, Zenon DEF Local, Ended
  <2> HIDE DEF p
  <2>4. QED  BY <1>3, <2>1, <2>2, <2>3
<1>13. CASE Answer(r, "transient")
  <2> DEFINE p == [q EXCEPT !.phase = "attempting", !.failed = TRUE, !.next = @ + 1]
  <2>1. Update(r, p) /\ q.phase = "calling"
    BY <1>13 DEF Answer, q
  <2>2. Sound(p)
    BY <1>1, <2>1, FallOverSound, Zenon
  <2>3. p.start = q.start /\ p.reg = q.reg
    BY <1>1 DEF Local
  <2> HIDE DEF p
  <2>4. QED  BY <1>3, <2>1, <2>2, <2>3
<1>14. QED
  BY <1>4, <1>5, <1>6, <1>7, <1>8, <1>9, <1>10, <1>11, <1>12, <1>13, Zenon DEF Proceed

\* Reload makes the registries of a request older, never newer
\* (default_router.rs:55-63).
LEMMA RequestsStep == RequestsInv /\ [Next]_vars => RequestsInv'
<1> SUFFICES ASSUME RequestsInv, [Next]_vars PROVE RequestsInv'
  OBVIOUS
<1>1. CASE Reload
  <2>1. /\ registry \in Nat /\ registry' = registry + 1 /\ registry' \in DOMAIN Overlays
        /\ request' = request
    BY <1>1, Sizes DEF Reload, RequestsInv
  <2>2. ASSUME NEW r \in Requests
        PROVE  request[r].start <= registry' /\ request[r].reg <= registry'
    <3>1. /\ request[r].start \in Nat /\ request[r].reg \in Nat
          /\ request[r].start <= registry /\ request[r].reg <= registry
      BY Sizes, SMTT(30), Zenon DEF RequestsInv, Local
    <3>2. QED  BY <2>1, <3>1, SMTT(30), Zenon
  <2>3. QED  BY <2>1, <2>2 DEF RequestsInv
<1>2. CASE Elapse \/ UNCHANGED vars
  BY <1>2, SMTT(30), Zenon DEF Elapse, vars, RequestsInv
<1>3. QED  BY <1>1, <1>2, RouteStep, TurnStep, Zenon DEF Next

\* A sound request called models of its ranking, in its order.
LEMMA SoundInRankOrder ==
    ASSUME NEW q, Sound(q)
    PROVE  LET ranked == Ranked(q.task, Registry[q.start])
           IN  \E at \in [DOMAIN q.called -> DOMAIN ranked \cap (1 .. 1 + fallback_depth)] :
                   \A i \in DOMAIN q.called :
                       /\ q.called[i] = ranked[at[i]]
                       /\ \A j \in 1 .. i - 1 : at[j] < at[i]
<1> DEFINE ranked == Ranked(q.task, Registry[q.start])
<1>1. /\ q \in Local /\ q.task \in Tasks /\ q.start \in DOMAIN Overlays
      /\ q.plan \in Seq(Models)
  BY SMTT(30), Zenon DEF Sound, Local
<1>2. \A k \in DOMAIN q.plan :
        /\ k \in DOMAIN ranked /\ k \in 1 .. 1 + fallback_depth
        /\ q.plan[k] = ranked[k]
  <2>1. Typed(Registry[q.start])
    BY <1>1, RegistryHonest, Zenon
  <2>2. CASE q.plan = <<>>
    BY <2>2
  <2>3. CASE q.plan = Plan(q.task, Registry[q.start])
    <3>1. /\ Len(q.plan) <= 1 + fallback_depth
          /\ \A k \in 1 .. Len(q.plan) : k \in DOMAIN ranked /\ q.plan[k] = ranked[k]
      BY <1>1, <2>1, <2>3, PlanHonest, SMTT(30), Zenon
    <3> HIDE DEF ranked
    <3>2. QED  BY <1>1, <3>1, Sizes
  <2>4. QED  BY <2>2, <2>3, Zenon DEF Sound, OnPlan
<1> HIDE DEF ranked
<1>3. PICK at \in [DOMAIN q.called -> DOMAIN q.plan] :
        \A i \in DOMAIN q.called :
            q.called[i] = q.plan[at[i]] /\ \A j \in 1 .. i - 1 : at[j] < at[i]
  BY DEF Sound, CalledFrom
<1>4. at \in [DOMAIN q.called -> DOMAIN ranked \cap (1 .. 1 + fallback_depth)]
  BY <1>2, <1>3
<1>5. \A i \in DOMAIN q.called : q.called[i] = ranked[at[i]]
  BY <1>2, <1>3, Zenon
<1>6. QED  BY <1>3, <1>4, <1>5, SMTT(30), Zenon DEF ranked

\* So, without a pin or a rule, it called models that satisfy its task.
LEMMA SoundEligible ==
    ASSUME NEW q, Sound(q), q.task.pin = NoModel, RuleRank(q.task) = <<>>,
           NEW m \in Range(q.called)
    PROVE  m \in Fit(q.task, Registry[q.start])
<1> DEFINE ranked == Rank(q.task, Registry[q.start])
<1>1. q.task \in Tasks /\ q.start \in DOMAIN Overlays
  BY DEF Sound, Local
<1>2. Typed(Registry[q.start])
  BY <1>1, RegistryHonest, SMTT(30), Zenon
<1>3. \A k \in DOMAIN ranked : ranked[k] \in Fit(q.task, Registry[q.start])
  BY <1>1, <1>2, RankHonest, SMTT(30), Zenon
<1>4. Ranked(q.task, Registry[q.start]) = ranked
  BY DEF Ranked
<1>5. PICK i \in DOMAIN q.called : q.called[i] = m
  BY SMTT(30), Zenon DEF Range
<1> HIDE DEF ranked
<1>6. PICK at \in [DOMAIN q.called -> DOMAIN ranked \cap (1 .. 1 + fallback_depth)] :
        \A j \in DOMAIN q.called : q.called[j] = ranked[at[j]]
  BY <1>4, SoundInRankOrder
<1>7. QED  BY <1>3, <1>5, <1>6

\* Sound requests follow their plans.
LEMMA SoundFollowsPlan ==
    RequestsInv /\ BreakersInv /\ lost \in [Models -> Nat] => CallsFollowPlan
<1> SUFFICES ASSUME RequestsInv, BreakersInv, lost \in [Models -> Nat]
             PROVE  CallsFollowPlan
  OBVIOUS
<1>1. ASSUME NEW r \in Requests
      PROVE  /\ Sound(request[r]) /\ request[r] \in Local
             /\ request[r].start \in 1 .. registry /\ request[r].reg \in 1 .. registry
  <2>1. /\ Sound(request[r]) /\ request[r] \in Local /\ registry \in Nat
        /\ request[r].start <= registry /\ request[r].reg <= registry
    <3>1. /\ Sound(request[r]) /\ request[r] \in Local /\ registry \in DOMAIN Overlays
          /\ request[r].start <= registry /\ request[r].reg <= registry
      BY Zenon DEF RequestsInv, Sound
    <3>2. registry \in Nat
      BY <3>1, Sizes
    <3>3. QED  BY <3>1, <3>2, Zenon
  <2>2. /\ request[r].start \in Nat /\ request[r].start >= 1
        /\ request[r].reg \in Nat /\ request[r].reg >= 1
    <3>1. request[r].start \in DOMAIN Overlays /\ request[r].reg \in DOMAIN Overlays
      BY <2>1, Zenon DEF Local
    <3>2. QED  BY <3>1, Sizes
  <2>3. QED  BY <2>1, <2>2, SMTT(30), Zenon
<1>2. ASSUME NEW r \in Requests
      PROVE  Len(request[r].plan) \in Nat /\ Len(request[r].plan) <= 1 + fallback_depth
  <2> DEFINE q == request[r]
  <2>1. /\ q.task \in Tasks /\ q.start \in DOMAIN Overlays /\ q.plan \in Seq(Models)
    BY <1>1 DEF Local
  <2>2. Typed(Registry[q.start])
    BY <2>1, RegistryHonest
  <2>3. CASE q.plan = <<>>
    BY <2>3, Sizes
  <2>4. CASE q.plan = Plan(q.task, Registry[q.start])
    BY <2>1, <2>2, <2>4, PlanHonest, SMTT(30), Zenon
  <2>5. QED  BY <1>1, <2>3, <2>4, Zenon DEF Sound, OnPlan
<1>3. TypeOK
  <2>1. ASSUME NEW r \in Requests
        PROVE  request[r].next \in 1 .. 2 + fallback_depth
    <3>1. /\ request[r].next \in Nat /\ request[r].next >= 1
          /\ request[r].next <= Len(request[r].plan) + 1
      BY <1>1 DEF Sound, OnPlan, Local
    <3>2. QED  BY <1>2, <3>1, Sizes
  <2>2. ASSUME NEW r \in Requests
        PROVE  /\ request[r].phase \in {"idle", "planned", "attempting", "calling", "done"}
               /\ request[r].task \in Tasks /\ request[r].result \in Result
    BY <1>1, SMTT(30), Zenon DEF Local
  <2>3. registry \in DOMAIN Overlays /\ breaker \in [Models -> State]
    BY SMTT(30), Zenon DEF RequestsInv, BreakersInv
  <2>4. QED  BY <1>1, <2>1, <2>2, <2>3, Zenon DEF TypeOK
<1>4. CalledInRankOrder
  <2>1. ASSUME NEW r \in Requests
        PROVE  LET q == request[r]
                   ranked == Rankings[q.task][q.start]
               IN  \E at \in [DOMAIN q.called -> DOMAIN ranked \cap (1 .. 1 + fallback_depth)] :
                       \A i \in DOMAIN q.called :
                           /\ q.called[i] = ranked[at[i]]
                           /\ \A j \in 1 .. i - 1 : at[j] < at[i]
    <3> DEFINE q == request[r]
    <3>1. q.task \in Tasks /\ q.start \in DOMAIN Overlays /\ Sound(q)
      BY <1>1, Zenon DEF Local
    <3>2. Rankings[q.task][q.start] = Ranked(q.task, Registry[q.start])
      BY <3>1, SMTT(30), Zenon DEF Rankings
    <3> HIDE DEF q
    <3>3. LET ranked == Rankings[q.task][q.start]
          IN  \E at \in [DOMAIN q.called -> DOMAIN ranked \cap (1 .. 1 + fallback_depth)] :
                  \A i \in DOMAIN q.called :
                      /\ q.called[i] = ranked[at[i]]
                      /\ \A j \in 1 .. i - 1 : at[j] < at[i]
      BY <3>1, <3>2, SoundInRankOrder, SMTT(30), Zenon
    <3>4. QED  BY <3>3, Zenon DEF q
  <2>2. QED  BY <2>1, Zenon DEF CalledInRankOrder
<1>5. EligibleCalls
  <2>1. ASSUME NEW r \in Requests,
               NEW m \in Range(request[r].called)
                           \ DOMAIN Overlays[request[r].start].custom_models,
               request[r].task.pin = NoModel, RuleRank(request[r].task) = <<>>
        PROVE  /\ m \notin Overlays[request[r].start].disabled_models
               /\ m \in DOMAIN Overlays[request[r].start].disabled_capabilities =>
                    request[r].task.required
                      \cap Overlays[request[r].start].disabled_capabilities[m] = {}
    <3> DEFINE q == request[r]
               reg == Registry[q.start]
    <3>1. q.start \in DOMAIN Overlays
      BY <1>1 DEF Local
    <3>2. m \in Fit(q.task, reg)
      BY <1>1, <2>1, SoundEligible, Zenon
    <3>3. m \in DOMAIN reg /\ q.task.required \subseteq reg[m].capabilities
      BY <3>2, Zenon DEF Fit, Rejected
    <3>4. /\ m \notin Overlays[q.start].disabled_models
          /\ m \in DOMAIN Overlays[q.start].disabled_capabilities =>
               reg[m].capabilities \cap Overlays[q.start].disabled_capabilities[m] = {}
      BY <2>1, <3>1, <3>3, RegistryHonest, Zenon
    <3> HIDE DEF reg
    <3>5. QED  BY <3>3, <3>4, Zenon
  <2>2. QED  BY <2>1, Zenon DEF EligibleCalls
<1>6. CallsBounded
  <2>1. ASSUME NEW r \in Requests
        PROVE  /\ request[r].tried <= 1 + fallback_depth
               /\ request[r].calls <= request[r].tried
                                        * (IF request[r].stream THEN 1 ELSE 1 + max_retries)
    <3> DEFINE q == request[r]
    <3>1. q.tried \in Nat /\ q.tried <= Len(q.plan) /\ q.calls <= q.tried * Turns(q)
      BY <1>1, Zenon DEF Sound, Counted, Local
    <3>2. q.tried <= 1 + fallback_depth
      BY <1>2, <3>1, Sizes
    <3>3. QED  BY <3>1, <3>2, SMTT(30), Zenon DEF Turns
  <2>2. QED  BY <2>1 DEF CallsBounded
<1>7. OutcomeHonest
  <2>1. \A r \in Requests : Standing(request[r]) /\ Counted(request[r])
    BY <1>1 DEF Sound
  <2>2. QED  BY <2>1, Zenon DEF OutcomeHonest, Standing, Counted
<1>8. QED  BY <1>3, <1>4, <1>5, <1>6, <1>7, Zenon DEF CallsFollowPlan

\* However requests, reloads, deadlines and failures interleave, a request calls
\* models of its own ranking in their order, eligible ones unless a rule or a
\* pin says otherwise, each at most 1 + max_retries times, and its result says
\* what became of the calls (default_router.rs:125-219, 246-346).
THEOREM RequestsFollowPlan == Spec => []CallsFollowPlan
<1>1. Init => RequestsInv
  <2> SUFFICES ASSUME Init PROVE RequestsInv
    OBVIOUS
  <2>1. /\ Idle.plan = <<>> /\ Idle.phase = "idle" /\ Idle.next = 1 /\ Idle.called = <<>>
        /\ Idle.tried = 0 /\ Idle.calls = 0 /\ ~Idle.failed
        /\ Idle.start = 1 /\ Idle.reg = 1
    BY DEF Idle
  <2>2. Sound(Idle)
    BY <2>1, IdleType, FreshSound, SMTT(30), Zenon
  <2>3. registry = 1 /\ 1 \in DOMAIN Overlays /\ request = [r \in Requests |-> Idle]
    BY Sizes DEF Init
  <2>4. QED  BY <2>1, <2>2, <2>3, IdleType, SMTT(30), Zenon DEF RequestsInv
<1>2. RequestsInv /\ [Next]_vars => RequestsInv'
  BY RequestsStep
<1>3. RequestsInv /\ SlotsInv => CallsFollowPlan
  BY SoundFollowsPlan DEF SlotsInv
<1>4. QED  BY <1>1, <1>2, <1>3, SlotsInvariant, PTL DEF Spec
=============================================================================
