----------------------------- MODULE ModelRouter -----------------------------
(***************************************************************************)
(* DefaultRouter (genai/router/default_router.rs) serving concurrent       *)
(* requests: each resolves a plan against the registry of the moment, then *)
(* tries the plan's models in order, with one circuit breaker per model    *)
(* (BreakerState), same-model retry (clients/retry.rs), a deadline, and    *)
(* registries that may be reloaded in between.                             *)
(*                                                                         *)
(* The lock of a breaker, of the breaker map and of the registry is never  *)
(* held across an await; one action is one turn of the loop up to its      *)
(* await.  A provider call answers, fails or hangs at will.                *)
(***************************************************************************)
EXTENDS Sequences, Functions, BreakerState

(* The pure part: the registry built from catalogs and the configuration   *)
(* overlay, the strategies that rank models for a task, the plan cut from a*)
(* ranking, and option clamping.  A model is a number standing for its key *)
(* "provider/model"; the order of the numbers is the order of the keys, which*)
(* breaks ties in a ranking.  Costs are integers.                          *)

CONSTANTS
    Models,         \* every "provider/model" anybody may name
    Provider,       \* [Models -> provider names]
    Providers,      \* the names in the ProviderSet
    Catalog,        \* [models of the providers' catalogs -> ModelInfo]
    Strategy,       \* the router's strategies in order (more than one: composite)
    Rules,          \* Seq([kind, model]) of the rule-based strategy
    DefaultModel,   \* its default model, or NoModel
    fallback_depth

NoModel == 0
NoKind == "none"

\* What the registry knows of a model; the costs are those per token.
Cost == [input : Int, output : Int]
ModelInfo == [capabilities : SUBSET STRING, max_input_tokens : Nat,
              max_output_tokens : Nat, cost : Cost]

ASSUME PlanAssumption ==
    /\ Models \subseteq Nat \ {NoModel} /\ IsFiniteSet(Models)
    /\ fallback_depth \in Nat
    /\ DOMAIN Catalog \subseteq {m \in Models : Provider[m] \in Providers}
    /\ \A m \in DOMAIN Catalog : Catalog[m] \in ModelInfo
    /\ Len(Strategy) \in Nat /\ DOMAIN Strategy = 1 .. Len(Strategy)
    /\ Len(Rules) \in Nat /\ DOMAIN Rules = 1 .. Len(Rules)
    /\ \A i \in DOMAIN Rules : Rules[i].model \in Models
    /\ DefaultModel \in Models \cup {NoModel}

-----------------------------------------------------------------------------
(* build_registry: base, cost overrides, disabled capabilities, disabled   *)
(* models, custom models, in this order.                                   *)

Priced(reg, cfg) ==
    [m \in DOMAIN reg |->
        IF m \in DOMAIN cfg.cost_overrides
        THEN [reg[m] EXCEPT !.cost = cfg.cost_overrides[m]] ELSE reg[m]]

Stripped(reg, cfg) ==
    [m \in DOMAIN reg |->
        IF m \in DOMAIN cfg.disabled_capabilities
        THEN [reg[m] EXCEPT !.capabilities = @ \ cfg.disabled_capabilities[m]]
        ELSE reg[m]]

Without(reg, cfg) == [m \in DOMAIN reg \ cfg.disabled_models |-> reg[m]]

WithCustom(reg, cfg) ==
    [m \in DOMAIN reg \cup DOMAIN cfg.custom_models |->
        IF m \in DOMAIN cfg.custom_models THEN cfg.custom_models[m] ELSE reg[m]]

\* A custom model of an unregistered provider is a configuration error.
ValidConfig(cfg) == \A m \in DOMAIN cfg.custom_models : Provider[m] \in Providers

BuildRegistry(cfg) ==
    WithCustom(Without(Stripped(Priced(Catalog, cfg), cfg), cfg), cfg)

-----------------------------------------------------------------------------
(* The strategies.                                                         *)

\* default_output_estimate
DefaultOutput(kind) ==
    CASE kind = "Classify" -> 64
      [] kind = "Extract"  -> 256
      [] kind = "CodeGen"  -> 1024
      [] kind = "Reason"   -> 2048
      [] OTHER             -> 512

EstCost(info, task) ==
    LET out == IF task.est_output_tokens > 0 THEN task.est_output_tokens
               ELSE DefaultOutput(task.kind)
    IN  task.est_input_tokens * info.cost.input + out * info.cost.output

\* reject_reason: does the capability strategy exclude a model?
Rejected(info, task) ==
    \/ ~(task.required \subseteq info.capabilities)
    \/ /\ task.est_input_tokens > 0 /\ info.max_input_tokens > 0
       /\ task.est_input_tokens > info.max_input_tokens
    \/ task.max_cost > 0 /\ EstCost(info, task) > task.max_cost

Score(info, task) ==
    CASE task.priority = "Cost"    -> 0 - EstCost(info, task)
      [] task.priority = "Speed"   -> 0 - info.max_input_tokens
      [] task.priority = "Quality" -> info.max_input_tokens

\* The elements of S in order; above[x] are the ones that come before x.
Sorted(S, above) ==
    [i \in 1 .. Cardinality(S) |-> CHOOSE x \in S : Cardinality(above[x]) = i - 1]

\* Best score first, ties by key.
Better(m, n, task, reg) ==
    \/ Score(reg[m], task) > Score(reg[n], task)
    \/ Score(reg[m], task) = Score(reg[n], task) /\ m < n

CapabilityRank(task, reg) ==
    LET fit == {m \in DOMAIN reg : ~Rejected(reg[m], task)}
    IN  Sorted(fit, [m \in fit |-> {n \in fit : Better(n, m, task, reg)}])

\* The rules of the task's kind in order, the default last; the registry is
\* not asked whether it knows the models.
RuleRank(task) ==
    LET matching == {i \in DOMAIN Rules : Rules[i].kind = task.kind /\ task.kind # NoKind}
        order == Sorted(matching, [i \in matching |-> {j \in matching : j < i}])
    IN  [i \in DOMAIN order |-> Rules[order[i]].model]
          \o (IF DefaultModel = NoModel THEN <<>> ELSE <<DefaultModel>>)

RankBy(strategy, task, reg) ==
    IF strategy = "rule_based" THEN RuleRank(task) ELSE CapabilityRank(task, reg)

\* CompositeStrategy: the first ranking that is not empty.
Rank(task, reg) ==
    LET voting == {i \in DOMAIN Strategy : RankBy(Strategy[i], task, reg) # <<>>}
        first == CHOOSE i \in voting : \A j \in voting : i <= j
    IN  IF voting = {} THEN <<>> ELSE RankBy(Strategy[first], task, reg)

\* The best first, or the pinned model alone.
Ranked(task, reg) == IF task.pin # NoModel THEN <<task.pin>> ELSE Rank(task, reg)

\* resolve_inner, Route::attempts: the pinned model alone, or the best
\* candidate and the next fallback_depth.
Plan(task, reg) ==
    LET ranked == Ranked(task, reg)
    IN  SubSeq(ranked, 1, IF Len(ranked) < 1 + fallback_depth
                          THEN Len(ranked) ELSE 1 + fallback_depth)

\* clamp_options on max_tokens for a model of registry reg; a model that is
\* not in it is not clamped.
Clamp(max_tokens, m, reg) ==
    IF m \in DOMAIN reg /\ reg[m].max_output_tokens > 0
       /\ max_tokens > reg[m].max_output_tokens
    THEN reg[m].max_output_tokens ELSE max_tokens

-----------------------------------------------------------------------------
(* The router and its requests.                                            *)

CONSTANTS
    Requests,
    Tasks,          \* the tasks a caller may route
    Overlays,       \* Seq of routing configurations; the first is built first
    max_retries,    \* RetryPolicy::max_retries, 0 for no policy
    MaxTokens       \* Options::max_tokens of every request

ASSUME RouterAssumption ==
    /\ IsFiniteSet(Requests)
    /\ max_retries \in Nat /\ MaxTokens \in Nat
    /\ Len(Overlays) \in Nat \ {0} /\ DOMAIN Overlays = 1 .. Len(Overlays)
    /\ \A i \in DOMAIN Overlays :
          LET cfg == Overlays[i]
          IN  /\ ValidConfig(cfg) /\ DOMAIN cfg.custom_models \subseteq Models
              /\ \A m \in DOMAIN cfg.custom_models : cfg.custom_models[m] \in ModelInfo
              /\ \A m \in DOMAIN cfg.cost_overrides : cfg.cost_overrides[m] \in Cost
    /\ Tasks # {}
    /\ \A t \in Tasks :
          /\ t.pin \in Models \cup {NoModel}
          /\ t.est_input_tokens \in Nat /\ t.est_output_tokens \in Nat
          /\ t.priority \in {"Cost", "Speed", "Quality"}

VARIABLES
    registry,   \* index of the overlay the current registry was built from
    breaker,    \* [Models -> State]
    request,    \* [Requests -> the local state of route() or route_stream()]
    lost        \* per model: admitted calls whose outcome was never reported (history)

vars == <<registry, breaker, request, lost>>

\* The registries that build_registry makes of the configurations.
Registry == [i \in DOMAIN Overlays |-> BuildRegistry(Overlays[i])]

\* What each registry makes of each task.
Rankings == [t \in Tasks |-> [i \in DOMAIN Overlays |-> Ranked(t, Registry[i])]]

Result == {"Ok", "GenAi", "AllRoutesFailed", "NoRoute", "DeadlineExceeded", "dropped"}

Idle ==
    [phase |-> "idle", stream |-> FALSE, task |-> CHOOSE t \in Tasks : TRUE,
     start |-> 1, plan |-> <<>>, reg |-> 1, next |-> 1, attempt |-> 0, failed |-> FALSE,
     tried |-> 0, called |-> <<>>, calls |-> 0, max_tokens |-> 0, late |-> FALSE,
     result |-> "dropped"]

Init ==
    /\ registry = 1
    /\ breaker = [m \in Models |-> New]
    /\ request = [r \in Requests |-> Idle]
    /\ lost = [m \in Models |-> 0]

Update(r, local) == request' = [request EXCEPT ![r] = local]

Ended(q, result) == [q EXCEPT !.phase = "done", !.result = result]

\* The model request r is at.
Candidate(q) == q.plan[q.next]

\* route / route_stream: the plan is made when the method is called.
Route(r, t, stream) ==
    LET q == [Idle EXCEPT !.stream = stream, !.task = t, !.start = registry,
                          !.plan = Plan(t, Registry[registry])]
    IN  /\ request[r].phase = "idle"
        /\ Update(r, IF q.plan = <<>> THEN Ended(q, "NoRoute")
                     ELSE [q EXCEPT !.phase = "planned"])
        /\ UNCHANGED <<registry, breaker, lost>>

\* execute / execute_stream is first polled and takes its own snapshot.
Execute(r) ==
    /\ request[r].phase = "planned"
    /\ Update(r, [request[r] EXCEPT !.phase = "attempting", !.reg = registry])
    /\ UNCHANGED <<registry, breaker, lost>>

\* MUTANT: the error of the last attempt is forgotten.
ExhaustedForgetting(r) ==
    LET q == request[r]
    IN  /\ q.phase = "attempting" /\ q.next > Len(q.plan)
        /\ Update(r, Ended(q, "NoRoute"))
        /\ UNCHANGED <<registry, breaker, lost>>

\* The loop is over: every candidate was skipped or failed.
Exhausted(r) ==
    LET q == request[r]
    IN  /\ q.phase = "attempting" /\ q.next > Len(q.plan)
        /\ Update(r, Ended(q, IF q.failed THEN "AllRoutesFailed" ELSE "NoRoute"))
        /\ UNCHANGED <<registry, breaker, lost>>

\* remaining(): the deadline is past before the next attempt.
TooLate(r) ==
    LET q == request[r]
    IN  /\ q.phase = "attempting" /\ q.next <= Len(q.plan)
        /\ q.late
        /\ Update(r, Ended(q, "DeadlineExceeded"))
        /\ UNCHANGED <<registry, breaker, lost>>

MayAttempt(q) == q.phase = "attempting" /\ q.next <= Len(q.plan) /\ ~q.late

\* The provider is not registered, or the model's breaker refuses.
Skip(r) ==
    LET q == request[r]
        m == Candidate(q)
    IN  /\ MayAttempt(q)
        /\ \/ /\ Provider[m] \notin Providers
              /\ UNCHANGED breaker
           \/ /\ Provider[m] \in Providers /\ ~Admits(breaker[m])
              /\ breaker' = [breaker EXCEPT ![m] = AfterCanExecute(@)]
        /\ Update(r, [q EXCEPT !.next = @ + 1])
        /\ UNCHANGED <<registry, lost>>

\* The breaker admits the call: clamp the options and call the provider.
Call(r) ==
    LET q == request[r]
        m == Candidate(q)
    IN  /\ MayAttempt(q)
        /\ Provider[m] \in Providers /\ Admits(breaker[m])
        /\ breaker' = [breaker EXCEPT ![m] = AfterCanExecute(@)]
        /\ Update(r, [q EXCEPT !.phase = "calling", !.attempt = 0,
                               !.tried = @ + 1, !.calls = @ + 1,
                               !.called = Append(@, m),
                               !.max_tokens = Clamp(MaxTokens, m, Registry[q.reg])])
        /\ UNCHANGED <<registry, lost>>

\* retry() goes round again; streams are not retried.
Retries(q) == ~q.stream /\ q.attempt < max_retries

\* A transient error that call_with_retry takes care of.
RetryCall(r) ==
    LET q == request[r]
    IN  /\ q.phase = "calling" /\ Retries(q)
        /\ Update(r, [q EXCEPT !.attempt = @ + 1, !.calls = @ + 1])
        /\ UNCHANGED <<registry, breaker, lost>>

\* on_execution of the model the request was calling.
Report(q, success) ==
    breaker' = [breaker EXCEPT ![Candidate(q)] = AfterReport(@, success)]

\* MUTANT: a failure is not reported to the breaker.
AnswerUnreported(r, outcome) ==
    LET q == request[r]
    IN  /\ q.phase = "calling"
        /\ outcome = "transient" => ~Retries(q)
        /\ IF outcome = "ok" THEN Report(q, TRUE) ELSE UNCHANGED breaker
        /\ Update(r, CASE outcome = "ok" -> Ended(q, "Ok")
                       [] outcome = "permanent" -> Ended([q EXCEPT !.failed = TRUE], "GenAi")
                       [] outcome = "transient" ->
                            [q EXCEPT !.phase = "attempting", !.failed = TRUE, !.next = @ + 1])
        /\ UNCHANGED <<registry, lost>>

\* The call returns to execute(): report, and return or fall over.
Answer(r, outcome) ==
    LET q == request[r]
    IN  /\ q.phase = "calling"
        /\ outcome = "transient" => ~Retries(q)
        /\ Report(q, outcome = "ok")
        /\ Update(r, CASE outcome = "ok" -> Ended(q, "Ok")
                       [] outcome = "permanent" -> Ended([q EXCEPT !.failed = TRUE], "GenAi")
                       [] outcome = "transient" ->
                            [q EXCEPT !.phase = "attempting", !.failed = TRUE, !.next = @ + 1])
        /\ UNCHANGED <<registry, lost>>

\* MUTANT: only execute() is under the timeout.
TimeOutUnstreamed(r) ==
    LET q == request[r]
    IN  /\ q.phase = "calling" /\ q.late /\ ~q.stream
        /\ Report(q, FALSE)
        /\ Update(r, Ended(q, "DeadlineExceeded"))
        /\ UNCHANGED <<registry, lost>>

\* tokio::time::timeout fires.  execute() reports a failure to the breaker,
\* execute_stream() reports nothing.
TimeOut(r) ==
    LET q == request[r]
    IN  /\ q.phase = "calling" /\ q.late
        /\ \/ ~q.stream /\ Report(q, FALSE) /\ UNCHANGED lost
           \/ /\ q.stream /\ UNCHANGED breaker
              /\ lost' = [lost EXCEPT ![Candidate(q)] = @ + 1]
        /\ Update(r, Ended(q, "DeadlineExceeded"))
        /\ UNCHANGED registry

\* The caller drops the future while the provider is being called.
Drop(r) ==
    LET q == request[r]
    IN  /\ q.phase = "calling"
        /\ lost' = [lost EXCEPT ![Candidate(q)] = @ + 1]
        /\ Update(r, Ended(q, "dropped"))
        /\ UNCHANGED <<registry, breaker>>

\* The deadline of r's task passes.
Deadline(r) ==
    LET q == request[r]
    IN  /\ q.phase \notin {"idle", "done"} /\ q.task.deadline /\ ~q.late
        /\ Update(r, [q EXCEPT !.late = TRUE])
        /\ UNCHANGED <<registry, breaker, lost>>

\* reload() swaps the registry.
Reload ==
    /\ registry < Len(Overlays)
    /\ registry' = registry + 1
    /\ UNCHANGED <<breaker, request, lost>>

\* The clock of the breakers' cooldowns moves.
Elapse ==
    /\ breaker' = [m \in Models |-> Tick(breaker[m])]
    /\ breaker' # breaker
    /\ UNCHANGED <<registry, request, lost>>

\* What the router's own task does when it is polled.
Proceed(r) == Execute(r) \/ Exhausted(r) \/ TooLate(r) \/ Skip(r) \/ Call(r) \/ TimeOut(r)

Next ==
    \/ \E r \in Requests :
          \/ \E t \in Tasks, stream \in BOOLEAN : Route(r, t, stream)
          \/ Proceed(r)
          \/ RetryCall(r)
          \/ \E outcome \in {"ok", "transient", "permanent"} : Answer(r, outcome)
          \/ Drop(r)
          \/ Deadline(r)
    \/ Reload
    \/ Elapse

Spec == Init /\ [][Next]_vars

\* A caller polls its future and timers fire; providers may hang for ever.
FairSpec == Spec /\ \A r \in Requests : WF_vars(Proceed(r))

-----------------------------------------------------------------------------
(* Properties.                                                             *)

\* Every variable has its type.
TypeOK ==
    /\ registry \in DOMAIN Overlays
    /\ breaker \in [Models -> State]
    /\ lost \in [Models -> Nat]
    /\ \A r \in Requests :
          /\ request[r].phase \in {"idle", "planned", "attempting", "calling", "done"}
          /\ request[r].task \in Tasks
          /\ request[r].start \in 1 .. registry /\ request[r].reg \in 1 .. registry
          /\ request[r].next \in 1 .. 2 + fallback_depth
          /\ request[r].result \in Result

\* However requests, reloads and timeouts interleave, the breaker of every
\* model stays within its thresholds (breaker_for, execute, execute_stream).
BreakersConsistent == \A m \in Models : Consistent(breaker[m])

\* The calls to model m under way.
CallsTo(m) == {r \in Requests : request[r].phase = "calling" /\ Candidate(request[r]) = m}

\* A trial slot of a half-open breaker is held by a call in progress or was
\* lost by a stream that timed out or a dropped future: every other way out of
\* the attempt loop reports to the breaker that admitted it.
SlotsBelongToCalls ==
    \A m \in Models :
        breaker[m].circuit = "HalfOpen" =>
            breaker[m].half_open_in_flight <= lost[m] + Cardinality(CallsTo(m))

\* Every model's breaker stays consistent, and its trial slots belong to
\* calls under way or lost, through retries, fallbacks, timeouts and
\* cancellations (default_router.rs:125-219).
BreakersSound == BreakersConsistent /\ SlotsBelongToCalls

\* The models a request calls are among the first 1 + fallback_depth of the
\* ranking it was resolved with, in that order, no entry twice: reload() does not
\* disturb a request under way.
CalledInRankOrder ==
    \A r \in Requests :
        LET q == request[r]
            ranked == Rankings[q.task][q.start]
        IN  \E at \in [DOMAIN q.called -> DOMAIN ranked \cap (1 .. 1 + fallback_depth)] :
                \A i \in DOMAIN q.called :
                    /\ q.called[i] = ranked[at[i]]
                    /\ \A j \in 1 .. i - 1 : at[j] < at[i]

\* A model the configuration disables, or whose needed capability it strips,
\* is called only by a rule, a pin or as a custom model.
EligibleCalls ==
    \A r \in Requests :
        LET q == request[r]
            cfg == Overlays[q.start]
        IN  \A m \in Range(q.called) \ DOMAIN cfg.custom_models :
                q.task.pin = NoModel /\ RuleRank(q.task) = <<>> =>
                    /\ m \notin cfg.disabled_models
                    /\ m \in DOMAIN cfg.disabled_capabilities =>
                          q.task.required \cap cfg.disabled_capabilities[m] = {}

\* One request calls at most 1 + fallback_depth models, each at most
\* 1 + max_retries times, once if it streams.
CallsBounded ==
    \A r \in Requests :
        LET q == request[r]
        IN  /\ q.tried <= 1 + fallback_depth
            /\ q.calls <= q.tried * (IF q.stream THEN 1 ELSE 1 + max_retries)

\* What the error says is what happened: NoRoute means that no provider was
\* called, AllRoutesFailed that the whole plan was gone through and
\* `attempts' of its models were called, Ok and GenAi that a call answered.
OutcomeHonest ==
    \A r \in Requests :
        LET q == request[r]
        IN  q.phase = "done" =>
              /\ q.result = "NoRoute" => q.called = <<>>
              /\ q.result = "AllRoutesFailed" =>
                    /\ q.called # <<>> /\ q.tried = Len(q.called)
                    /\ q.next > Len(q.plan)
              /\ q.result \in {"Ok", "GenAi"} =>
                    q.called # <<>> /\ q.called[Len(q.called)] = Candidate(q)

\* A request does what it was planned to do (default_router.rs:125-219): it
\* calls eligible models in the order of their rank, each at most as often as
\* retries and fallback_depth allow, and its result says what became of those
\* calls.
CallsFollowPlan ==
    TypeOK /\ CalledInRankOrder /\ EligibleCalls /\ CallsBounded /\ OutcomeHonest

\* A request whose deadline has passed ends, even if every provider hangs.
DeadlineEndsRequest ==
    \A r \in Requests : request[r].late ~> request[r].phase = "done"
=============================================================================
