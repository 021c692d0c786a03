----------------------------- MODULE TurboLayers ----------------------------
(* turbo/mod.rs: Next::run through the middlewares of concurrent requests,    *)
(* with the layers metrics(), access_log() and trace_context() of the         *)
(* framework and a layer "gate" of the application that may answer itself. A  *)
(* handler may panic, which unwinds the request's task.                       *)
EXTENDS Integers, Sequences, FiniteSets

CONSTANTS
  Requests,
  Stacks        \* middleware stacks, first registered first

(* No layer is registered twice in a stack. *)
ASSUME StackAssumption ==
  /\ IsFiniteSet(Requests)
  /\ \A s \in Stacks : /\ s \in Seq(STRING)
                       /\ \A i, j \in 1..Len(s) : s[i] = s[j] => i = j

VARIABLES
  middlewares,  \* the router's stack
  index,        \* the layer each request enters next; 0 before it arrives
  phase,        \* "new", "down", "up", "done" or "panicked"
  status,       \* the response on its way out
  in_flight,    \* the gauge http_requests_in_flight
  total,        \* http_requests_total, by status
  logged,       \* access log lines: [request, status, trace]
  LOG_FIELDS,   \* the task-local of each request's task: whether it is set
  spent         \* history: layers whose second half ran, per request

layerVars == <<middlewares, index, phase, status, in_flight, total, logged, LOG_FIELDS, spent>>

Outcomes == {"200", "404"}

LayerInit ==
  /\ middlewares \in Stacks
  /\ index = [r \in Requests |-> 1] /\ phase = [r \in Requests |-> "new"]
  /\ status = [r \in Requests |-> "none"] /\ in_flight = 0
  /\ total = [s \in Outcomes \cup {"429"} |-> 0] /\ logged = {}
  /\ LOG_FIELDS = [r \in Requests |-> FALSE] /\ spent = [r \in Requests |-> <<>>]

(* RouterService::handle *)
Handle(r) ==
  /\ phase[r] = "new" /\ phase' = [phase EXCEPT ![r] = "down"]
  /\ UNCHANGED <<middlewares, index, status, in_flight, total, logged, LOG_FIELDS, spent>>

(* The first half of the layer at index, up to next.run(ctx). *)
EnterLayer(r) ==
  /\ phase[r] = "down" /\ index[r] <= Len(middlewares)
  /\ in_flight' = IF middlewares[index[r]] = "metrics" THEN in_flight + 1 ELSE in_flight
  /\ LOG_FIELDS' = IF middlewares[index[r]] = "trace" THEN [LOG_FIELDS EXCEPT ![r] = TRUE]
                   ELSE LOG_FIELDS
  /\ index' = [index EXCEPT ![r] = @ + 1]
  /\ UNCHANGED <<middlewares, phase, status, total, logged, spent>>

Turn(r, s) == /\ phase' = [phase EXCEPT ![r] = "up"] /\ status' = [status EXCEPT ![r] = s]

(* A layer that does not call next.run. *)
ShortCircuit(r) ==
  /\ phase[r] = "down" /\ index[r] <= Len(middlewares) /\ middlewares[index[r]] = "gate"
  /\ Turn(r, "429")
  /\ UNCHANGED <<middlewares, index, in_flight, total, logged, LOG_FIELDS, spent>>

(* core_dispatch behind the last layer. *)
Dispatch(r, s) ==
  /\ phase[r] = "down" /\ index[r] > Len(middlewares)
  /\ Turn(r, s)
  /\ UNCHANGED <<middlewares, index, in_flight, total, logged, LOG_FIELDS, spent>>

(* The handler panics: no second half runs, the task and its locals are gone. *)
Panics(r) ==
  /\ phase[r] = "down" /\ index[r] > Len(middlewares)
  /\ phase' = [phase EXCEPT ![r] = "panicked"]
  /\ LOG_FIELDS' = [LOG_FIELDS EXCEPT ![r] = FALSE]
  /\ UNCHANGED <<middlewares, index, status, in_flight, total, logged, spent>>

Lowered(layer, r) == IF layer = "metrics" THEN in_flight - 1 ELSE in_flight

(* MUTANT: the context outlives its scope. *)
ScopeLeaks(layer, r) == LOG_FIELDS

(* LOG_FIELDS.scope ends with the inner future. *)
ScopeEnds(layer, r) ==
  IF layer = "trace" THEN [LOG_FIELDS EXCEPT ![r] = FALSE] ELSE LOG_FIELDS

Line(r) == [request |-> r, status |-> status[r], trace |-> LOG_FIELDS[r]]

(* The second half of the innermost layer entered. *)
LeaveLayer(r) ==
  /\ phase[r] = "up" /\ index[r] > 1
  /\ LET layer == middlewares[index[r] - 1] IN
     /\ in_flight' = Lowered(layer, r)
     /\ total' = IF layer = "metrics" THEN [total EXCEPT ![status[r]] = @ + 1] ELSE total
     /\ logged' = IF layer = "log" THEN logged \cup {Line(r)} ELSE logged
     /\ LOG_FIELDS' = ScopeEnds(layer, r)
  /\ index' = [index EXCEPT ![r] = @ - 1]
  /\ spent' = [spent EXCEPT ![r] = Append(@, index[r] - 1)]
  /\ UNCHANGED <<middlewares, phase, status>>

Answer(r) ==
  /\ phase[r] = "up" /\ index[r] = 1 /\ phase' = [phase EXCEPT ![r] = "done"]
  /\ UNCHANGED <<middlewares, index, status, in_flight, total, logged, LOG_FIELDS, spent>>

LayerNext ==
  \E r \in Requests : \/ Handle(r) \/ EnterLayer(r) \/ ShortCircuit(r) \/ Panics(r)
                      \/ LeaveLayer(r) \/ Answer(r) \/ \E s \in Outcomes : Dispatch(r, s)

-----------------------------------------------------------------------------
LayerSpec == LayerInit /\ [][LayerNext]_layerVars

Inside(r, layer) == /\ phase[r] \in {"down", "up", "panicked"}
                    /\ \E i \in 1..(index[r] - 1) : middlewares[i] = layer

(* Requests that left the metrics layer with status s. *)
Metered(s) ==
  {r \in Requests : /\ status[r] = s /\ phase[r] \in {"up", "done"}
                    /\ \E i \in 1..Len(spent[r]) : middlewares[spent[r][i]] = "metrics"}

(* The in-flight gauge is the number of requests between the halves of the    *)
(* metrics layer plus those that panicked there, which it counts for ever; it *)
(* is never negative, and every request that left is counted under its status *)
(* (turbo/mod.rs:516, 520, 522).                                              *)
GaugeDriftsByPanics ==
  /\ in_flight = Cardinality({r \in Requests : Inside(r, "metrics")})
  /\ \A s \in DOMAIN total : total[s] = Cardinality(Metered(s))

(* Log lines carry the request's trace_id exactly when the trace layer is     *)
(* outside the access log, and the layer's scope is left with the request     *)
(* (turbo/mod.rs:571, 488).                                                   *)
TraceScoped ==
  /\ \A l \in logged :
       l.trace <=> \E j \in 1..Len(middlewares) : \E i \in 1..(j - 1) :
                      middlewares[i] = "trace" /\ middlewares[j] = "log"
  /\ \A r \in Requests : LOG_FIELDS[r] => phase[r] \in {"down", "up"} /\ Inside(r, "trace")

(* What a chain of middlewares leaves behind when handlers panic: a gauge off *)
(* by exactly the panics, and no trace context (turbo/mod.rs:516).            *)
LayersUnwind == GaugeDriftsByPanics /\ TraceScoped
=============================================================================
