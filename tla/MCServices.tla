----------------------------- MODULE MCServices -----------------------------
(* The circuit breaker, the rate limiter, the REST server component with its  *)
(* probes, the REST client's retries, downloads, provider streams, the        *)
(* embedding router, the vector store, the directory walk and the middleware  *)
(* chain for TLC. They share no state, so a behaviour is one of them.         *)
EXTENDS CircuitBreaker, RateLimiter, RestServer, RestClient, Storage, GenAiCalls,
        TurboLayers

VARIABLE focus

VectorsDef == {<<>>, <<1, 0>>, <<0 - 1, 2>>, <<0, 0>>, <<NaN, 1>>}
TreeDef == [n \in {"d", "e", "f", "g", "h"} |->
              CASE n \in {"d", "h"} -> "/" [] n \in {"e", "f"} -> "d" [] n = "g" -> "e"]
BodiesDef == {<<"a", "n", "a", "a", "n", "n", "a">>, <<"a", "a", "a", "a", "n", "a">>,
              <<"a", "h1", "h2", "n", "a">>}
StacksDef == {<<"metrics", "log", "trace">>, <<"trace", "gate", "log", "metrics">>,
              <<"metrics", "gate">>}

Machines == {"limit", "server", "health", "call", "store", "walk", "download", "stream", "embed",
             "layers", "breaker"}

(* One machine moves; the others rest. *)
On(m, A) ==
  /\ focus = m /\ A /\ UNCHANGED focus
  /\ IF m = "limit" THEN TRUE ELSE UNCHANGED limitVars
  /\ IF m = "server" THEN TRUE ELSE UNCHANGED serverVars
  /\ IF m = "health" THEN TRUE ELSE UNCHANGED healthVars
  /\ IF m = "call" THEN TRUE ELSE UNCHANGED callVars
  /\ IF m = "store" THEN TRUE ELSE UNCHANGED storeVars
  /\ IF m = "walk" THEN TRUE ELSE UNCHANGED walkVars
  /\ IF m = "download" THEN TRUE ELSE UNCHANGED dlVars
  /\ IF m = "stream" THEN TRUE ELSE UNCHANGED streamVars
  /\ IF m = "embed" THEN TRUE ELSE UNCHANGED embedVars
  /\ IF m = "layers" THEN TRUE ELSE UNCHANGED layerVars
  /\ IF m = "breaker" THEN TRUE ELSE UNCHANGED breakerVars

(* The machines that do not move start in one of their initial states. *)
Resting ==
  /\ focus # "limit" => flavor = "current_thread"
  /\ focus # "call" => builder = CHOOSE c \in Calls : TRUE
  /\ focus # "walk" => alive = {}
  /\ focus # "stream" => body = (CHOOSE b \in Bodies : TRUE) /\ fails = FALSE
  /\ focus # "embed" => embedders = {} /\ offered = {}
  /\ focus # "layers" => middlewares = CHOOSE s \in Stacks : TRUE

Init == /\ focus \in Machines /\ Resting
        /\ LimitInit /\ ServerInit /\ HealthInit /\ CallInit /\ StoreInit /\ WalkInit /\ DlInit
        /\ StreamInit /\ EmbedInit /\ LayerInit /\ BreakerInit

Next == \/ On("limit", LimitNext) \/ On("server", ServerNext) \/ On("health", HealthNext)
        \/ On("call", CallNext) \/ On("store", StoreNext) \/ On("walk", WalkNext)
        \/ On("download", DlNext) \/ On("stream", StreamNext) \/ On("embed", EmbedNext)
        \/ On("layers", LayerNext) \/ On("breaker", BreakerNext)

vars == <<focus, limitVars, serverVars, healthVars, callVars, storeVars, walkVars, dlVars,
          streamVars, embedVars, layerVars, breakerVars>>

(* The serve() task drains, a stop() that can take the lock or has joined     *)
(* goes on, a walk gets its next entry, the provider keeps sending and the    *)
(* consumer that stays keeps receiving; nobody has to call anything, but for  *)
(* the breaker: clocks advance, operations end and there is always a next     *)
(* caller.                                                                    *)
(* A behaviour has one focus, so fairness of a disjunction over machines is   *)
(* fairness of each.                                                          *)
Scheduled == \/ On("server", Drained) \/ On("walk", WalkStep) \/ On("stream", PumpStep)
             \/ On("breaker", Elapse)

Spec == /\ Init /\ [][Next]_vars
        /\ WF_vars(Scheduled) /\ WF_vars(On("stream", Receive))
        /\ \A s \in Stoppers : WF_vars(On("server", StopTakes(s) \/ StopJoined(s)))
        /\ \A c \in Callers : WF_vars(On("breaker", CanExecute(c) \/ Report(c)))
=============================================================================
