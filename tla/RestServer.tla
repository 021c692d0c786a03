----------------------------- MODULE RestServer -----------------------------
(* The REST server of rest/server/mod.rs and the probes it serves.            *)
EXTENDS Naturals, FiniteSets, Sequences, SequencesExt

(* rest/server/mod.rs: the Server component. Concurrent start() and stop()    *)
(* calls, whose futures may be dropped at an await, and the serve() task they *)
(* spawn and shut down.                                                       *)

CONSTANTS
  Starters, Stoppers   \* callers of start() and of stop()

VARIABLES
  handler,    \* the router to serve, until a start() takes it
  running,    \* the Option<Running>: whether it holds the server task
  lock,       \* who holds the lock of `running`: a stopper that joins, or "free"
  component,      \* the ComponentState
  task,       \* the serve() task: "none", "serving", "draining" or "ended"
  calls,      \* where each caller is
  binds,      \* history: listeners bound
  overlapped  \* history: stoppers whose call overlapped a start()

serverVars == <<handler, running, lock, component, task, calls, binds, overlapped>>

InStart(s) == calls[s] \in {"binding", "bound"}
InStop(s) == calls[s] \in {"stopping", "joining"}

ServerInit ==
  /\ handler = TRUE /\ running = FALSE /\ lock = "free" /\ component = "Unknown" /\ task = "none"
  /\ calls = [s \in Starters \cup Stoppers |-> "idle"]
  /\ binds = 0 /\ overlapped = {}

Goes(s, place) == calls' = [calls EXCEPT ![s] = place]

(* start(): the handler is taken before anything else can fail. *)
Start(s) ==
  /\ calls[s] = "idle"
  /\ Goes(s, IF handler THEN "binding" ELSE "already_started")
  /\ handler' = FALSE
  /\ overlapped' = overlapped \cup {t \in Stoppers : InStop(t)}
  /\ UNCHANGED <<running, lock, component, task, binds>>

BindFails(s) ==
  /\ calls[s] = "binding"
  /\ Goes(s, "failed")
  /\ UNCHANGED <<handler, running, lock, component, task, binds, overlapped>>

(* bind() succeeds and the serve() task is spawned; its shutdown handle is    *)
(* still in the hands of this future.                                         *)
Bind(s) ==
  /\ calls[s] = "binding"
  /\ Goes(s, "bound")
  /\ task' = "serving" /\ binds' = binds + 1
  /\ UNCHANGED <<handler, running, lock, component, overlapped>>

StartStores(s) ==
  /\ calls[s] = "bound" /\ lock = "free"
  /\ Goes(s, "started")
  /\ running' = TRUE /\ component' = "Running"
  /\ UNCHANGED <<handler, lock, task, binds, overlapped>>

(* The future is dropped at an await, as a start deadline does: a bound       *)
(* listener's shutdown sender goes with it, which ends serve().               *)
StartDropped(s) ==
  /\ InStart(s) /\ Goes(s, "dropped")
  /\ task' = IF calls[s] = "bound" THEN "draining" ELSE task
  /\ UNCHANGED <<handler, running, lock, component, binds, overlapped>>

Stop(s) ==
  /\ calls[s] = "idle" /\ Goes(s, "stopping")
  /\ overlapped' = overlapped \cup {t \in {s} : \E u \in Starters : InStart(u)}
  /\ UNCHANGED <<handler, running, lock, component, task, binds>>

(* running.lock().await.take(). The guard lives through the if let, so a      *)
(* stop() that has to join the task holds the lock meanwhile.                 *)
StopTakes(s) ==
  /\ calls[s] = "stopping" /\ lock = "free"
  /\ running' = FALSE
  /\ IF running
     THEN /\ lock' = s /\ Goes(s, "joining") /\ UNCHANGED component
          /\ task' = IF task = "serving" THEN "draining" ELSE task
     ELSE /\ component' = "Stopped" /\ Goes(s, "stopped") /\ UNCHANGED <<lock, task>>
  /\ UNCHANGED <<handler, binds, overlapped>>

(* serve() returns once its connections have drained. *)
Drained == /\ task = "draining" /\ task' = "ended"
           /\ UNCHANGED <<handler, running, lock, component, calls, binds, overlapped>>

StopJoined(s) ==
  /\ calls[s] = "joining" /\ task = "ended"
  /\ lock' = "free" /\ component' = "Stopped" /\ Goes(s, "stopped")
  /\ UNCHANGED <<handler, running, task, binds, overlapped>>

(* MUTANT: a dropped stop() keeps the lock. *)
StopDroppedLocked(s) ==
  /\ InStop(s) /\ Goes(s, "dropped")
  /\ UNCHANGED <<handler, running, lock, component, task, binds, overlapped>>

(* Dropped while it waits or joins: the guard goes, the task drains alone.    *)
StopDropped(s) ==
  /\ InStop(s) /\ Goes(s, "dropped")
  /\ lock' = IF lock = s THEN "free" ELSE lock
  /\ UNCHANGED <<handler, running, component, task, binds, overlapped>>

ServerNext ==
  \/ Drained
  \/ \E s \in Starters : Start(s) \/ StartDropped(s) \/ BindFails(s) \/ Bind(s) \/ StartStores(s)
  \/ \E s \in Stoppers : Stop(s) \/ StopTakes(s) \/ StopJoined(s) \/ StopDropped(s)

-----------------------------------------------------------------------------
(* At most one start() ever gets a listener: the handler can be taken only    *)
(* once (rest/server/mod.rs:90).                                              *)
OneListener == binds <= 1 /\ Cardinality({s \in Starters : calls[s] = "started"}) <= 1

(* A stop() that overlapped no start() returns only when nothing listens any  *)
(* more, but for a listener that still drains because the start() that bound  *)
(* it or the stop() that joined it was dropped (rest/server/mod.rs:119).      *)
StopMeansDown ==
  [][\A s \in Stoppers :
       calls[s] # "stopped" /\ calls'[s] = "stopped" /\ s \notin overlapped =>
         \/ task' \in {"none", "ended"}
         \/ task' = "draining" /\ \E u \in DOMAIN calls : calls[u] = "dropped"]_serverVars

(* Every stop() returns once the connections drain, also behind another       *)
(* stop() that joins (rest/server/mod.rs:121).                                *)
EveryStopReturns == \A s \in Stoppers : (calls[s] = "stopping") ~> (calls[s] \in {"stopped", "dropped"})

(* A listener whose start() was dropped before it stored the handle closes    *)
(* (rest/server/mod.rs:107).                                                  *)
DroppedStartCloses ==
  (\E s \in Starters : calls[s] = "dropped") ~> (task \in {"none", "ended"} \/ running)

(* At most one listener, and it can be got rid of: stop() returns and means   *)
(* down, and a start() that was dropped leaves none behind                    *)
(* (rest/server/mod.rs:90-130).                                               *)
ServerStops == []OneListener /\ StopMeansDown /\ EveryStopReturns /\ DroppedStartCloses

-----------------------------------------------------------------------------
(* lifecycle/health.rs and the probes rest/server/mod.rs serves from it. A    *)
(* report runs the registered checks one after another without the lock,      *)
(* while the things they look at change; /health makes two reports.           *)

CONSTANTS
  Checks,       \* names that may be registered
  MaxFlips      \* bound on the changes of what the checks look at

Statuses == {"up", "degraded", "down"}

VARIABLES
  registered,   \* the Vec of checks, in registration order
  truth,        \* what each check would answer now
  probe,        \* the request being served: [kind, phase, snap, left, first, second]
  answer,       \* the last response: [kind, code, overall], overall only for /health
  flips,        \* history: changes so far
  witnessed          \* history: the answers each check could have given during the request

healthVars == <<registered, truth, probe, answer, flips, witnessed>>

NoProbe == [kind |-> "none", phase |-> 0, left |-> <<>>, reports |-> <<<<>>, <<>>>>]
NoAnswer == [kind |-> "none", code |-> 0, overall |-> "none"]

HealthInit ==
  /\ registered = <<>> /\ truth = [c \in Checks |-> "up"]
  /\ probe = NoProbe /\ answer = NoAnswer /\ flips = 0
  /\ witnessed = [c \in Checks |-> {}]

(* HealthRegistry::register pushes; names are not checked for duplicates. *)
Register(c) ==
  /\ Len(registered) < Cardinality(Checks)
  /\ registered' = Append(registered, c)
  /\ UNCHANGED <<truth, probe, answer, flips, witnessed>>

Flip(c, s) ==
  /\ flips < MaxFlips /\ truth[c] # s
  /\ flips' = flips + 1
  /\ truth' = [truth EXCEPT ![c] = s]
  /\ witnessed' = IF probe.kind = "none" THEN witnessed ELSE [witnessed EXCEPT ![c] = @ \cup {s}]
  /\ UNCHANGED <<registered, probe, answer>>

(* report(): the checks registered now. *)
Probe(kind) ==
  /\ probe.kind = "none"
  /\ probe' = [kind |-> kind, phase |-> 1, left |-> registered, reports |-> <<<<>>, <<>>>>]
  /\ witnessed' = [c \in Checks |-> {truth[c]}]
  /\ answer' = NoAnswer
  /\ UNCHANGED <<registered, truth, flips>>

RunCheck ==
  /\ probe.kind # "none" /\ probe.left # <<>>
  /\ probe' = [probe EXCEPT !.left = Tail(@),
                            !.reports[probe.phase] = Append(@, truth[Head(probe.left)])]
  /\ UNCHANGED <<registered, truth, answer, flips, witnessed>>

(* MUTANT: the last check decides. *)
WorstLast(report) == IF report = <<>> THEN "up" ELSE Last(report)

(* overall() and the aggregate of to_json(). *)
Worst(report) ==
  IF "down" \in Range(report) THEN "down"
  ELSE IF "degraded" \in Range(report) THEN "degraded" ELSE "up"

(* /health: overall() decides the code; to_json() snapshots and runs again. *)
SecondReport ==
  /\ probe.kind = "health" /\ probe.phase = 1 /\ probe.left = <<>>
  /\ probe' = [probe EXCEPT !.phase = 2, !.left = registered]
  /\ UNCHANGED <<registered, truth, answer, flips, witnessed>>

Code(down) == IF down THEN 503 ELSE 200

HealthAnswers ==
  /\ probe.kind = "health" /\ probe.phase = 2 /\ probe.left = <<>>
  /\ answer' = [kind |-> "health", code |-> Code(Worst(probe.reports[1]) = "down"),
                overall |-> Worst(probe.reports[2])]
  /\ probe' = NoProbe
  /\ UNCHANGED <<registered, truth, flips, witnessed>>

(* is_ready(): every check is up. *)
IsReady(report) == \A i \in 1..Len(report) : report[i] = "up"

ReadyAnswers ==
  /\ probe.kind = "ready" /\ probe.left = <<>>
  /\ answer' = [kind |-> "ready", code |-> Code(~IsReady(probe.reports[1])), overall |-> "none"]
  /\ probe' = NoProbe
  /\ UNCHANGED <<registered, truth, flips, witnessed>>

HealthNext ==
  \/ RunCheck \/ SecondReport \/ HealthAnswers \/ ReadyAnswers
  \/ \E c \in Checks : Register(c) \/ \E s \in Statuses : Flip(c, s)
  \/ \E kind \in {"health", "ready"} : Probe(kind)

-----------------------------------------------------------------------------
(* A 503 is one some check's history explains: /health answers it only if a   *)
(* check was down at some time during the request, /ready only if one was not *)
(* up (rest/server/mod.rs:251, 263; health.rs:70).                            *)
ProbeExplained ==
  answer.kind # "none" =>
    LET bad == IF answer.kind = "health" THEN {"down"} ELSE {"down", "degraded"}
    IN answer.code = 503 => \E c \in Range(registered) : witnessed[c] \cap bad # {}

(* A check that was down all along is never missed: the code and the body of  *)
(* /health, which come from two reports, both say so (rest/server/mod.rs:258).*)
ProbeMisses ==
  [][\A c \in Range(registered) :
       probe.kind = "health" /\ probe'.kind = "none" /\ witnessed[c] = {"down"}
         /\ Len(probe.reports[1]) = Len(registered) =>
           answer'.code = 503 /\ answer'.overall = "down"]_healthVars

(* A readiness probe passes only if every check it ran was up at some time    *)
(* during it (health.rs:83).                                                  *)
ReadyExplained ==
  [][probe.kind = "ready" /\ probe'.kind = "none" /\ answer'.code = 200 =>
       \A i \in 1..Len(probe.reports[1]) : "up" \in witnessed[registered[i]]]_healthVars

(* A probe answers from what the checks were while it ran, though it runs     *)
(* them twice and they change meanwhile (rest/server/mod.rs:251, 263).        *)
ProbesHonest == []ProbeExplained /\ ProbeMisses /\ ReadyExplained
=============================================================================
