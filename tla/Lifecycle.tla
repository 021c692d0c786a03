----------------------------- MODULE Lifecycle ------------------------------
(***************************************************************************)
(* The ComponentManager (lifecycle/manager.rs): registry, dependency graph *)
(* and per-component state behind one mutex, driven by concurrent tasks.   *)
(*                                                                         *)
(* A step of the model is one hold of that mutex, or the return of a       *)
(* component's own start() or stop().  Between two holds, and for as long  *)
(* as a component's future is pending, any other task may run.             *)
(***************************************************************************)
EXTENDS DependencyGraph

CONSTANTS
    Ids,    \* component ids
    Boot,   \* the edges <<id, depends_on>> declared before the model starts
    Tasks,  \* tasks that call the manager
    Ops     \* the operations they call, a subset of AllOps

AllOps == {"register", "unregister", "add_dependency",
           "start", "start_all", "start_all_with_timeout",
           "stop", "stop_all", "stop_all_with_timeout",
           "wait", "start_and_wait"}

ComponentState ==
    {"Unknown", "Error", "Stopped", "Stopping", "Running", "Starting"}

NotRegistered == "NotRegistered"

BootDeps == [i \in Ids |-> {d \in Ids : <<i, d>> \in Boot}]

ASSUME LifecycleAssumption ==
    /\ IsFiniteSet(Ids)
    /\ Ops \subseteq AllOps
    /\ Acyclic(BootDeps, Ids)

VARIABLES
    state,      \* Inner.watchers: per id its state, or NotRegistered
    pc,         \* per task: where it is in its operation
    op,         \* per task: the operation it is in
    todo,       \* per task: the ids its sweep has yet to handle
    dropped     \* history: components whose start() a timeout dropped

vars == <<deps, state, pc, op, todo, dropped>>

Registered == {i \in Ids : state[i] # NotRegistered}

\* The keys of Inner.components, Inner.deps and Inner.watchers are the same.
Init ==
    /\ deps = BootDeps
    /\ state = [i \in Ids |-> "Unknown"]
    /\ pc = [t \in Tasks |-> "idle"]
    /\ op = [t \in Tasks |-> "none"]
    /\ todo = [t \in Tasks |-> <<>>]
    /\ dropped = {}

\* The sweeps that go on past an error, each stop() bounded by a timeout.
BestEffort(t) == op[t] \in {"stop_all_with_timeout", "start_and_wait"}

-----------------------------------------------------------------------------
(***************************************************************************)
(* Registry and graph: one mutex hold each.                                *)
(***************************************************************************)
\* A known id gets a fresh channel in state Unknown and keeps its edges.
Register(t, i) ==
    /\ "register" \in Ops /\ pc[t] = "idle"
    /\ state' = [state EXCEPT ![i] = "Unknown"]
    /\ UNCHANGED <<deps, pc, op, todo, dropped>>

Unregister(t, i) ==
    /\ "unregister" \in Ops /\ pc[t] = "idle"
    /\ state' = [state EXCEPT ![i] = NotRegistered]
    /\ deps' = [j \in Ids |-> IF j = i THEN {} ELSE deps[j] \ {i}]
    /\ UNCHANGED <<pc, op, todo, dropped>>

\* Mutant: the edge is not taken back when it closes a cycle.
AddDependencyUnchecked(t, i, d) ==
    /\ "add_dependency" \in Ops /\ pc[t] = "idle"
    /\ i \in Registered /\ d \in Registered
    /\ deps' = [deps EXCEPT ![i] = @ \cup {d}]
    /\ UNCHANGED <<state, pc, op, todo, dropped>>

\* Inserts the edge, and takes it out again if topo_order fails.
AddDependency(t, i, d) ==
    /\ "add_dependency" \in Ops /\ pc[t] = "idle"
    /\ i \in Registered /\ d \in Registered
    /\ LET with == [deps EXCEPT ![i] = @ \cup {d}]
       IN deps' = IF Acyclic(with, Ids)
                  THEN with ELSE [deps EXCEPT ![i] = @ \ {d}]
    /\ UNCHANGED <<state, pc, op, todo, dropped>>

-----------------------------------------------------------------------------
(***************************************************************************)
(* Helpers for a task's step.                                              *)
(***************************************************************************)
Goto(t, label) == pc' = [pc EXCEPT ![t] = label]

Return(t) ==
    /\ Goto(t, "idle")
    /\ op' = [op EXCEPT ![t] = "none"]
    /\ todo' = [todo EXCEPT ![t] = <<>>]

\* transition(): nothing for an id that is not registered.
Transition(i, new) ==
    state' = IF i \in Registered THEN [state EXCEPT ![i] = new] ELSE state

Done(t) == todo' = [todo EXCEPT ![t] = Tail(@)]

Current(t) == Head(todo[t])

-----------------------------------------------------------------------------
(***************************************************************************)
(* Starting.                                                               *)
(***************************************************************************)
\* start(id), first hold: get_state.  An id that is not registered or is
\* Running makes it return an error at once, which changes nothing.
StartCall(t, i) ==
    /\ "start" \in Ops /\ pc[t] = "idle"
    /\ state[i] \notin {NotRegistered, "Running"}
    /\ Goto(t, "start_order")
    /\ op' = [op EXCEPT ![t] = "start"]
    /\ todo' = [todo EXCEPT ![t] = <<i>>]
    /\ UNCHANGED <<deps, state, dropped>>

\* start(id), second hold: start_order_for.
StartOrder(t) ==
    /\ pc[t] = "start_order"
    /\ LET targets == DependencyClosure(deps, Current(t), Ids) \cap Registered
       IN \E order \in TopoOrders(deps, targets) :
            todo' = [todo EXCEPT ![t] = order]
    /\ Goto(t, "start")
    /\ UNCHANGED <<deps, state, op, dropped>>

\* start_all, start_all_with_timeout and start_and_wait compute their order.
StartAllCall(t, o) ==
    /\ o \in Ops \cap {"start_all", "start_all_with_timeout", "start_and_wait"}
    /\ pc[t] = "idle"
    /\ \E order \in TopoOrders(deps, Registered) :
        todo' = [todo EXCEPT ![t] = order]
    /\ Goto(t, "start")
    /\ op' = [op EXCEPT ![t] = o]
    /\ UNCHANGED <<deps, state, dropped>>

\* start_one up to comp.start(): not found ends the sweep with an error, a
\* component that is running or being started is skipped, any other is
\* claimed by setting Starting in the same hold.
StartOne(t) ==
    /\ pc[t] = "start" /\ todo[t] # <<>>
    /\ LET i == Current(t) IN
       \/ i \notin Registered /\ Return(t) /\ UNCHANGED <<state, dropped>>
       \/ /\ state[i] \in {"Running", "Starting"}
          /\ Done(t) /\ UNCHANGED <<state, pc, op, dropped>>
       \/ /\ i \in Registered /\ state[i] \notin {"Running", "Starting"}
          /\ state' = [state EXCEPT ![i] = "Starting"]
          /\ dropped' = dropped \ {i}
          /\ Goto(t, "starting") /\ UNCHANGED <<op, todo>>
    /\ UNCHANGED deps

\* comp.start() returned; its outcome is published.
StartReturns(t, ok) ==
    /\ pc[t] = "starting"
    /\ Transition(Current(t), IF ok THEN "Running" ELSE "Error")
    /\ IF ok
       THEN Done(t) /\ Goto(t, "start") /\ UNCHANGED op
       ELSE Return(t)
    /\ UNCHANGED <<deps, dropped>>

\* The overall timeout of start_all_with_timeout drops the sweep where it
\* stands: inside a component's start().
StartTimeout(t) ==
    /\ pc[t] = "starting" /\ op[t] = "start_all_with_timeout"
    /\ Return(t)
    /\ dropped' = dropped \cup {Current(t)}
    /\ UNCHANGED <<deps, state>>

\* The sweep is over; start_and_wait goes on to wait_for_signal.
StartEnd(t) ==
    /\ pc[t] = "start" /\ todo[t] = <<>>
    /\ IF op[t] = "start_and_wait"
       THEN Goto(t, "signal") /\ UNCHANGED <<op, todo>>
       ELSE Return(t)
    /\ UNCHANGED <<deps, state, dropped>>

-----------------------------------------------------------------------------
(***************************************************************************)
(* Stopping.                                                               *)
(***************************************************************************)
\* stop(id), first hold: get_state.
StopCall(t, i) ==
    /\ "stop" \in Ops /\ pc[t] = "idle"
    /\ i \in Registered
    /\ Goto(t, "stop_order")
    /\ op' = [op EXCEPT ![t] = "stop"]
    /\ todo' = [todo EXCEPT ![t] = <<i>>]
    /\ UNCHANGED <<deps, state, dropped>>

\* Mutant: the order is not reversed.
StopOrderForward(t) ==
    /\ pc[t] = "stop_order"
    /\ LET targets == DependentClosure(deps, Current(t), Ids) \cap Registered
       IN \E order \in TopoOrders(deps, targets) :
            todo' = [todo EXCEPT ![t] = order]
    /\ Goto(t, "stop")
    /\ UNCHANGED <<deps, state, op, dropped>>

\* stop(id), second hold: stop_order_for, then order.reverse().
StopOrder(t) ==
    /\ pc[t] = "stop_order"
    /\ LET targets == DependentClosure(deps, Current(t), Ids) \cap Registered
       IN \E order \in TopoOrders(deps, targets) :
            todo' = [todo EXCEPT ![t] = Reversed(order)]
    /\ Goto(t, "stop")
    /\ UNCHANGED <<deps, state, op, dropped>>

\* stop_all and stop_all_with_timeout compute their order.
StopAllCall(t, o) ==
    /\ o \in Ops \cap {"stop_all", "stop_all_with_timeout"}
    /\ pc[t] = "idle"
    /\ \E order \in TopoOrders(deps, Registered) :
        todo' = [todo EXCEPT ![t] = Reversed(order)]
    /\ Goto(t, "stop")
    /\ op' = [op EXCEPT ![t] = o]
    /\ UNCHANGED <<deps, state, dropped>>

\* wait_for_signal returned: start_and_wait begins its bounded sweep.
Signal(t) ==
    /\ pc[t] = "signal"
    /\ \E order \in TopoOrders(deps, Registered) :
        todo' = [todo EXCEPT ![t] = Reversed(order)]
    /\ Goto(t, "stop")
    /\ UNCHANGED <<deps, state, op, dropped>>

\* An error of the component at hand: a best-effort sweep marks it (a hold of
\* its own, later) and goes on, any other sweep returns the error.
StopFails(t) ==
    IF BestEffort(t)
    THEN Goto(t, "mark_error") /\ UNCHANGED <<op, todo>>
    ELSE Return(t)

\* stop_one, first hold: look the component up and read its state.
StopRead(t) ==
    /\ pc[t] = "stop" /\ todo[t] # <<>>
    /\ LET i == Current(t) IN
       \/ i \notin Registered /\ StopFails(t)
       \/ /\ state[i] \in {"Stopped", "Unknown"}
          /\ Done(t) /\ UNCHANGED <<pc, op>>
       \/ /\ i \in Registered /\ state[i] \notin {"Stopped", "Unknown"}
          /\ Goto(t, "stop_begin") /\ UNCHANGED <<op, todo>>
    /\ UNCHANGED <<deps, state, dropped>>

\* stop_one, second hold: publish Stopping, then call comp.stop().
StopBegin(t) ==
    /\ pc[t] = "stop_begin"
    /\ Transition(Current(t), "Stopping")
    /\ Goto(t, "stopping")
    /\ UNCHANGED <<deps, op, todo, dropped>>

\* comp.stop() returned; its outcome is published.
StopReturns(t, ok) ==
    /\ pc[t] = "stopping"
    /\ Transition(Current(t), IF ok THEN "Stopped" ELSE "Error")
    /\ IF ok
       THEN Done(t) /\ Goto(t, "stop") /\ UNCHANGED op
       ELSE StopFails(t)
    /\ UNCHANGED <<deps, dropped>>

\* The per-component timeout of a best-effort sweep drops comp.stop().
StopTimeout(t) ==
    /\ pc[t] = "stopping" /\ BestEffort(t)
    /\ Goto(t, "mark_error")
    /\ UNCHANGED <<deps, state, op, todo, dropped>>

\* Mutant: the component that timed out is left as it is.
MarkErrorSkipped(t) ==
    /\ pc[t] = "mark_error"
    /\ Done(t) /\ Goto(t, "stop")
    /\ UNCHANGED <<deps, state, op, dropped>>

\* transition(&id, Error) of a best-effort sweep, which then goes on.
MarkError(t) ==
    /\ pc[t] = "mark_error"
    /\ Transition(Current(t), "Error")
    /\ Done(t) /\ Goto(t, "stop")
    /\ UNCHANGED <<deps, op, dropped>>

\* Mutant: the waiting tasks are not notified.
StopEndSilently(t) ==
    /\ pc[t] = "stop" /\ todo[t] = <<>>
    /\ Return(t)
    /\ UNCHANGED <<deps, state, dropped>>

\* The sweep is over.  A sweep over everything wakes every task in wait();
\* nothing wakes a start_and_wait that is waiting for a signal.
StopEnd(t) ==
    /\ pc[t] = "stop" /\ todo[t] = <<>>
    /\ IF op[t] = "stop"
       THEN Goto(t, "idle")
       ELSE pc' = [u \in Tasks |->
                    IF u = t \/ pc[u] = "waiting" THEN "idle" ELSE pc[u]]
    /\ op' = [u \in Tasks |-> IF pc'[u] = "idle" THEN "none" ELSE op[u]]
    /\ UNCHANGED <<deps, state, todo, dropped>>

\* wait(): the Notified future has no memory of an earlier notification.
WaitCall(t) ==
    /\ "wait" \in Ops /\ pc[t] = "idle"
    /\ Goto(t, "waiting")
    /\ op' = [op EXCEPT ![t] = "wait"]
    /\ UNCHANGED <<deps, state, todo, dropped>>

-----------------------------------------------------------------------------
(***************************************************************************)
(* Specification                                                           *)
(***************************************************************************)
Call(t) ==
    \/ \E i \in Ids : Register(t, i) \/ Unregister(t, i)
                     \/ StartCall(t, i) \/ StopCall(t, i)
    \/ \E i, d \in Ids : AddDependency(t, i, d)
    \/ \E o \in Ops : StartAllCall(t, o) \/ StopAllCall(t, o)
    \/ WaitCall(t)

\* Steps the runtime takes without waiting for a component or a signal.
Proceed(t) ==
    \/ StartOrder(t) \/ StartOne(t) \/ StartTimeout(t) \/ StartEnd(t)
    \/ StopOrder(t) \/ StopRead(t) \/ StopBegin(t) \/ StopTimeout(t)
    \/ MarkError(t) \/ StopEnd(t)

\* A component's future completes, or the process receives a signal.
External(t) ==
    \/ \E ok \in BOOLEAN : StartReturns(t, ok) \/ StopReturns(t, ok)
    \/ Signal(t)

Next == \E t \in Tasks : Call(t) \/ Proceed(t) \/ External(t)

Spec == Init /\ [][Next]_vars

\* Tasks are polled and timers fire.  No component need ever finish and no
\* signal need ever come.
FairSpec == Spec /\ \A t \in Tasks : WF_vars(Proceed(t))

-----------------------------------------------------------------------------
(***************************************************************************)
(* Properties                                                              *)
(***************************************************************************)
Labels == {"idle", "start_order", "start", "starting", "signal", "stop_order",
           "stop", "stop_begin", "stopping", "mark_error", "waiting"}

\* Every variable has its type, and a task that handles a component knows which.
TypeOK ==
    /\ deps \in [Ids -> SUBSET Ids]
    /\ state \in [Ids -> ComponentState \cup {NotRegistered}]
    /\ pc \in [Tasks -> Labels]
    /\ op \in [Tasks -> AllOps \cup {"none"}]
    /\ todo \in [Tasks -> Seq(Ids)]
    /\ dropped \subseteq Ids
    /\ \A t \in Tasks :
        pc[t] \in {"start_order", "starting", "stop_order", "stop_begin",
                  "stopping", "mark_error"} => todo[t] # <<>>

\* No edge outlives either of its ends: every dependency of a component is
\* registered, so a sweep over the graph's keys misses nothing (manager.rs:60).
GraphClosed ==
    \A i \in Ids :
        /\ deps[i] \subseteq Registered
        /\ i \notin Registered => deps[i] = {}

\* "Cycles are rejected by add_dependency" (manager.rs:28): whatever edges are
\* added and components removed, topo_order never fails in a sweep.
GraphAcyclic == Acyclic(deps, Ids)

\* The graph the sweeps rely on stays well formed while it is edited under
\* them: no dangling edge and no cycle (manager.rs:60, 75).
GraphSound == GraphClosed /\ GraphAcyclic

\* "In the middle of starting", "In the middle of stopping" (state.rs): a
\* component is Starting or Stopping only while a task is at it, so no
\* interleaving of sweeps leaves one in a state nobody will ever change.  The
\* one exception is a start() that start_all_with_timeout dropped.
TransientStatesOwned ==
    \A i \in Ids :
        /\ state[i] = "Starting" =>
            i \in dropped \/ \E t \in Tasks : pc[t] = "starting" /\ Current(t) = i
        /\ state[i] = "Stopping" =>
            \E t \in Tasks : pc[t] \in {"stopping", "mark_error"} /\ Current(t) = i

\* "two concurrent `start`s can't both pass the idempotency guard and
\* double-initialize the component" (manager.rs:245).
NoDoubleStart ==
    \A t, u \in Tasks :
        pc[t] = "starting" /\ pc[u] = "starting" /\ Current(t) = Current(u)
            => t = u

\* "Starts the component. Called after its dependencies are running."
\* (component.rs:25): comp.start() is only called once every dependency runs,
\* but for one whose own start() a timeout dropped.
DependenciesRunningFirst ==
    [][\A t \in Tasks :
        pc[t] # "starting" /\ pc'[t] = "starting"
            => \A d \in deps[Current(t)] : state[d] = "Running" \/ d \in dropped]_vars

\* "Stops the component. Called before its dependencies are stopped."
\* (component.rs:28): comp.stop() is only called once everything that depends
\* on the component is down, or was given up by a best-effort sweep.
DependentsDownFirst ==
    [][\A t \in Tasks :
        pc[t] # "stopping" /\ pc'[t] = "stopping"
            => \A x \in Ids : Current(t) \in deps[x]
                    => state[x] \in {"Stopped", "Unknown", "Error"}]_vars

\* "a component that times out or errors is marked Error and the sweep
\* continues" (manager.rs:191): a sweep that is about to report completion
\* has left no registered component running or half stopped.
SweepLeavesNothingRunning ==
    \A t \in Tasks :
        pc[t] = "stop" /\ todo[t] = <<>> /\ op[t] # "stop"
            => \A i \in Registered : state[i] \in {"Stopped", "Unknown", "Error"}

\* What a sweep promises (manager.rs:136-218): dependencies are up before a
\* component starts, dependents are down before it stops, and a full sweep
\* leaves nothing running.
SweepsInOrder ==
    []SweepLeavesNothingRunning /\ DependenciesRunningFirst /\ DependentsDownFirst

\* "one hung component cannot block shutdown until SIGKILL" (manager.rs:194):
\* a bounded sweep ends even if no component's stop() ever returns.
BoundedSweepEnds ==
    \A t \in Tasks : (pc[t] = "stop" /\ BestEffort(t)) ~> pc[t] = "idle"

\* A task that is in wait() while a bounded sweep is under way is released,
\* whether or not components fail or hang (manager.rs:213).
WaiterReleased ==
    \A t, u \in Tasks :
        (pc[t] = "waiting" /\ pc[u] = "stop" /\ BestEffort(u)) ~> pc[t] = "idle"

\* A bounded stop of everything ends and releases the waiters, whatever hangs
\* or fails and whatever the other tasks do (manager.rs:196-223).
SweepsEnd == BoundedSweepEnds /\ WaiterReleased
=============================================================================
