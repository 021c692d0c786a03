----------------------------- MODULE SweepOrder -----------------------------
(***************************************************************************)
(* start_order_for and stop_order_for (lifecycle/manager.rs:323 and 331):  *)
(* the loop of a closure, then the loop of topo_order on the same graph,   *)
(* then a filter; stop() reverses the outcome.  It is one hold of the      *)
(* manager's mutex, so Lifecycle takes it in one step, choosing from       *)
(* TopoOrders of the closure.  This module shows that choice right.        *)
(*                                                                         *)
(* dependency_closure and dependent_closure (manager.rs:421 and 438) share *)
(* a worklist loop, one action per turn here.  They differ in the          *)
(* neighbours they push, and both push them in the unspecified iteration   *)
(* order of a hash container.                                              *)
(***************************************************************************)
EXTENDS TopoOrder

VARIABLES
    id,         \* the component to start or stop
    direction,  \* "dependencies" to start it, "dependents" to stop it
    seen,       \* the closure's set
    stack,      \* the closure's worklist
    sweep       \* the list of ids the sweep will follow, or Pending

\* A finished list holds at least id.
Pending == <<>>

sweepVars == <<deps, in_degree, queue, order, result, id, direction, seen, stack, sweep>>

SweepInit ==
    /\ TopoInit
    /\ id \in Nodes
    /\ direction \in {"dependencies", "dependents"}
    /\ seen = {}
    /\ stack = <<id>>
    /\ sweep = Pending

-----------------------------------------------------------------------------
Neighbours(n) == IF direction = "dependencies" THEN deps[n] ELSE Dependents(n)

Enumerations(S) ==
    {s \in [1 .. Cardinality(S) -> S] : \A n \in S : \E i \in DOMAIN s : s[i] = n}

\* Mutant: a node is expanded each time it comes off the stack.
ClosureStepAgain ==
    /\ stack # <<>>
    /\ LET n == stack[Len(stack)]
           rest == SubSeq(stack, 1, Len(stack) - 1)
       IN /\ Len(stack) < 6
          /\ seen' = seen \cup {n}
          /\ \E pushed \in Enumerations(Neighbours(n)) : stack' = rest \o pushed
    /\ UNCHANGED <<deps, in_degree, queue, order, result, id, direction, sweep>>

\* while let Some(n) = stack.pop()
ClosureStep ==
    /\ stack # <<>>
    /\ LET n == stack[Len(stack)]
           rest == SubSeq(stack, 1, Len(stack) - 1)
       IN IF n \in seen
          THEN stack' = rest /\ UNCHANGED seen
          ELSE /\ seen' = seen \cup {n}
               /\ \E pushed \in Enumerations(Neighbours(n)) :
                    stack' = rest \o pushed
    /\ UNCHANGED <<deps, in_degree, queue, order, result, id, direction, sweep>>

TopoStep ==
    /\ stack = <<>>
    /\ TopoNext
    /\ UNCHANGED <<id, direction, seen, stack, sweep>>

\* full.into_iter().filter(..).collect(), and order.reverse() in stop().
Filter ==
    /\ result = "Ok" /\ sweep = Pending
    /\ LET wanted(n) == n \in seen
           kept == SelectSeq(order, wanted)
       IN sweep' = IF direction = "dependencies" THEN kept ELSE Reversed(kept)
    /\ UNCHANGED <<deps, in_degree, queue, order, result, id, direction, seen, stack>>

SweepNext == ClosureStep \/ TopoStep \/ Filter

SweepSpec == SweepInit /\ [][SweepNext]_sweepVars /\ WF_sweepVars(SweepNext)

-----------------------------------------------------------------------------
\* What Lifecycle assumes of a sweep's list: it holds exactly the closure, each
\* id once, dependencies first to start and dependents first to stop
\* (manager.rs:323-339).
SweepIsTopoOrder ==
    sweep # Pending =>
        IF direction = "dependencies"
        THEN sweep \in TopoOrders(deps, DependencyClosure(deps, id, Nodes))
        ELSE Reversed(sweep) \in TopoOrders(deps, DependentClosure(deps, id, Nodes))

\* When the worklist is empty, seen is the least closed set: nothing that must
\* start first (or stop first) is missing and nothing unrelated is touched,
\* cycles included, whatever the hash iteration order (manager.rs:421-462).
ClosureCorrect ==
    stack = <<>> =>
        seen = IF direction = "dependencies"
               THEN DependencyClosure(deps, id, Nodes)
               ELSE DependentClosure(deps, id, Nodes)

\* Both loops end on every graph, cyclic ones included (manager.rs:393, 425,
\* 448).
Terminates == <>(result = "CyclicDependency" \/ sweep # Pending)

\* start_order_for and stop_order_for are totally correct (manager.rs:323):
\* the closure is exactly what can be reached from id, the sweep is a
\* topological order of it (reversed for a stop), and both loops end.
SweepCorrect == []ClosureCorrect /\ []SweepIsTopoOrder /\ Terminates
=============================================================================
