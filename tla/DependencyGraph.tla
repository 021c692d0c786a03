-------------------------- MODULE DependencyGraph ---------------------------
(***************************************************************************)
(* The dependency graph of the component manager, as its callers see it    *)
(* (lifecycle/manager.rs).  A graph d maps an id to the set of ids it      *)
(* depends on.  What the loops of topo_order and of the closures compute   *)
(* is stated here without their loops; TopoOrder.tla and SweepOrder.tla   *)
(* model the loops and show that they compute it.                          *)
(***************************************************************************)
EXTENDS Integers, Sequences, FiniteSets

VARIABLE deps    \* per id the ids it depends on: Inner.deps, and topo_order's argument

\* Every non-empty set of nodes has one with no dependency inside the set.
Acyclic(d, Nodes) ==
    \A S \in SUBSET Nodes : S # {} => \E n \in S : d[n] \cap S = {}

\* The least set that holds id and is closed under F.
LeastClosed(F(_), id, Nodes) ==
    {n \in Nodes :
        \A S \in SUBSET Nodes :
            (id \in S /\ \A m \in S : F(m) \cap Nodes \subseteq S) => n \in S}

\* dependency_closure: id and its transitive dependencies.
DependencyClosure(d, id, Nodes) ==
    LET dependencies(m) == d[m] IN LeastClosed(dependencies, id, Nodes)

\* dependent_closure: id and everything that transitively depends on it.
DependentClosure(d, id, Nodes) ==
    LET dependents(m) == {n \in Nodes : m \in d[n]}
    IN LeastClosed(dependents, id, Nodes)

\* The orders of S in which every node comes after its dependencies in S.
\* topo_order breaks ties by id; here any tie-break will do.
TopoOrders(d, S) ==
    {o \in [1 .. Cardinality(S) -> S] :
        /\ \A n \in S : \E i \in DOMAIN o : o[i] = n
        /\ \A i, j \in DOMAIN o : o[i] \in d[o[j]] => i < j}

\* order.reverse()
Reversed(o) == [i \in 1 .. Len(o) |-> o[Len(o) + 1 - i]]
=============================================================================
