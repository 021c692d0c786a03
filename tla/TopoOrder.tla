----------------------------- MODULE TopoOrder ------------------------------
(***************************************************************************)
(* Kahn's algorithm as topo_order runs it (lifecycle/manager.rs:369), one  *)
(* action per turn of its loop.  Node ids are ordered, as the strings are  *)
(* in the code; Sortings(S) stands for collecting S and sorting it.        *)
(***************************************************************************)
EXTENDS DependencyGraph

CONSTANT Nodes

ASSUME NodesAssumption == Nodes \in SUBSET Nat /\ IsFiniteSet(Nodes)

VARIABLES
    in_degree,
    queue,
    order,
    result      \* "running" until the function returns

topoVars == <<deps, in_degree, queue, order, result>>

\* The increasing enumeration of S (sort_unstable).
Sortings(S) ==
    {s \in [1 .. Cardinality(S) -> S] :
        /\ \A n \in S : \E i \in DOMAIN s : s[i] = n
        /\ \A i, j \in DOMAIN s : i < j => s[i] < s[j]}

TopoInit ==
    /\ deps \in [Nodes -> SUBSET Nodes]
    /\ in_degree = [n \in Nodes |-> Cardinality(deps[n])]
    /\ queue \in Sortings({n \in Nodes : in_degree[n] = 0})
    /\ order = <<>>
    /\ result = "running"

\* The dependents of n, and those of them with no other dependency left.
Dependents(n) == {m \in Nodes : n \in deps[m]}

Ready(n) == {m \in Dependents(n) : in_degree[m] = 1}

Decremented(n) ==
    [m \in Nodes |->
        IF m \in Dependents(n) THEN in_degree[m] - 1 ELSE in_degree[m]]

\* while let Some(n) = queue.pop_front()
Pop ==
    /\ result = "running"
    /\ queue # <<>>
    /\ LET n == Head(queue)
       IN /\ order' = Append(order, n)
          /\ in_degree' = Decremented(n)
          /\ \E ready \in Sortings(Ready(n)) : queue' = Tail(queue) \o ready
    /\ UNCHANGED <<deps, result>>

\* Mutant: the length is not compared with the number of nodes.
TopoReturnAlwaysOk ==
    /\ result = "running" /\ queue = <<>>
    /\ result' = "Ok"
    /\ UNCHANGED <<deps, in_degree, queue, order>>

TopoReturn ==
    /\ result = "running"
    /\ queue = <<>>
    /\ result' = IF Len(order) # Cardinality(Nodes)
                 THEN "CyclicDependency" ELSE "Ok"
    /\ UNCHANGED <<deps, in_degree, queue, order>>

TopoNext == Pop \/ TopoReturn

TopoSpec == TopoInit /\ [][TopoNext]_topoVars

-----------------------------------------------------------------------------
Popped == {order[i] : i \in 1 .. Len(order)}

Queued == {queue[i] : i \in 1 .. Len(queue)}

\* Every variable has its type; in particular the usize decrement at
\* manager.rs:399 never goes below zero.
TopoTypeOK ==
    /\ deps \in [Nodes -> SUBSET Nodes]
    /\ in_degree \in [Nodes -> Nat]
    /\ queue \in Seq(Nodes)
    /\ order \in Seq(Nodes)
    /\ result \in {"running", "Ok", "CyclicDependency"}

\* The loop invariant of manager.rs:393-407: a node's count is the number of
\* its dependencies not yet in the order, and it is in the order or in the
\* queue exactly when that count is zero.
CountsAreExact ==
    \A n \in Nodes :
        /\ in_degree[n] = Cardinality(deps[n] \ Popped)
        /\ deps[n] \subseteq Popped <=> n \in Popped \cup Queued

\* What topo_order promises add_dependency and the sweeps: Ok comes with every
\* node once, dependencies first, and the graph has no cycle; Err means it has.
ResultCorrect ==
    /\ result = "Ok" =>
        /\ Acyclic(deps, Nodes)
        /\ Len(order) = Cardinality(Nodes)
        /\ Popped = Nodes
        /\ \A i, j \in 1 .. Len(order) : order[i] \in deps[order[j]] => i < j
    /\ result = "CyclicDependency" => ~ Acyclic(deps, Nodes)

\* Kahn's loop (manager.rs:393-417) never underflows a count, keeps them exact
\* at every turn, and returns the right answer.
TopoSound == TopoTypeOK /\ CountsAreExact /\ ResultCorrect
=============================================================================
