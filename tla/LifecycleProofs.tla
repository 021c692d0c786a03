-------------------------- MODULE LifecycleProofs ---------------------------
(***************************************************************************)
(* Proofs about the component manager, for any components, tasks and       *)
(* initial graph: topo_order's loop; types, the dependency graph, who owns *)
(* a component that is changing state, and the claim of start_one.         *)
(***************************************************************************)
EXTENDS TopoOrder, Lifecycle, FiniteSetTheorems, TLAPS

-----------------------------------------------------------------------------
(***************************************************************************)
(* topo_order: partial correctness of its loop, for every finite graph.    *)
(* The argument is the loop invariant IInv: the order and the queue        *)
(* together list, once each, the nodes whose dependencies are all in the   *)
(* order.                                                                  *)
(***************************************************************************)
\* No node is listed twice in the order, in the queue, or in both.
NoRepeats ==
    /\ \A i, j \in 1 .. Len(order) : order[i] = order[j] => i = j
    /\ \A i, j \in 1 .. Len(queue) : queue[i] = queue[j] => i = j
    /\ Popped \cap Queued = {}

\* Every node in the order comes after its dependencies.
DependenciesFirst ==
    \A j \in 1 .. Len(order) : \A d \in deps[order[j]] :
        \E i \in 1 .. j - 1 : order[i] = d

\* The nodes in the order contain no cycle.
PoppedAcyclic == Acyclic(deps, Popped)

IInv == TopoTypeOK /\ CountsAreExact /\ NoRepeats /\ DependenciesFirst
        /\ PoppedAcyclic

-----------------------------------------------------------------------------
\* A sorted enumeration of S is a sequence that lists S without repeats.
LEMMA SortingLists ==
    ASSUME NEW S \in SUBSET Nodes, NEW s \in Sortings(S)
    PROVE  /\ s \in Seq(Nodes) /\ Len(s) = Cardinality(S)
           /\ {s[i] : i \in 1 .. Len(s)} = S
           /\ \A i, j \in 1 .. Len(s) : s[i] = s[j] => i = j
<1>1. IsFiniteSet(S) /\ Cardinality(S) \in Nat
  BY NodesAssumption, FS_Subset, FS_CardinalityType, Zenon
<1>2. s \in [1 .. Cardinality(S) -> S]
  BY DEF Sortings
<1>3. s \in Seq(Nodes) /\ Len(s) = Cardinality(S)
  BY <1>1, <1>2
<1>4. {s[i] : i \in 1 .. Len(s)} = S
  BY <1>2, <1>3 DEF Sortings
<1>5. ASSUME NEW i \in 1 .. Len(s), NEW j \in 1 .. Len(s), s[i] = s[j]
      PROVE  i = j
  <2>1. s[i] \in Nat /\ s[j] \in Nat
    BY <1>2, <1>3, NodesAssumption, Zenon
  <2>2. (i < j => s[i] < s[j]) /\ (j < i => s[j] < s[i])
    BY <1>1, <1>2, <1>3 DEF Sortings
  <2>3. QED  BY <1>1, <1>3, <1>5, <2>1, <2>2
<1>6. QED  BY <1>3, <1>4, <1>5

\* Every set of nodes is finite.
LEMMA NodeSetsFinite ==
    ASSUME NEW S \in SUBSET Nodes
    PROVE  IsFiniteSet(S) /\ Cardinality(S) \in Nat
BY NodesAssumption, FS_Subset, FS_CardinalityType, Zenon

-----------------------------------------------------------------------------
\* The seed of the queue establishes the loop invariant (manager.rs:370-392).
LEMMA InitIInv == TopoInit => IInv
<1> SUFFICES ASSUME TopoInit PROVE IInv
  OBVIOUS
<1> DEFINE Seed == {n \in Nodes : in_degree[n] = 0}
<1>1. /\ deps \in [Nodes -> SUBSET Nodes] /\ order = <<>>
      /\ in_degree = [n \in Nodes |-> Cardinality(deps[n])]
      /\ queue \in Sortings(Seed) /\ result = "running"
  BY DEF TopoInit
<1>2. /\ queue \in Seq(Nodes)
      /\ Queued = Seed
      /\ \A i, j \in 1 .. Len(queue) : queue[i] = queue[j] => i = j
  BY <1>1, SortingLists, Zenon DEF Queued
<1>3. Popped = {}
  BY <1>1 DEF Popped
<1>4. ASSUME NEW n \in Nodes
      PROVE  /\ Cardinality(deps[n]) \in Nat
             /\ Cardinality(deps[n]) = 0 <=> deps[n] = {}
  BY <1>1, NodeSetsFinite, FS_EmptySet
<1>5. TopoTypeOK
  BY <1>1, <1>2, <1>4 DEF TopoTypeOK
<1>6. CountsAreExact
  <2> SUFFICES ASSUME NEW n \in Nodes
               PROVE  /\ in_degree[n] = Cardinality(deps[n] \ Popped)
                      /\ deps[n] \subseteq Popped <=> n \in Popped \cup Queued
    BY DEF CountsAreExact
  <2>1. deps[n] \ Popped = deps[n]
    BY <1>3
  <2>2. in_degree[n] = Cardinality(deps[n])
    BY <1>1
  <2>3. QED  BY <1>2, <1>3, <1>4, <2>1, <2>2
<1>7. NoRepeats
  BY <1>1, <1>2, <1>3 DEF NoRepeats
<1>8. DependenciesFirst /\ PoppedAcyclic
  BY <1>1, <1>3 DEF DependenciesFirst, PoppedAcyclic, Acyclic
<1>9. QED  BY <1>5, <1>6, <1>7, <1>8 DEF IInv

\* One turn of the loop keeps the loop invariant (manager.rs:393-407).
LEMMA PopIInv == IInv /\ Pop => IInv'
<1> SUFFICES ASSUME IInv, Pop PROVE IInv'
  OBVIOUS
<1> DEFINE n == Head(queue)
<1>1. /\ result = "running" /\ queue # <<>>
      /\ order' = Append(order, n) /\ in_degree' = Decremented(n)
      /\ deps' = deps /\ result' = result
  BY DEF Pop
<1>2. PICK ready \in Sortings(Ready(n)) : queue' = Tail(queue) \o ready
  BY Zenon DEF Pop
<1>3. /\ deps \in [Nodes -> SUBSET Nodes] /\ in_degree \in [Nodes -> Nat]
      /\ queue \in Seq(Nodes) /\ order \in Seq(Nodes)
  BY DEF IInv, TopoTypeOK
<1>4. n \in Nodes /\ n \in Queued /\ n \notin Popped /\ n = queue[1]
  BY <1>1, <1>3 DEF IInv, NoRepeats, Queued
<1>5. deps[n] \subseteq Popped
  BY <1>4, Zenon DEF IInv, CountsAreExact
<1>6. Ready(n) \in SUBSET Nodes
  BY DEF Ready, Dependents
<1>7. /\ ready \in Seq(Nodes) /\ {ready[i] : i \in 1 .. Len(ready)} = Ready(n)
      /\ \A i, j \in 1 .. Len(ready) : ready[i] = ready[j] => i = j
  BY <1>6, SortingLists
<1> HIDE DEF n
<1>8. Popped' = Popped \cup {n}
  <2>1. /\ Len(order') = Len(order) + 1
        /\ order'[Len(order) + 1] = n
        /\ \A i \in 1 .. Len(order) : order'[i] = order[i]
    BY <1>1, <1>3, <1>4
  <2>2. Len(order) \in Nat
    BY <1>3
  <2>3. ASSUME NEW x \in Popped' PROVE x \in Popped \cup {n}
    <3>1. PICK i \in 1 .. Len(order) + 1 : x = order'[i]
      BY <2>1 DEF Popped
    <3>2. CASE i = Len(order) + 1
      BY <2>1, <3>1, <3>2
    <3>3. CASE i # Len(order) + 1
      <4>1. i \in 1 .. Len(order)
        BY <2>2, <3>3
      <4>2. QED  BY <2>1, <3>1, <4>1 DEF Popped
    <3>4. QED  BY <3>2, <3>3
  <2>4. ASSUME NEW x \in Popped PROVE x \in Popped'
    <3>1. PICK i \in 1 .. Len(order) : x = order[i]
      BY DEF Popped
    <3>2. i \in 1 .. Len(order') /\ x = order'[i]
      BY <2>1, <2>2, <3>1
    <3>3. QED  BY <3>2 DEF Popped
  <2>5. n \in Popped'
    <3>1. Len(order) + 1 \in 1 .. Len(order')
      BY <2>1, <2>2
    <3>2. QED  BY <2>1, <3>1 DEF Popped
  <2>6. QED  BY <2>3, <2>4, <2>5
<1>9. Queued' = (Queued \ {n}) \cup Ready(n)
  <2>1. /\ Len(queue') = Len(queue) - 1 + Len(ready)
        /\ \A i \in 1 .. Len(queue) - 1 : queue'[i] = queue[i + 1]
        /\ \A i \in 1 .. Len(ready) : queue'[Len(queue) - 1 + i] = ready[i]
    BY <1>1, <1>2, <1>3, <1>7
  <2>2. Len(queue) \in Nat \ {0} /\ Len(ready) \in Nat
    BY <1>1, <1>3, <1>7
  <2>3. ASSUME NEW x \in Queued' PROVE x \in (Queued \ {n}) \cup Ready(n)
    <3>1. PICK i \in 1 .. Len(queue') : x = queue'[i]
      BY <2>3 DEF Queued
    <3>2. CASE i <= Len(queue) - 1
      <4>1. x = queue[i + 1] /\ i + 1 \in 1 .. Len(queue) /\ i + 1 # 1
        BY <2>1, <2>2, <3>1, <3>2
      <4>2. x # n
        BY <1>4, <2>2, <4>1 DEF IInv, NoRepeats
      <4>3. QED  BY <4>1, <4>2 DEF Queued
    <3>3. CASE i > Len(queue) - 1
      <4>1. PICK k \in 1 .. Len(ready) : i = Len(queue) - 1 + k
        <5>1. i - (Len(queue) - 1) \in 1 .. Len(ready)
          BY <2>1, <2>2, <3>1, <3>3
        <5>2. QED  BY <2>2, <5>1
      <4>2. x = ready[k]
        BY <2>1, <3>1, <4>1
      <4>3. QED  BY <1>7, <4>2
    <3>4. QED  BY <2>2, <3>2, <3>3
  <2>4. ASSUME NEW x \in Queued, x # n PROVE x \in Queued'
    <3>1. PICK i \in 1 .. Len(queue) : x = queue[i]
      BY DEF Queued
    <3>2. i - 1 \in 1 .. Len(queue) - 1 /\ (i - 1) + 1 = i
      BY <1>4, <2>2, <2>4, <3>1
    <3>3. queue'[i - 1] = queue[(i - 1) + 1]
      BY <2>1, <3>2
    <3>4. i - 1 \in 1 .. Len(queue')
      BY <2>1, <2>2, <3>2
    <3>5. QED  BY <3>1, <3>2, <3>3, <3>4 DEF Queued
  <2>5. ASSUME NEW x \in Ready(n) PROVE x \in Queued'
    <3>1. PICK k \in 1 .. Len(ready) : x = ready[k]
      BY <1>7
    <3>2. x = queue'[Len(queue) - 1 + k]
          /\ Len(queue) - 1 + k \in 1 .. Len(queue')
      BY <2>1, <2>2, <3>1
    <3>3. QED  BY <3>2 DEF Queued
  <2>6. QED  BY <2>3, <2>4, <2>5
<1>10. ASSUME NEW m \in Nodes
       PROVE  in_degree'[m] = Cardinality(deps[m] \ Popped')
              /\ in_degree'[m] \in Nat
  <2>1. in_degree[m] = Cardinality(deps[m] \ Popped)
    BY DEF IInv, CountsAreExact
  <2>2. IsFiniteSet(deps[m] \ Popped)
    BY <1>3, NodeSetsFinite, FS_Subset
  <2>3. deps[m] \ Popped' = (deps[m] \ Popped) \ {n}
    BY <1>8
  <2>4. Cardinality(deps[m] \ Popped')
          = IF n \in deps[m] THEN in_degree[m] - 1 ELSE in_degree[m]
    BY <1>4, <2>1, <2>2, <2>3, FS_RemoveElement
  <2>5. in_degree'[m] = Cardinality(deps[m] \ Popped')
    BY <1>1, <2>4 DEF Decremented, Dependents
  <2>6. IsFiniteSet(deps[m] \ Popped')
    BY <2>2, <2>3, FS_RemoveElement, Zenon
  <2>7. QED  BY <2>5, <2>6, FS_CardinalityType
<1>11. ASSUME NEW m \in Nodes
       PROVE  m \in Ready(n) <=> n \in deps[m] /\ deps[m] \subseteq Popped'
  <2>1. IsFiniteSet(deps[m] \ Popped')
    BY <1>3, NodeSetsFinite, FS_Subset
  <2>2. deps[m] \subseteq Popped' <=> in_degree'[m] = 0
    BY <1>10, <2>1, FS_EmptySet
  <2>3. n \in deps[m] => in_degree'[m] = in_degree[m] - 1
    BY <1>1 DEF Decremented, Dependents
  <2>4. QED  BY <1>3, <2>2, <2>3 DEF Ready, Dependents
<1>12. Ready(n) \cap (Popped \cup Queued) = {}
  BY <1>4, <1>6, Zenon DEF IInv, CountsAreExact, Ready, Dependents
<1>13. TopoTypeOK'
  <2>1. in_degree' \in [Nodes -> Nat]
    <3>1. in_degree' = [m \in Nodes |-> in_degree'[m]]
      BY <1>1 DEF Decremented
    <3>2. QED  BY <1>10, <3>1, Zenon
  <2>2. queue' \in Seq(Nodes) /\ order' \in Seq(Nodes)
    BY <1>1, <1>2, <1>3, <1>4, <1>7
  <2>3. QED  BY <1>1, <1>3, <2>1, <2>2 DEF TopoTypeOK, IInv
<1>14. CountsAreExact'
  <2> SUFFICES ASSUME NEW m \in Nodes
               PROVE  deps[m] \subseteq Popped' <=> m \in Popped' \cup Queued'
    BY <1>1, <1>10 DEF CountsAreExact
  <2>1. deps[m] \subseteq Popped <=> m \in Popped \cup Queued
    BY Zenon DEF IInv, CountsAreExact
  <2>2. QED  BY <1>4, <1>8, <1>9, <1>11, <2>1
<1>15. NoRepeats'
  <2>1. ASSUME NEW i \in 1 .. Len(order'), NEW j \in 1 .. Len(order'),
               order'[i] = order'[j]
        PROVE  i = j
    <3>1. /\ Len(order) \in Nat /\ Len(order') = Len(order) + 1
          /\ order'[Len(order) + 1] = n
          /\ \A k \in 1 .. Len(order) : order'[k] = order[k]
      BY <1>1, <1>3, <1>4
    <3>2. \A k \in 1 .. Len(order) : order[k] # n
      BY <1>4 DEF Popped
    <3>3. \A k, l \in 1 .. Len(order) : order[k] = order[l] => k = l
      BY DEF IInv, NoRepeats
    <3>4. QED  BY <2>1, <3>1, <3>2, <3>3
  <2>2. ASSUME NEW i \in 1 .. Len(queue'), NEW j \in 1 .. Len(queue'),
               queue'[i] = queue'[j]
        PROVE  i = j
    <3> DEFINE q == Len(queue) - 1
    <3>1. /\ q \in Nat /\ Len(ready) \in Nat
          /\ Len(queue') = q + Len(ready)
          /\ \A k \in 1 .. q : queue'[k] = queue[k + 1]
          /\ \A k \in 1 .. Len(ready) : queue'[q + k] = ready[k]
      BY <1>1, <1>2, <1>3, <1>7
    <3>2. \A k, l \in 1 .. q : queue[k + 1] = queue[l + 1] => k = l
      BY <1>3, <3>1 DEF IInv, NoRepeats
    <3>3. \A k \in 1 .. q, l \in 1 .. Len(ready) : queue[k + 1] # ready[l]
      <4>1. \A k \in 1 .. q : queue[k + 1] \in Queued
        BY <1>3, <3>1 DEF Queued
      <4>2. \A l \in 1 .. Len(ready) : ready[l] \in Ready(n)
        BY <1>7
      <4>3. QED  BY <1>12, <4>1, <4>2
    <3> HIDE DEF q
    <3>4. CASE i <= q /\ j <= q
      <4>1. i \in 1 .. q /\ j \in 1 .. q
        BY <3>1, <3>4
      <4>2. queue'[i] = queue[i + 1] /\ queue'[j] = queue[j + 1]
        BY <3>1, <4>1
      <4>3. QED  BY <2>2, <3>2, <4>1, <4>2, Zenon
    <3>5. CASE i > q /\ j > q
      <4>1. /\ i - q \in 1 .. Len(ready) /\ j - q \in 1 .. Len(ready)
            /\ q + (i - q) = i /\ q + (j - q) = j
        BY <3>1, <3>5
      <4>2. queue'[i] = ready[i - q] /\ queue'[j] = ready[j - q]
        BY <3>1, <4>1
      <4>3. i - q = j - q
        BY <1>7, <2>2, <4>1, <4>2, Zenon
      <4>4. QED  BY <3>1, <4>3
    <3>6. CASE i <= q /\ j > q
      <4>1. i \in 1 .. q /\ j - q \in 1 .. Len(ready) /\ q + (j - q) = j
        BY <3>1, <3>6
      <4>2. queue'[i] = queue[i + 1] /\ queue'[j] = ready[j - q]
        BY <3>1, <4>1
      <4>3. QED  BY <2>2, <3>3, <4>1, <4>2, Zenon
    <3>7. CASE i > q /\ j <= q
      <4>1. j \in 1 .. q /\ i - q \in 1 .. Len(ready) /\ q + (i - q) = i
        BY <3>1, <3>7
      <4>2. queue'[j] = queue[j + 1] /\ queue'[i] = ready[i - q]
        BY <3>1, <4>1
      <4>3. QED  BY <2>2, <3>3, <4>1, <4>2
    <3>8. QED  BY <3>1, <3>4, <3>5, <3>6, <3>7
  <2>3. Popped' \cap Queued' = {}
    BY <1>4, <1>8, <1>9, <1>12 DEF IInv, NoRepeats
  <2>4. QED  BY <2>1, <2>2, <2>3 DEF NoRepeats
<1>16. DependenciesFirst'
  <2>1. /\ Len(order) \in Nat /\ Len(order') = Len(order) + 1
        /\ order'[Len(order) + 1] = n
        /\ \A k \in 1 .. Len(order) : order'[k] = order[k]
    BY <1>1, <1>3, <1>4
  <2> SUFFICES ASSUME NEW j \in 1 .. Len(order) + 1,
                      NEW d \in deps[order'[j]]
               PROVE  \E i \in 1 .. j - 1 : order'[i] = d
    BY <1>1, <2>1, Zenon DEF DependenciesFirst
  <2>2. CASE j = Len(order) + 1
    <3>1. d \in Popped
      BY <1>5, <2>1, <2>2
    <3>2. PICK i \in 1 .. Len(order) : d = order[i]
      BY <3>1 DEF Popped
    <3>3. QED  BY <2>1, <2>2, <3>2
  <2>3. CASE j # Len(order) + 1
    <3>1. j \in 1 .. Len(order) /\ d \in deps[order[j]]
      BY <2>1, <2>3
    <3>2. PICK i \in 1 .. j - 1 : order[i] = d
      BY <3>1, Zenon DEF IInv, DependenciesFirst
    <3>3. i \in 1 .. Len(order)
      BY <2>1, <3>1
    <3>4. QED  BY <2>1, <3>2, <3>3
  <2>4. QED  BY <2>2, <2>3
<1>17. PoppedAcyclic'
  <2> SUFFICES ASSUME NEW S \in SUBSET Popped', S # {}
               PROVE  \E m \in S : deps[m] \cap S = {}
    BY <1>1 DEF PoppedAcyclic, Acyclic
  <2>1. CASE S \subseteq {n}
    BY <1>4, <1>5, <2>1
  <2>2. CASE ~ (S \subseteq {n})
    <3>1. S \ {n} \in SUBSET Popped /\ S \ {n} # {}
      BY <1>8, <2>2
    <3>2. PICK m \in S \ {n} : deps[m] \cap (S \ {n}) = {}
      BY <3>1, Zenon DEF IInv, PoppedAcyclic, Acyclic
    <3>3. m \in Popped /\ m \in Nodes
      <4>1. \A i \in 1 .. Len(order) : order[i] \in Nodes
        BY <1>3
      <4>2. QED  BY <3>1, <4>1 DEF Popped
    <3>4. deps[m] \subseteq Popped
      BY <3>3, Zenon DEF IInv, CountsAreExact
    <3>5. QED  BY <1>4, <3>2, <3>4
  <2>3. QED  BY <2>1, <2>2
<1>18. QED
  BY <1>13, <1>14, <1>15, <1>16, <1>17 DEF IInv

-----------------------------------------------------------------------------
\* At the end of the loop, a full order shows the graph has no cycle and is
\* dependencies-first; a short one leaves a set of nodes each of which
\* depends on another of the set (manager.rs:409-417).
LEMMA LoopEnd ==
    ASSUME IInv, queue = <<>>
    PROVE  /\ Len(order) = Cardinality(Nodes) =>
                /\ Popped = Nodes /\ Acyclic(deps, Nodes)
                /\ \A i, j \in 1 .. Len(order) :
                        order[i] \in deps[order[j]] => i < j
           /\ Len(order) # Cardinality(Nodes) => ~ Acyclic(deps, Nodes)
<1>1. /\ order \in [1 .. Len(order) -> Popped] /\ Len(order) \in Nat
      /\ Popped \in SUBSET Nodes
      /\ \A k, l \in 1 .. Len(order) : order[k] = order[l] => k = l
  BY DEF IInv, TopoTypeOK, Popped, NoRepeats
<1>2. Cardinality(Popped) = Len(order)
  <2>1. order \in Bijection(1 .. Len(order), Popped)
    <3>1. order \in Injection(1 .. Len(order), Popped)
      BY <1>1 DEF Injection, IsInjective
    <3>2. \A x \in Popped : \E i \in 1 .. Len(order) : order[i] = x
      BY DEF Popped
    <3>3. order \in Surjection(1 .. Len(order), Popped)
      BY <1>1, <3>2 DEF Surjection
    <3>4. QED  BY <3>1, <3>3 DEF Bijection
  <2>2. ExistsBijection(1 .. Len(order), Popped)
    BY <2>1 DEF ExistsBijection
  <2>3. IsFiniteSet(1 .. Len(order))
        /\ Cardinality(1 .. Len(order)) = Len(order)
    <3> DEFINE len == Len(order)
    <3>1. len \in Nat
      BY <1>1
    <3> HIDE DEF len
    <3>2. IsFiniteSet(1 .. len) /\ Cardinality(1 .. len) = len
      <4>1. 1 \in Int /\ len \in Int
        BY <3>1
      <4>2. /\ IsFiniteSet(1 .. len)
            /\ Cardinality(1 .. len) = IF 1 > len THEN 0 ELSE len - 1 + 1
        BY <4>1, FS_Interval
      <4>3. QED  BY <3>1, <4>2
    <3>3. QED  BY <3>2 DEF len
  <2>4. QED  BY <2>2, <2>3, FS_Bijection
<1>3. Len(order) = Cardinality(Nodes) <=> Popped = Nodes
  BY <1>1, <1>2, NodesAssumption, FS_Subset, Zenon
<1>4. ASSUME Popped = Nodes
      PROVE  /\ Acyclic(deps, Nodes)
             /\ \A i, j \in 1 .. Len(order) :
                    order[i] \in deps[order[j]] => i < j
  <2>1. Acyclic(deps, Nodes)
    BY <1>4 DEF IInv, PoppedAcyclic
  <2>2. ASSUME NEW i \in 1 .. Len(order), NEW j \in 1 .. Len(order),
               order[i] \in deps[order[j]]
        PROVE  i < j
    <3>1. PICK k \in 1 .. j - 1 : order[k] = order[i]
      BY <2>2, Zenon DEF IInv, DependenciesFirst
    <3>2. k = i
      BY <1>1, <3>1
    <3>3. QED  BY <1>1, <3>2
  <2>3. QED  BY <2>1, <2>2
<1>5. ASSUME Popped # Nodes
      PROVE  ~ Acyclic(deps, Nodes)
  <2>1. Queued = {}
    BY DEF Queued
  <2>2. \A m \in Nodes \ Popped : deps[m] \cap (Nodes \ Popped) # {}
    BY <2>1, Zenon DEF IInv, CountsAreExact, TopoTypeOK
  <2>3. Nodes \ Popped # {}
    BY <1>1, <1>5
  <2>4. QED  BY <2>2, <2>3, Zenon DEF Acyclic
<1>6. QED  BY <1>3, <1>4, <1>5

\* What leaves the graph, the counts and both lists alone keeps the invariant.
LEMMA StutterIInv ==
  ASSUME IInv, UNCHANGED <<deps, in_degree, queue, order>>,
         result' \in {"running", "Ok", "CyclicDependency"}
  PROVE  IInv'
<1>1. Popped' = Popped /\ Queued' = Queued
  BY DEF Popped, Queued
<1>2. TopoTypeOK'
  BY DEF IInv, TopoTypeOK
<1>3. CountsAreExact'
  BY <1>1 DEF IInv, CountsAreExact
<1>4. NoRepeats'
  BY <1>1 DEF IInv, NoRepeats
<1>5. DependenciesFirst'
  <2>1. DependenciesFirst /\ deps' = deps /\ order' = order
    BY DEF IInv
  <2>2. QED  BY <2>1, Zenon DEF DependenciesFirst
<1>6. PoppedAcyclic'
  BY <1>1, Zenon DEF IInv, PoppedAcyclic
<1>7. QED  BY <1>2, <1>3, <1>4, <1>5, <1>6 DEF IInv

\* The loop invariant holds throughout, and the result is correct.
THEOREM LoopInvariant == TopoSpec => [](IInv /\ ResultCorrect)
<1>1. TopoInit => IInv /\ ResultCorrect
  BY InitIInv DEF TopoInit, ResultCorrect
<1>2. IInv /\ ResultCorrect /\ [TopoNext]_topoVars => (IInv /\ ResultCorrect)'
  <2> SUFFICES ASSUME IInv, ResultCorrect, [TopoNext]_topoVars
               PROVE  IInv' /\ ResultCorrect'
    OBVIOUS
  <2>1. CASE Pop
    <3>1. IInv'
      BY <2>1, PopIInv
    <3>2. QED  BY <2>1, <3>1 DEF Pop, ResultCorrect
  <2>2. CASE TopoReturn
    <3>1. IInv'
      BY <2>2, StutterIInv DEF TopoReturn
    <3>2. QED  BY <2>2, <3>1, LoopEnd DEF TopoReturn, ResultCorrect, Popped
  <2>3. CASE UNCHANGED topoVars
    <3>1. UNCHANGED <<deps, in_degree, queue, order, result>>
      BY <2>3 DEF topoVars
    <3>2. IInv'
      BY <3>1, StutterIInv DEF IInv, TopoTypeOK
    <3>3. Popped' = Popped
      BY <3>1 DEF Popped
    <3>4. ResultCorrect'
      BY <3>1, <3>3 DEF ResultCorrect
    <3>5. QED  BY <3>2, <3>4
  <2>4. QED  BY <2>1, <2>2, <2>3 DEF TopoNext
<1>3. QED  BY <1>1, <1>2, PTL DEF TopoSpec

\* topo_order returns Ok, with a dependencies-first order of all nodes, only
\* on a graph without a cycle, and Err only on one with; its counts are exact
\* at every turn, and none goes below zero (manager.rs:369).
THEOREM TopoOrderCorrect == TopoSpec => []TopoSound
<1>1. IInv /\ ResultCorrect => TopoSound
  BY DEF IInv, TopoSound
<1>2. QED  BY <1>1, LoopInvariant, PTL

-----------------------------------------------------------------------------
(***************************************************************************)
(* Types                                                                   *)
(***************************************************************************)
\* Labels at which a task is handling the head of its list.
Handling == {"start_order", "starting", "stop_order", "stop_begin",
             "stopping", "mark_error"}

\* The orders a sweep follows are lists of ids, and so are their reverses.
LEMMA OrdersAreLists ==
    ASSUME NEW S \in SUBSET Ids, NEW d, NEW o \in TopoOrders(d, S)
    PROVE  o \in Seq(Ids) /\ Reversed(o) \in Seq(Ids)
<1>1. IsFiniteSet(S) /\ Cardinality(S) \in Nat
    BY LifecycleAssumption, FS_Subset, FS_CardinalityType
<1>2. o \in [1 .. Cardinality(S) -> S]
    BY DEF TopoOrders
<1>3. o \in Seq(Ids) /\ Len(o) = Cardinality(S)
    BY <1>1, <1>2
<1>4. \A i \in 1 .. Len(o) : o[Len(o) + 1 - i] \in Ids
    BY <1>1, <1>2, <1>3
<1>5. Reversed(o) \in Seq(Ids)
    BY <1>1, <1>3, <1>4 DEF Reversed
<1> QED BY <1>3, <1>5

\* A closure that is cut down to the registered ids is a set of ids.
LEMMA RegisteredIds == Registered \subseteq Ids
BY DEF Registered

\* What is left of a list that is not empty is a list.
LEMMA ListParts ==
    ASSUME NEW s \in Seq(Ids), s # <<>>
    PROVE  Head(s) \in Ids /\ Tail(s) \in Seq(Ids)
OBVIOUS

\* The calls a task makes keep the types.
LEMMA CallTypes ==
    ASSUME TypeOK, NEW t \in Tasks, Call(t)
    PROVE  TypeOK'
<1> USE DEF Labels, Goto, Return
<1>1. CASE \E i \in Ids : Register(t, i)
    BY <1>1 DEF TypeOK, Register, ComponentState
<1>2. CASE \E i \in Ids : Unregister(t, i)
    BY <1>2 DEF TypeOK, Unregister
<1>3. CASE \E i \in Ids : StartCall(t, i)
    BY <1>3 DEF TypeOK, StartCall, AllOps
<1>4. CASE \E i \in Ids : StopCall(t, i)
    BY <1>4 DEF TypeOK, StopCall, AllOps
<1>5. CASE \E i, d \in Ids : AddDependency(t, i, d)
    BY <1>5 DEF TypeOK, AddDependency
<1>6. ASSUME NEW o \in Ops, StartAllCall(t, o) PROVE TypeOK'
  <2>1. PICK list \in TopoOrders(deps, Registered) :
            todo' = [todo EXCEPT ![t] = list]
      BY <1>6, Zenon DEF StartAllCall
  <2>2. list \in Seq(Ids)
      BY OrdersAreLists, RegisteredIds
  <2> QED BY <1>6, <2>1, <2>2, LifecycleAssumption DEF TypeOK, StartAllCall
<1>7. ASSUME NEW o \in Ops, StopAllCall(t, o) PROVE TypeOK'
  <2>1. PICK list \in TopoOrders(deps, Registered) :
            todo' = [todo EXCEPT ![t] = Reversed(list)]
      BY <1>7, Zenon DEF StopAllCall
  <2>2. Reversed(list) \in Seq(Ids)
      BY OrdersAreLists, RegisteredIds
  <2> QED BY <1>7, <2>1, <2>2, LifecycleAssumption DEF TypeOK, StopAllCall
<1>8. CASE WaitCall(t)
    BY <1>8 DEF TypeOK, WaitCall, AllOps
<1> QED BY <1>1, <1>2, <1>3, <1>4, <1>5, <1>6, <1>7, <1>8 DEF Call

\* The manager's own steps keep the types.
LEMMA ProceedTypes ==
    ASSUME TypeOK, NEW t \in Tasks, Proceed(t)
    PROVE  TypeOK'
<1> USE DEF Labels, Goto, Return, Done
<1>0. todo[t] # <<>> => Current(t) \in Ids /\ Tail(todo[t]) \in Seq(Ids)
    BY ListParts DEF TypeOK, Current
<1>1. CASE StartOrder(t)
  <2> DEFINE S == DependencyClosure(deps, Current(t), Ids) \cap Registered
  <2>1. PICK list \in TopoOrders(deps, S) : todo' = [todo EXCEPT ![t] = list]
      BY <1>1, Zenon DEF StartOrder
  <2>2. list \in Seq(Ids)
      BY OrdersAreLists, RegisteredIds
  <2> QED BY <1>1, <2>1, <2>2 DEF TypeOK, StartOrder
<1>2. CASE StartOne(t)
  <2>1. CASE Return(t) /\ UNCHANGED <<deps, state, dropped>>
      BY <2>1 DEF TypeOK
  <2>2. CASE todo[t] # <<>> /\ pc[t] = "start" /\ Done(t)
             /\ UNCHANGED <<deps, state, pc, op, dropped>>
      BY <1>0, <2>2 DEF TypeOK
  <2>3. CASE /\ todo[t] # <<>> /\ Goto(t, "starting")
             /\ state' = [state EXCEPT ![Current(t)] = "Starting"]
             /\ dropped' = dropped \ {Current(t)}
             /\ UNCHANGED <<deps, op, todo>>
      BY <1>0, <2>3 DEF TypeOK, ComponentState
  <2> QED BY <1>2, <2>1, <2>2, <2>3 DEF StartOne
<1>3. CASE StartTimeout(t)
    BY <1>0, <1>3 DEF TypeOK, StartTimeout
<1>4. CASE StartEnd(t)
    BY <1>4, Zenon DEF TypeOK, StartEnd
<1>5. CASE StopOrder(t)
  <2> DEFINE S == DependentClosure(deps, Current(t), Ids) \cap Registered
  <2>1. PICK list \in TopoOrders(deps, S) :
            todo' = [todo EXCEPT ![t] = Reversed(list)]
      BY <1>5, Zenon DEF StopOrder
  <2>2. Reversed(list) \in Seq(Ids)
      BY OrdersAreLists, RegisteredIds
  <2> QED BY <1>5, <2>1, <2>2 DEF TypeOK, StopOrder
<1>6. CASE StopRead(t)
  <2>1. CASE Return(t) /\ UNCHANGED <<deps, state, dropped>>
      BY <2>1 DEF TypeOK
  <2>2. CASE todo[t] # <<>> /\ pc[t] = "stop" /\ Done(t)
             /\ UNCHANGED <<deps, state, pc, op, dropped>>
      BY <1>0, <2>2 DEF TypeOK
  <2>3. CASE /\ todo[t] # <<>>
             /\ Goto(t, "stop_begin") \/ Goto(t, "mark_error")
             /\ UNCHANGED <<deps, state, op, todo, dropped>>
      BY <2>3, Zenon DEF TypeOK
  <2> QED BY <1>6, <2>1, <2>2, <2>3 DEF StopRead, StopFails
<1>7. CASE StopBegin(t)
    BY <1>7, Zenon DEF TypeOK, StopBegin, Transition, ComponentState
<1>8. CASE StopTimeout(t)
    BY <1>8 DEF TypeOK, StopTimeout
<1>9. CASE MarkError(t)
    BY <1>0, <1>9 DEF TypeOK, MarkError, Transition, ComponentState
<1>10. CASE StopEnd(t)
    BY <1>10, Zenon DEF TypeOK, StopEnd
<1> QED BY <1>1, <1>2, <1>3, <1>4, <1>5, <1>6, <1>7, <1>8, <1>9, <1>10 DEF Proceed

\* A component's return and a signal keep the types.
LEMMA ExternalTypes ==
    ASSUME TypeOK, NEW t \in Tasks, External(t)
    PROVE  TypeOK'
<1> USE DEF Labels, Goto, Return, Done
<1>0. todo[t] # <<>> => Current(t) \in Ids /\ Tail(todo[t]) \in Seq(Ids)
    BY ListParts DEF TypeOK, Current
<1>1. ASSUME NEW ok \in BOOLEAN, StartReturns(t, ok) PROVE TypeOK'
  <2>0. state' \in [Ids -> ComponentState \cup {NotRegistered}]
      BY <1>0, <1>1 DEF TypeOK, StartReturns, Transition, ComponentState
  <2>1. CASE Return(t)
      BY <1>1, <2>0, <2>1 DEF TypeOK, StartReturns
  <2>2. CASE Done(t) /\ Goto(t, "start") /\ UNCHANGED op
    <3>1. todo[t] # <<>> /\ UNCHANGED <<deps, dropped>>
        BY <1>1 DEF TypeOK, StartReturns
    <3> QED BY <1>0, <2>0, <2>2, <3>1 DEF TypeOK
  <2> QED BY <1>1, <2>1, <2>2 DEF StartReturns
<1>2. ASSUME NEW ok \in BOOLEAN, StopReturns(t, ok) PROVE TypeOK'
  <2>0. state' \in [Ids -> ComponentState \cup {NotRegistered}]
      BY <1>0, <1>2 DEF TypeOK, StopReturns, Transition, ComponentState
  <2>1. todo[t] # <<>> /\ UNCHANGED <<deps, dropped>>
      BY <1>2 DEF TypeOK, StopReturns
  <2>2. CASE Return(t)
      BY <2>0, <2>1, <2>2 DEF TypeOK
  <2>3. CASE Done(t) /\ Goto(t, "stop") /\ UNCHANGED op
      BY <1>0, <2>0, <2>1, <2>3 DEF TypeOK
  <2>4. CASE Goto(t, "mark_error") /\ UNCHANGED <<op, todo>>
      BY <2>0, <2>1, <2>4 DEF TypeOK
  <2> QED BY <1>2, <2>2, <2>3, <2>4 DEF StopReturns, StopFails
<1>3. CASE Signal(t)
  <2>1. PICK list \in TopoOrders(deps, Registered) :
            todo' = [todo EXCEPT ![t] = Reversed(list)]
      BY <1>3, Zenon DEF Signal
  <2>2. Reversed(list) \in Seq(Ids)
      BY OrdersAreLists, RegisteredIds
  <2> QED BY <1>3, <2>1, <2>2 DEF TypeOK, Signal
<1> QED BY <1>1, <1>2, <1>3 DEF External

\* Type correctness of the component manager: every list a sweep works on
\* holds ids only and is not empty where its head is used (manager.rs:136-307).
THEOREM ManagerTypes == Spec => []TypeOK
<1>1. Init => TypeOK
    BY DEF Init, TypeOK, BootDeps, ComponentState, Labels
<1>2. TypeOK /\ [Next]_vars => TypeOK'
  <2>1. CASE Next
      BY <2>1, CallTypes, ProceedTypes, ExternalTypes DEF Next
  <2>2. CASE UNCHANGED vars
      BY <2>2 DEF vars, TypeOK
  <2> QED BY <2>1, <2>2
<1> QED BY <1>1, <1>2, PTL DEF Spec

-----------------------------------------------------------------------------
(***************************************************************************)
(* The dependency graph                                                    *)
(***************************************************************************)
\* Taking edges away from an acyclic graph leaves it acyclic.
LEMMA SubgraphAcyclic ==
    ASSUME NEW d, NEW e, Acyclic(d, Ids), \A i \in Ids : e[i] \subseteq d[i]
    PROVE  Acyclic(e, Ids)
<1> SUFFICES ASSUME NEW S \in SUBSET Ids, S # {}
             PROVE  \E n \in S : e[n] \cap S = {}
    BY DEF Acyclic
<1>1. PICK n \in S : d[n] \cap S = {}
    BY DEF Acyclic
<1>2. n \in Ids /\ e[n] \subseteq d[n]
    OBVIOUS
<1> QED BY <1>1, <1>2

\* Only register, unregister and add_dependency touch the graph or the set of
\* registered ids; a state transition never adds or removes a component.
LEMMA SweepsKeepGraph ==
    ASSUME TypeOK, NEW t \in Tasks,
           \/ Proceed(t) \/ External(t) \/ WaitCall(t)
           \/ \E i \in Ids : StartCall(t, i) \/ StopCall(t, i)
           \/ \E o \in Ops : StartAllCall(t, o) \/ StopAllCall(t, o)
    PROVE  deps' = deps /\ Registered' = Registered
<1>1. CASE UNCHANGED <<deps, state>>
    BY <1>1 DEF Registered
<1>2. ASSUME NEW i \in Registered, NEW new \in ComponentState,
             state' = [state EXCEPT ![i] = new], UNCHANGED deps
      PROVE  deps' = deps /\ Registered' = Registered
    BY <1>2 DEF Registered, TypeOK, ComponentState, NotRegistered
<1>3. ASSUME NEW i, NEW new \in ComponentState,
             Transition(i, new), UNCHANGED deps
      PROVE  deps' = deps /\ Registered' = Registered
    BY <1>1, <1>2, <1>3, SMTT(30), Zenon DEF Transition
<1>4. CASE StartOne(t)
    BY <1>1, <1>2, <1>4 DEF StartOne, ComponentState
<1>5. CASE StopBegin(t)
    BY <1>3, <1>5 DEF StopBegin, ComponentState
<1>6. CASE MarkError(t)
    BY <1>3, <1>6 DEF MarkError, ComponentState
<1>7. ASSUME NEW ok \in BOOLEAN, StartReturns(t, ok)
      PROVE  deps' = deps /\ Registered' = Registered
    BY <1>3, <1>7 DEF StartReturns, ComponentState
<1>8. ASSUME NEW ok \in BOOLEAN, StopReturns(t, ok)
      PROVE  deps' = deps /\ Registered' = Registered
    BY <1>3, <1>8 DEF StopReturns, ComponentState
<1>9. CASE \/ StartOrder(t) \/ StartTimeout(t) \/ StartEnd(t) \/ StopOrder(t)
           \/ StopRead(t) \/ StopTimeout(t) \/ StopEnd(t) \/ Signal(t)
           \/ WaitCall(t)
    BY <1>1, <1>9, Zenon DEF StartOrder, StartTimeout, StartEnd, StopOrder, StopRead,
        StopTimeout, StopEnd, Signal, WaitCall
<1>10. CASE \/ \E i \in Ids : StartCall(t, i) \/ StopCall(t, i)
            \/ \E o \in Ops : StartAllCall(t, o) \/ StopAllCall(t, o)
    BY <1>1, <1>10 DEF StartCall, StopCall, StartAllCall, StopAllCall
<1> QED BY <1>4, <1>5, <1>6, <1>7, <1>8, <1>9, <1>10 DEF Proceed, External

\* Whatever edges are added and components registered or removed, and however
\* this interleaves with sweeps, the graph stays acyclic and has no edge to or
\* from a component that is not registered (manager.rs:50-97).
THEOREM GraphInvariant == Spec => []GraphSound
<1> DEFINE G == GraphClosed /\ GraphAcyclic
<1>1. Init => G
  <2> SUFFICES ASSUME Init PROVE G
      OBVIOUS
  <2>1. Registered = Ids
      BY DEF Init, Registered, NotRegistered
  <2>2. GraphClosed
      BY <2>1 DEF Init, GraphClosed, BootDeps
  <2> QED BY <2>2, LifecycleAssumption DEF Init, GraphAcyclic
<1>2. TypeOK /\ G /\ [Next]_vars => G'
  <2> SUFFICES ASSUME TypeOK, G, [Next]_vars PROVE G'
      OBVIOUS
  <2>1. CASE deps' = deps /\ Registered' = Registered
      BY <2>1 DEF GraphClosed, GraphAcyclic
  <2>2. ASSUME NEW t \in Tasks, NEW i \in Ids, Register(t, i) PROVE G'
    <3>1. Registered' = Registered \cup {i} /\ deps' = deps
        BY <2>2 DEF Register, Registered, TypeOK, NotRegistered
    <3> QED BY <3>1 DEF GraphClosed, GraphAcyclic
  <2>3. ASSUME NEW t \in Tasks, NEW i \in Ids, Unregister(t, i) PROVE G'
    <3>1. Registered' = Registered \ {i}
        BY <2>3 DEF Unregister, Registered, TypeOK
    <3>2. deps' = [j \in Ids |-> IF j = i THEN {} ELSE deps[j] \ {i}]
        BY <2>3 DEF Unregister
    <3>3. GraphClosed'
        BY <3>1, <3>2 DEF GraphClosed
    <3>4. \A j \in Ids : deps'[j] \subseteq deps[j]
        BY <3>2
    <3>5. Acyclic(deps', Ids)
        BY <3>4, SubgraphAcyclic DEF GraphAcyclic
    <3> QED BY <3>3, <3>5 DEF GraphAcyclic
  <2>4. ASSUME NEW t \in Tasks, NEW i \in Ids, NEW d \in Ids,
               AddDependency(t, i, d)
        PROVE  G'
    <3> DEFINE with == [deps EXCEPT ![i] = @ \cup {d}]
               without == [deps EXCEPT ![i] = @ \ {d}]
    <3>1. Registered' = Registered /\ i \in Registered /\ d \in Registered
        BY <2>4 DEF AddDependency, Registered
    <3>2. CASE Acyclic(with, Ids) /\ deps' = with
        BY <3>1, <3>2 DEF GraphClosed, GraphAcyclic, TypeOK
    <3>3. CASE deps' = without
      <4>1. \A j \in Ids : deps'[j] \subseteq deps[j]
          BY <3>3 DEF TypeOK
      <4>2. Acyclic(deps', Ids)
          BY <4>1, SubgraphAcyclic DEF GraphAcyclic
      <4>3. GraphClosed'
          BY <3>1, <4>1 DEF GraphClosed
      <4> QED BY <4>2, <4>3 DEF GraphAcyclic
    <3> QED BY <2>4, <3>2, <3>3 DEF AddDependency
  <2>5. CASE UNCHANGED vars
      BY <2>1, <2>5 DEF vars, Registered
  <2>6. CASE Next
      BY <2>1, <2>2, <2>3, <2>4, <2>6, SweepsKeepGraph DEF Next, Call
  <2> QED BY <2>5, <2>6
<1>3. G => GraphSound
    BY DEF GraphSound
<1> QED BY <1>1, <1>2, <1>3, ManagerTypes, PTL DEF Spec

-----------------------------------------------------------------------------
(***************************************************************************)
(* Who is at a component that is changing state                            *)
(***************************************************************************)
\* A task is only ever in an operation some caller may ask for.
OpsCalled == \A t \in Tasks : op[t] \in Ops \cup {"none"}

\* op is set by the calls and cleared on return.
LEMMA OpsCalledStep ==
    ASSUME TypeOK, OpsCalled, NEW t \in Tasks, Call(t) \/ Proceed(t) \/ External(t)
    PROVE  OpsCalled'
<1>1. CASE UNCHANGED op
    BY <1>1 DEF OpsCalled
<1>2. ASSUME NEW o \in Ops \cup {"none"}, op' = [op EXCEPT ![t] = o]
      PROVE  OpsCalled'
    BY <1>2 DEF OpsCalled, TypeOK
<1>3. CASE Return(t)
    BY <1>2, <1>3, Zenon DEF Return
<1>4. CASE Call(t)
    BY <1>1, <1>2, <1>4, Zenon DEF Call, Register, Unregister, AddDependency, StartCall,
        StopCall, StartAllCall, StopAllCall, WaitCall
<1>5. CASE StopEnd(t)
    BY <1>5 DEF StopEnd, OpsCalled
<1>6. CASE Proceed(t)
    BY <1>1, <1>3, <1>5, <1>6, Zenon DEF Proceed, StartOrder, StartOne, StartTimeout,
        StartEnd, StopOrder, StopRead, StopFails, StopBegin, StopTimeout, MarkError
<1>7. CASE External(t)
    BY <1>1, <1>3, <1>7 DEF External, StartReturns, StopReturns, StopFails, Signal
<1> QED BY <1>4, <1>6, <1>7

\* A step of t keeps TransientStatesOwned if it leaves the other tasks at their
\* components, and each component that is Starting or Stopping afterwards
\* either was so before and was not t's, or is t's now.
LEMMA OwnersKept ==
    ASSUME TransientStatesOwned, NEW t \in Tasks,
           \A u \in Tasks \ {t} :
               pc[u] \in {"starting", "stopping", "mark_error"}
                   => pc'[u] = pc[u] /\ todo'[u] = todo[u],
           \A i \in Ids : state'[i] = "Starting" =>
               \/ i \in dropped'
               \/ pc'[t] = "starting" /\ Head(todo'[t]) = i
               \/ /\ state[i] = "Starting" /\ i \notin dropped
                  /\ ~(pc[t] = "starting" /\ Current(t) = i),
           \A i \in Ids : state'[i] = "Stopping" =>
               \/ pc'[t] \in {"stopping", "mark_error"} /\ Head(todo'[t]) = i
               \/ /\ state[i] = "Stopping"
                  /\ ~(pc[t] \in {"stopping", "mark_error"} /\ Current(t) = i)
    PROVE  TransientStatesOwned'
BY SMTT(30), Zenon DEF TransientStatesOwned, Current

\* A call does not disturb anybody's component.
LEMMA CallOwners ==
    ASSUME TypeOK, TransientStatesOwned, NEW t \in Tasks, Call(t)
    PROVE  TransientStatesOwned'
<1>1. pc[t] = "idle"
    BY Zenon DEF Call, Register, Unregister, AddDependency, StartCall, StopCall,
        StartAllCall, StopAllCall, WaitCall
<1>2. \A u \in Tasks \ {t} : pc'[u] = pc[u] /\ todo'[u] = todo[u]
    BY Zenon DEF TypeOK, Call, Register, Unregister, AddDependency, StartCall, StopCall,
        StartAllCall, StopAllCall, WaitCall, Goto
<1>3. /\ \A i \in Ids : state'[i] \in {"Starting", "Stopping"} => state'[i] = state[i]
      /\ dropped' = dropped
    BY Zenon DEF TypeOK, Call, Register, Unregister, AddDependency, StartCall, StopCall,
        StartAllCall, StopAllCall, WaitCall, NotRegistered
<1> QED BY <1>1, <1>2, <1>3, OwnersKept

\* The manager's steps that read and write one component hand it over
\* correctly; a start that a timeout drops is on record.
LEMMA ProceedOwners ==
    ASSUME TypeOK, TransientStatesOwned, NEW t \in Tasks, Proceed(t)
    PROVE  TransientStatesOwned'
<1> USE DEF Goto, Return, Done
<1>0. CASE StartTimeout(t)
  <2>1. /\ pc[t] = "starting" /\ state' = state /\ dropped' = dropped \cup {Current(t)}
        /\ \A u \in Tasks \ {t} : pc'[u] = pc[u] /\ todo'[u] = todo[u]
      BY <1>0 DEF TypeOK, StartTimeout
  <2> QED BY <2>1, OwnersKept
<1>1. CASE StartOrder(t) \/ StartEnd(t) \/ StopOrder(t) \/ StopRead(t)
  <2>1. pc[t] \in {"start_order", "start", "stop_order", "stop"}
        /\ state' = state /\ dropped' = dropped
      BY <1>1 DEF StartOrder, StartEnd, StopOrder, StopRead
  <2>2. \A u \in Tasks \ {t} : pc'[u] = pc[u] /\ todo'[u] = todo[u]
      BY <1>1, SMTT(30), Zenon DEF TypeOK, StartOrder, StartEnd, StopOrder, StopRead, StopFails
  <2> QED BY <2>1, <2>2, OwnersKept, SMTT(30), Zenon
<1>2. CASE StopEnd(t)
  <2>1. pc[t] = "stop" /\ UNCHANGED <<state, todo, dropped>>
      BY <1>2 DEF StopEnd
  <2>2. \A u \in Tasks \ {t} :
            pc[u] \in {"starting", "stopping", "mark_error"} => pc'[u] = pc[u]
      BY <1>2 DEF TypeOK, StopEnd
  <2> QED BY <2>1, <2>2, OwnersKept
<1>3. CASE StartOne(t)
  <2>1. \A u \in Tasks \ {t} : pc'[u] = pc[u] /\ todo'[u] = todo[u]
      BY <1>3 DEF TypeOK, StartOne
  <2>2. pc[t] = "start"
      BY <1>3 DEF StartOne
  <2>3. CASE state' = state /\ dropped' = dropped
      BY <2>1, <2>2, <2>3, OwnersKept
  <2>4. CASE /\ dropped' = dropped \ {Current(t)}
             /\ state' = [state EXCEPT ![Current(t)] = "Starting"]
             /\ Goto(t, "starting") /\ UNCHANGED todo
    <3>1. pc'[t] = "starting" /\ Head(todo'[t]) = Current(t)
        BY <2>4 DEF TypeOK, Current
    <3>2. \A i \in Ids : i # Current(t) => state'[i] = state[i]
        BY <2>4 DEF TypeOK
    <3>3. \A i \in Ids : state'[i] = "Stopping" => state[i] = "Stopping"
        BY <2>4 DEF TypeOK
    <3> QED BY <2>1, <2>2, <2>4, <3>1, <3>2, <3>3, OwnersKept
  <2> QED BY <1>3, <2>3, <2>4 DEF StartOne
<1>4. CASE StopBegin(t)
  <2>1. /\ pc[t] = "stop_begin" /\ pc'[t] = "stopping"
        /\ Head(todo'[t]) = Current(t) /\ dropped' = dropped
        /\ \A u \in Tasks \ {t} : pc'[u] = pc[u] /\ todo'[u] = todo[u]
      BY <1>4 DEF TypeOK, StopBegin, Current
  <2>2. \A i \in Ids : i # Current(t) => state'[i] = state[i]
      BY <1>4 DEF TypeOK, StopBegin, Transition
  <2>3. \A i \in Ids : state'[i] = "Starting" => state[i] = "Starting"
      BY <1>4 DEF TypeOK, StopBegin, Transition
  <2> QED BY <2>1, <2>2, <2>3, OwnersKept
<1>5. CASE StopTimeout(t)
  <2>1. /\ pc[t] = "stopping" /\ pc'[t] = "mark_error" /\ state' = state
        /\ Head(todo'[t]) = Current(t) /\ dropped' = dropped
        /\ \A u \in Tasks \ {t} : pc'[u] = pc[u] /\ todo'[u] = todo[u]
      BY <1>5 DEF TypeOK, StopTimeout, Current
  <2> QED BY <2>1, OwnersKept
<1>6. CASE MarkError(t)
  <2>1. /\ pc[t] = "mark_error" /\ dropped' = dropped
        /\ \A u \in Tasks \ {t} : pc'[u] = pc[u] /\ todo'[u] = todo[u]
      BY <1>6 DEF TypeOK, MarkError
  <2>2. \A i \in Ids : i # Current(t) => state'[i] = state[i]
      BY <1>6 DEF TypeOK, MarkError, Transition
  <2>3. Current(t) \in Ids => state'[Current(t)] \in {"Error", NotRegistered}
      BY <1>6 DEF TypeOK, MarkError, Transition, Registered
  <2> QED BY <2>1, <2>2, <2>3, OwnersKept DEF NotRegistered
<1> QED BY <1>0, <1>1, <1>2, <1>3, <1>4, <1>5, <1>6 DEF Proceed

\* A component that returned is no longer in a transient state.
LEMMA ExternalOwners ==
    ASSUME TypeOK, TransientStatesOwned, NEW t \in Tasks, External(t)
    PROVE  TransientStatesOwned'
<1> USE DEF Goto, Return, Done
<1>1. \A u \in Tasks \ {t} : pc'[u] = pc[u] /\ todo'[u] = todo[u]
    BY DEF TypeOK, External, StartReturns, StopReturns, StopFails, Signal
<1>2. CASE Signal(t)
  <2>1. pc[t] = "signal" /\ state' = state /\ dropped' = dropped
      BY <1>2 DEF Signal
  <2> QED BY <1>1, <2>1, OwnersKept
<1>3. ASSUME NEW new \in {"Running", "Stopped", "Error"},
             Transition(Current(t), new), dropped' = dropped
      PROVE  TransientStatesOwned'
  <2>1. \A i \in Ids : i # Current(t) => state'[i] = state[i]
      BY <1>3 DEF TypeOK, Transition
  <2>2. Current(t) \in Ids => state'[Current(t)] \in {new, NotRegistered}
      BY <1>3 DEF TypeOK, Transition, Registered
  <2>3. \A i \in Ids : state'[i] \in {"Starting", "Stopping"} =>
            state'[i] = state[i] /\ i # Current(t)
      BY <2>1, <2>2 DEF NotRegistered
  <2>4. \A u \in Tasks \ {t} : pc[u] \in {"starting", "stopping", "mark_error"} =>
            pc'[u] = pc[u] /\ todo'[u] = todo[u]
      BY <1>1, Zenon
  <2>5. \A i \in Ids : state'[i] = "Starting" =>
            \/ i \in dropped'
            \/ pc'[t] = "starting" /\ Head(todo'[t]) = i
            \/ /\ state[i] = "Starting" /\ i \notin dropped
               /\ ~(pc[t] = "starting" /\ Current(t) = i)
      BY <1>3, <2>3, Zenon
  <2>6. \A i \in Ids : state'[i] = "Stopping" =>
            \/ pc'[t] \in {"stopping", "mark_error"} /\ Head(todo'[t]) = i
            \/ /\ state[i] = "Stopping"
               /\ ~(pc[t] \in {"stopping", "mark_error"} /\ Current(t) = i)
      BY <2>3, Zenon
  <2> QED BY <2>4, <2>5, <2>6, OwnersKept, Zenon
<1> QED BY <1>2, <1>3 DEF External, StartReturns, StopReturns

\* However calls interleave, components fail, hang or are removed and come
\* back, no component is left Starting or Stopping with no task at it, but for
\* a start() that start_all_with_timeout dropped (manager.rs:136-320).
THEOREM TransientOwned == Spec => []TransientStatesOwned
<1>1. Init => TransientStatesOwned
    BY DEF Init, TransientStatesOwned
<1>2. TypeOK /\ TransientStatesOwned /\ [Next]_vars => TransientStatesOwned'
  <2>1. ASSUME TypeOK, TransientStatesOwned, UNCHANGED vars
        PROVE  TransientStatesOwned'
      BY <2>1 DEF vars, TransientStatesOwned, Current
  <2>2. ASSUME TypeOK, TransientStatesOwned, Next PROVE TransientStatesOwned'
      BY <2>2, CallOwners, ProceedOwners, ExternalOwners DEF Next
  <2> QED BY <2>1, <2>2
<1> QED BY <1>1, <1>2, ManagerTypes, PTL DEF Spec

-----------------------------------------------------------------------------
(***************************************************************************)
(* The claim of start_one                                                  *)
(***************************************************************************)
StartOps == {"add_dependency", "start", "start_all", "start_all_with_timeout",
             "wait"}

\* The inductive invariant: callers only start, so no task is on a stopping
\* path, and a task inside comp.start() holds that component's Starting.
ClaimIInv ==
    /\ OpsCalled
    /\ \A t \in Tasks : pc[t] \in {"idle", "start_order", "start", "starting",
                                   "waiting"}
    /\ \A t \in Tasks : pc[t] = "starting" => state[Current(t)] = "Starting"
    /\ NoDoubleStart

\* A step of t keeps the claims of the others if it changes no state but that
\* of t's own component.
LEMMA ClaimKept ==
    ASSUME ClaimIInv, OpsCalled', NEW t \in Tasks,
           \A u \in Tasks \ {t} : pc'[u] = pc[u] /\ todo'[u] = todo[u],
           pc'[t] \in {"idle", "start_order", "start", "waiting"},
           \/ state' = state
           \/ /\ pc[t] = "starting"
              /\ \A i \in Ids \ {Current(t)} : state'[i] = state[i],
           \A u \in Tasks : pc[u] = "starting" => Current(u) \in Ids
    PROVE  ClaimIInv'
<1>1. \A u \in Tasks \ {t} : pc'[u] = "starting" =>
            pc[u] = "starting" /\ Head(todo'[u]) = Current(u)
    BY DEF Current
<1>2. ASSUME NEW u \in Tasks, pc'[u] = "starting"
      PROVE  state'[Head(todo'[u])] = "Starting"
  <2>1. u # t /\ pc[u] = "starting" /\ Head(todo'[u]) = Current(u)
      BY <1>1, <1>2
  <2>2. pc[t] = "starting" => Current(u) # Current(t)
      BY <2>1 DEF ClaimIInv, NoDoubleStart
  <2> QED BY <2>1, <2>2 DEF ClaimIInv
<1>3. NoDoubleStart'
    BY <1>1 DEF ClaimIInv, NoDoubleStart, Current
<1> QED BY <1>2, <1>3 DEF ClaimIInv, Current

\* "two concurrent `start`s can't both pass the idempotency guard and
\* double-initialize the component" (manager.rs:244-263): true of any number of
\* concurrent starts, timed out ones included, while nobody stops, registers or
\* unregisters components.
THEOREM SingleStart ==
    ASSUME Ops \subseteq StartOps
    PROVE  Spec => []NoDoubleStart
<1> USE DEF Goto, Return, Done, StartOps
<1>1. Init => ClaimIInv
    BY DEF Init, ClaimIInv, OpsCalled, NoDoubleStart
<1>2. ASSUME TypeOK, ClaimIInv, NEW t \in Tasks, Call(t) \/ Proceed(t) \/ External(t)
      PROVE  ClaimIInv'
  <2>0. /\ OpsCalled'
        /\ \A u \in Tasks : pc[u] = "starting" => Current(u) \in Ids
      BY <1>2, OpsCalledStep, ListParts DEF ClaimIInv, TypeOK, Current
  <2>1. op[t] \in StartOps \cup {"none"}
      BY <1>2, Zenon DEF ClaimIInv, OpsCalled
  <2>2. CASE Call(t)
    <3>1. /\ \A u \in Tasks \ {t} : pc'[u] = pc[u] /\ todo'[u] = todo[u]
          /\ state' = state
          /\ pc'[t] \in {"idle", "start_order", "start", "waiting"}
        BY <1>2, <2>2, Zenon DEF TypeOK, Call, Register, Unregister, AddDependency,
            StartCall, StopCall, StartAllCall, StopAllCall, WaitCall
    <3> QED BY <1>2, <2>0, <3>1, ClaimKept
  <2>3. CASE StartOrder(t) \/ StartTimeout(t) \/ StartEnd(t)
    <3>1. /\ \A u \in Tasks \ {t} : pc'[u] = pc[u] /\ todo'[u] = todo[u]
          /\ state' = state
          /\ pc'[t] \in {"idle", "start_order", "start", "waiting"}
        BY <1>2, <2>1, <2>3 DEF TypeOK, StartOrder, StartTimeout, StartEnd
    <3> QED BY <1>2, <2>0, <3>1, ClaimKept
  <2>4. CASE StartOne(t)
    <3>1. /\ \A u \in Tasks \ {t} : pc'[u] = pc[u] /\ todo'[u] = todo[u]
          /\ pc[t] = "start"
        BY <1>2, <2>4, SMTT(30), Zenon DEF TypeOK, StartOne
    <3>2. CASE state' = state /\ pc'[t] \in {"idle", "start"}
        BY <1>2, <2>0, <3>1, <3>2, ClaimKept, SMTT(30), Zenon
    <3>3. CASE /\ state[Current(t)] # "Starting" /\ Current(t) \in Ids
               /\ state' = [state EXCEPT ![Current(t)] = "Starting"]
               /\ pc'[t] = "starting" /\ todo'[t] = todo[t]
      <4>1. \A u \in Tasks \ {t} : pc'[u] = "starting" =>
                /\ pc[u] = "starting" /\ Head(todo'[u]) = Current(u)
                /\ Current(u) # Current(t) /\ state[Current(u)] = "Starting"
        <5>1. \A u \in Tasks : pc[u] = "starting" => state[Current(u)] = "Starting"
            BY <1>2, Zenon DEF ClaimIInv
        <5>2. \A u \in Tasks \ {t} : Head(todo'[u]) = Current(u)
            BY <3>1 DEF Current
        <5> QED BY <3>1, <3>3, <5>1, <5>2
      <4>2. Head(todo'[t]) = Current(t)
          BY <3>3, SMTT(30), Zenon DEF Current
      <4>3. \A u \in Tasks : pc'[u] = "starting" => state'[Head(todo'[u])] = "Starting"
          BY <1>2, <2>0, <3>3, <4>1, <4>2, SMTT(30), Zenon DEF TypeOK
      <4>4. \A u, v \in Tasks :
                pc'[u] = "starting" /\ pc'[v] = "starting"
                    /\ Head(todo'[u]) = Head(todo'[v]) => u = v
          BY <1>2, <4>1, <4>2, SMTT(30), Zenon DEF ClaimIInv, NoDoubleStart
      <4>5. \A u \in Tasks : pc'[u] \in {"idle", "start_order", "start", "starting",
                                         "waiting"}
          BY <1>2, <3>1, <3>3 DEF ClaimIInv
      <4> QED BY <2>0, <4>3, <4>4, <4>5, SMTT(30), Zenon DEF ClaimIInv, NoDoubleStart, Current
    <3>4. todo[t] # <<>> => Current(t) \in Ids
        BY <1>2, ListParts DEF TypeOK, Current
    <3>5. \/ state' = state /\ pc'[t] \in {"idle", "start"}
          \/ /\ state[Current(t)] # "Starting" /\ Current(t) \in Ids
             /\ state' = [state EXCEPT ![Current(t)] = "Starting"]
             /\ pc'[t] = "starting" /\ todo'[t] = todo[t]
        BY <1>2, <2>4, <3>4 DEF StartOne, TypeOK
    <3> QED BY <3>2, <3>3, <3>5
  <2>5. ASSUME NEW ok \in BOOLEAN, StartReturns(t, ok) PROVE ClaimIInv'
    <3>1. /\ \A u \in Tasks \ {t} : pc'[u] = pc[u] /\ todo'[u] = todo[u]
          /\ pc[t] = "starting" /\ pc'[t] \in {"idle", "start"}
        BY <1>2, <2>5 DEF TypeOK, StartReturns
    <3>2. \A i \in Ids \ {Current(t)} : state'[i] = state[i]
        BY <1>2, <2>5, SMTT(30), Zenon DEF TypeOK, StartReturns, Transition
    <3> QED BY <1>2, <2>0, <3>1, <3>2, ClaimKept, Zenon
  <2>6. /\ ~StopOrder(t) /\ ~StopRead(t) /\ ~StopBegin(t) /\ ~StopTimeout(t)
        /\ ~MarkError(t) /\ ~StopEnd(t) /\ ~Signal(t)
        /\ \A ok \in BOOLEAN : ~StopReturns(t, ok)
      BY <1>2 DEF ClaimIInv, StopOrder, StopRead, StopBegin, StopTimeout,
          MarkError, StopEnd, Signal, StopReturns
  <2> QED BY <1>2, <2>2, <2>3, <2>4, <2>5, <2>6 DEF Proceed, External
<1>3. TypeOK /\ ClaimIInv /\ [Next]_vars => ClaimIInv'
  <2>1. ASSUME ClaimIInv, UNCHANGED vars PROVE ClaimIInv'
      BY <2>1, Zenon DEF vars, ClaimIInv, OpsCalled, NoDoubleStart, Current
  <2> QED BY <1>2, <2>1, Zenon DEF Next
<1>4. ClaimIInv => NoDoubleStart
    BY DEF ClaimIInv
<1> QED BY <1>1, <1>3, <1>4, ManagerTypes, PTL DEF Spec
=============================================================================
