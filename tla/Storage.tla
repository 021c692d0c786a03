------------------------------- MODULE Storage ------------------------------
(* The in-memory vector store and the directory walk of the local filesystem. *)
EXTENDS Integers, Sequences, SequencesExt, FiniteSets, FiniteSetsExt

(* vectorstore/mod.rs: MemoryStore. Every operation is one critical section   *)
(* of the RwLock. Components of vectors are small integers or NaN; scores are *)
(* compared exactly as fractions, f32 rounding is left out.                   *)

CONSTANTS
  Ids,        \* document ids, naturals so that they have an order
  Vectors,    \* sequences of components
  NaN,
  TopKs       \* values of top_k

Metrics == {"cosine", "dot", "euclidean"}
NoDim == 0 - 1

VARIABLES
  docs,       \* id -> vector
  dim,        \* the collection's dimension, or NoDim
  found      \* what the last operation returned

storeVars == <<docs, dim, found>>

Abs(x) == IF x < 0 THEN -x ELSE x

IsZero(v) == \A i \in 1..Len(v) : v[i] = 0
HasNaN(v) == \E i \in 1..Len(v) : v[i] = NaN
Dot(a, b) == FoldSet(LAMBDA i, sum : sum + a[i] * b[i], 0, 1..Len(a))
Minus(a, b) == [i \in 1..Len(a) |-> a[i] - b[i]]

(* The score as a signed fraction <<n, d>>, monotone in the code's f32: the   *)
(* square (with its sign) of the cosine times the query's norm, the dot       *)
(* product, minus the squared distance. A NaN component makes the score NaN,  *)
(* except for the cosine with a zero vector.                                  *)
Score(metric, q, v) ==
  CASE metric = "cosine" /\ (IsZero(q) \/ IsZero(v)) -> <<0, 1>>
    [] HasNaN(q) \/ HasNaN(v) -> <<NaN, 1>>
    [] metric = "cosine" -> <<Dot(q, v) * Abs(Dot(q, v)), Dot(v, v)>>
    [] metric = "dot" -> <<Dot(q, v), 1>>
    [] metric = "euclidean" -> <<0 - Dot(Minus(q, v), Minus(q, v)), 1>>

Higher(s, t) == s[1] * t[2] > t[1] * s[2]

(* The comparator of sort_by: descending, NaN last, ties by id. *)
Before(h, g) ==
  CASE h.score[1] = NaN /\ g.score[1] = NaN -> h.id < g.id
    [] h.score[1] = NaN -> FALSE
    [] g.score[1] = NaN -> TRUE
    [] OTHER -> Higher(h.score, g.score) \/ (~Higher(g.score, h.score) /\ h.id < g.id)

Hits(metric, q) == {[id |-> i, score |-> Score(metric, q, docs[i])] : i \in DOMAIN docs}

StoreInit == /\ docs = [i \in {} |-> <<>>] /\ dim = NoDim
             /\ found = [op |-> "none"]

Fixed(batch) == IF dim = NoDim /\ batch # <<>> THEN Len(batch[1].vector) ELSE dim

(* MUTANT: documents are inserted while they are validated. *)
UpsertEager(batch) ==
  LET want == Fixed(batch)
      bad == {i \in 1..Len(batch) : Len(batch[i].vector) # want}
      upTo == IF bad = {} THEN Len(batch) ELSE Min(bad) - 1
  IN /\ dim' = want
     /\ docs' = FoldLeft(LAMBDA d, x : (x.id :> x.vector) @@ d, docs, SubSeq(batch, 1, upTo))
     /\ found' = [op |-> "upsert", ok |-> bad = {}]

(* upsert: the first document fixes the dimension if none is fixed, also when *)
(* a later one is refused; then all are inserted or none.                     *)
Upsert(batch) ==
  LET want == Fixed(batch)
      ok == \A i \in 1..Len(batch) : Len(batch[i].vector) = want
  IN /\ dim' = want
     /\ docs' = IF ok THEN FoldLeft(LAMBDA d, x : (x.id :> x.vector) @@ d, docs, batch) ELSE docs
     /\ found' = [op |-> "upsert", ok |-> ok]

(* search: refuses another dimension; sorts all hits; truncates. *)
Search(metric, q, k) ==
  /\ found' =
       IF dim # NoDim /\ Len(q) # dim THEN [op |-> "search", ok |-> FALSE]
       ELSE LET ranked == SetToSortSeq(Hits(metric, q), Before)
            IN [op |-> "search", ok |-> TRUE, metric |-> metric, query |-> q, k |-> k,
                hits |-> SubSeq(ranked, 1, Min({k, Len(ranked)}))]
  /\ UNCHANGED <<docs, dim>>

(* delete: unknown ids are skipped; the dimension stays. *)
Delete(ids) ==
  /\ docs' = [i \in DOMAIN docs \ ids |-> docs[i]]
  /\ found' = [op |-> "delete", ok |-> TRUE]
  /\ UNCHANGED dim

Docs == [id : Ids, vector : Vectors]

StoreNext ==
  \/ \E batch \in SeqOf(Docs, 2) : Upsert(batch)
  \/ \E m \in Metrics, q \in Vectors, k \in TopKs : Search(m, q, k)
  \/ \E ids \in SUBSET Ids : Delete(ids)

-----------------------------------------------------------------------------
(* Searching never compares vectors of different lengths: every stored vector *)
(* has the collection's dimension, whatever was refused, replaced or deleted  *)
(* before (vectorstore/mod.rs:241, 259).                                      *)
SameDimension == \A i \in DOMAIN docs : Len(docs[i]) = dim

(* A refused batch stores none of its documents (vectorstore/mod.rs:242).      *)
AllOrNothing == [][found'.op = "upsert" /\ ~found'.ok => docs' = docs]_storeVars

(* A search returns min(top_k, documents) hits, best first, and no document   *)
(* left out is better than one returned; a document whose score is NaN comes  *)
(* after every other (vectorstore/mod.rs:276).                                *)
BestFirst ==
  found.op = "search" /\ found.ok =>
    LET hits == found.hits
        all == Hits(found.metric, found.query)
    IN /\ Len(hits) = Min({found.k, Cardinality(all)})
       /\ \A i, j \in 1..Len(hits) :
            i < j /\ hits[i].score[1] # NaN /\ hits[j].score[1] # NaN =>
              ~Higher(hits[j].score, hits[i].score)
       /\ \A h \in all \ Range(hits) : \A i \in 1..Len(hits) :
            /\ hits[i].score[1] = NaN => h.score[1] = NaN
            /\ hits[i].score[1] # NaN /\ h.score[1] # NaN => ~Higher(h.score, hits[i].score)

(* The vector store keeps vectors it can compare, takes a batch whole or not  *)
(* at all, and ranks what it has (vectorstore/mod.rs:241-276).                *)
StoreSound == []SameDimension /\ AllOrNothing /\ []BestFirst

-----------------------------------------------------------------------------
(* vfs/mod.rs: LocalFs::walk and delete while other processes change the      *)
(* tree. The operating system's directory stream is external: it returns      *)
(* every entry that stays in the directory once, and may or may not return    *)
(* one that comes or goes meanwhile.                                          *)

CONSTANTS
  Tree,        \* child -> parent, for every node but the root
  Dirs,        \* the nodes that are directories when they exist
  Root,
  MaxChanges   \* bound on what the other processes do

Files == DOMAIN Tree

VARIABLES
  alive,      \* the nodes that exist
  pending,      \* walk's pending of directories
  dir,        \* the directory being read, or "none"
  left,       \* entries its stream has not returned yet
  visited,    \* history: entries passed to the callback, in order
  skipped,    \* history: directories the callback answered SkipDir for
  walk,       \* "idle", "walking", "ok", "stopped" or "error"
  deleted,    \* a delete() of a directory: "idle", "dir" after its metadata, "ok" or "error"
  changes,    \* history: changes so far
  stable      \* history: nodes that existed since the walk began

walkVars == <<alive, pending, dir, left, visited, skipped, walk, deleted, changes, stable>>

Victim == CHOOSE n \in Files : n \in Dirs

RECURSIVE Above(_)
Above(n) == IF n = Root THEN {} ELSE {Tree[n]} \cup Above(Tree[n])

Under(n) == {m \in Files : m = n \/ n \in Above(m)}
Children(d) == {n \in Files : Tree[n] = d}

WalkInit ==
  /\ alive \in {S \in SUBSET Files : \A n \in S : Tree[n] \in S \cup {Root}}
  /\ pending = <<>> /\ dir = "none" /\ left = {} /\ visited = <<>> /\ skipped = {}
  /\ walk = "idle" /\ deleted = "idle" /\ changes = 0 /\ stable = alive

Exists(n) == n \in alive \cup {Root}

WalkStart ==
  /\ walk = "idle" /\ walk' = "walking" /\ pending' = <<Root>>
  /\ stable' = alive
  /\ UNCHANGED <<alive, dir, left, visited, skipped, deleted, changes>>

(* MUTANT: a directory that is gone is tried again. *)
OpenDirRetries ==
  /\ walk = "walking" /\ dir = "none" /\ pending # <<>> /\ Exists(Last(pending))
  /\ pending' = Front(pending) /\ dir' = Last(pending)
  /\ left' = Children(Last(pending)) \cap alive
  /\ UNCHANGED <<alive, visited, skipped, walk, deleted, changes, stable>>

(* pending.pop() and read_dir: a directory that is gone ends the walk. *)
OpenDir ==
  /\ walk = "walking" /\ dir = "none" /\ pending # <<>>
  /\ pending' = Front(pending)
  /\ IF Exists(Last(pending))
     THEN dir' = Last(pending) /\ left' = Children(Last(pending)) \cap alive /\ UNCHANGED walk
     ELSE walk' = "error" /\ UNCHANGED <<dir, left>>
  /\ UNCHANGED <<alive, visited, skipped, deleted, changes, stable>>

(* The stream may not return an entry that has come or gone. *)
Unseen(n) ==
  /\ walk = "walking" /\ n \in left /\ n \notin stable
  /\ left' = left \ {n}
  /\ UNCHANGED <<alive, pending, dir, visited, skipped, walk, deleted, changes, stable>>

(* next_entry returned it, but its metadata is gone: the whole walk fails. *)
Vanished(n) ==
  /\ walk = "walking" /\ n \in left /\ ~Exists(n)
  /\ walk' = "error"
  /\ UNCHANGED <<alive, pending, dir, left, visited, skipped, deleted, changes, stable>>

(* The callback sees the entry and decides. *)
Visit(n, action) ==
  /\ walk = "walking" /\ n \in left /\ Exists(n)
  /\ left' = left \ {n} /\ visited' = Append(visited, n)
  /\ walk' = IF action = "Stop" THEN "stopped" ELSE walk
  /\ pending' = IF action = "Continue" /\ n \in Dirs THEN Append(pending, n) ELSE pending
  /\ skipped' = IF action = "SkipDir" THEN skipped \cup {n} ELSE skipped
  /\ UNCHANGED <<alive, dir, deleted, changes, stable>>

DirDone ==
  /\ walk = "walking" /\ dir # "none" /\ left = {}
  /\ dir' = "none" /\ walk' = IF pending = <<>> THEN "ok" ELSE walk
  /\ UNCHANGED <<alive, pending, left, visited, skipped, deleted, changes, stable>>

(* delete(): metadata first, then remove_dir_all or remove_file, which may    *)
(* find something else there by then.                                         *)
DeleteLooks ==
  /\ deleted = "idle"
  /\ deleted' = IF Exists(Victim) THEN "dir" ELSE "error"
  /\ UNCHANGED <<alive, pending, dir, left, visited, skipped, walk, changes, stable>>

DeleteRemoves ==
  /\ deleted = "dir"
  /\ IF Exists(Victim)
     THEN /\ deleted' = "ok" /\ alive' = alive \ Under(Victim)
          /\ stable' = stable \ Under(Victim)
     ELSE deleted' = "error" /\ UNCHANGED <<alive, stable>>
  /\ UNCHANGED <<pending, dir, left, visited, skipped, walk, changes>>

(* Another process removes a leaf or creates a node. *)
Unlink(n) ==
  /\ changes < MaxChanges /\ Exists(n) /\ Children(n) \cap alive = {}
  /\ changes' = changes + 1
  /\ alive' = alive \ {n} /\ stable' = stable \ {n}
  /\ UNCHANGED <<pending, dir, left, visited, skipped, walk, deleted>>

Mknod(n) ==
  /\ changes < MaxChanges /\ ~Exists(n) /\ Exists(Tree[n])
  /\ changes' = changes + 1
  /\ alive' = alive \cup {n}
  /\ left' = IF Tree[n] = dir /\ n \notin Range(visited) THEN left \cup {n} ELSE left
  /\ UNCHANGED <<pending, dir, visited, skipped, walk, deleted, stable>>

WalkStep == OpenDir \/ DirDone \/ \E n \in Files : Unseen(n) \/ Vanished(n)
                                    \/ \E a \in {"Continue", "SkipDir", "Stop"} : Visit(n, a)

WalkNext == WalkStart \/ WalkStep \/ DeleteLooks \/ DeleteRemoves \/ \E n \in Files : Unlink(n) \/ Mknod(n)

-----------------------------------------------------------------------------
(* No entry is visited twice, each after its directory, and none below a      *)
(* directory the callback skipped, whatever changes meanwhile                 *)
(* (vfs/mod.rs:363).                                                          *)
VisitsOrdered ==
  \A i \in 1..Len(visited) :
    /\ \A j \in 1..(i - 1) : visited[j] # visited[i]
    /\ Tree[visited[i]] # Root => \E j \in 1..(i - 1) : visited[j] = Tree[visited[i]]
    /\ Above(visited[i]) \cap skipped = {}

(* A walk that returns Ok without being stopped has visited every entry that  *)
(* existed all along and is not below a skipped directory (vfs/mod.rs:389).   *)
WalkComplete ==
  walk = "ok" => {n \in stable : Above(n) \cap skipped = {}} \subseteq Range(visited)

(* The walk fails only if something was removed under it (vfs/mod.rs:370).     *)
ErrorExplained == walk = "error" => changes > 0 \/ deleted = "ok"

(* A walk comes to an end while other processes change the tree               *)
(* (vfs/mod.rs:367).                                                          *)
WalkEnds == (walk = "walking") ~> (walk \in {"ok", "stopped", "error"})

(* A walk over a tree that changes meanwhile visits what stayed, once and     *)
(* parents first, fails only for a reason, and ends (vfs/mod.rs:363-389).     *)
WalkSound == []VisitsOrdered /\ []WalkComplete /\ []ErrorExplained /\ WalkEnds
=============================================================================
