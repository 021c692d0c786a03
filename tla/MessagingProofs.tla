-------------------------- MODULE MessagingProofs --------------------------
(***************************************************************************)
(* Proofs about Messaging, for any number of messages, destinations and    *)
(* listeners and any options: handlers within their concurrency, and every *)
(* message in one place or at one end.                                     *)
(***************************************************************************)
EXTENDS Messaging, FiniteSetTheorems, WellFoundedInduction, TLAPS

-----------------------------------------------------------------------------
(* Handlers within their concurrency.                                      *)

\* The jobs of every listener are finitely many and within its permits.
JobsInv ==
    /\ jobs = [l \in Listeners |-> jobs[l]]
    /\ \A l \in Listeners :
          IsFiniteSet(jobs[l]) /\ Cardinality(jobs[l]) <= Permits(l)

\* A listener has a permit to give: Semaphore::new(n.max(1)) also for Some(0)
\* (messaging/mod.rs:472), which is Some(1) here.
LEMMA PermitsPositive ==
    ASSUME NEW l \in Listeners
    PROVE  Permits(l) \in Nat \ {0}
BY OptionsAssumption DEF Permits, Serial

\* A job begins on a listener that has a permit left, or no job at all.
LEMMA StartedJobs ==
    ASSUME JobsInv, NEW l \in Listeners, NEW m, Started(l, m),
           jobs[l] = {} \/ PermitFree(l)
    PROVE  JobsInv'
<1>1. jobs' = [jobs EXCEPT ![l] = @ \cup {m}]
  BY DEF Started
<1>2. IsFiniteSet(jobs[l]) /\ Cardinality(jobs[l]) \in Nat
  BY FS_CardinalityType DEF JobsInv
<1>3. IsFiniteSet(jobs[l] \cup {m})
      /\ Cardinality(jobs[l] \cup {m}) <= Cardinality(jobs[l]) + 1
  BY <1>2, FS_AddElement
<1>4. Cardinality(jobs[l] \cup {m}) \in Nat
  BY <1>3, FS_CardinalityType
<1>5. Cardinality(jobs[l]) + 1 <= Permits(l)
  BY <1>2, PermitsPositive, FS_EmptySet DEF PermitFree
<1>6. Cardinality(jobs[l] \cup {m}) <= Permits(l)
  BY <1>2, <1>3, <1>4, <1>5, PermitsPositive
<1>7. jobs'[l] = jobs[l] \cup {m} /\ \A k \in Listeners \ {l} : jobs'[k] = jobs[k]
  BY <1>1 DEF JobsInv
<1>8. jobs' = [k \in Listeners |-> jobs'[k]]
  BY <1>1 DEF JobsInv
<1>9. QED  BY <1>3, <1>6, <1>7, <1>8, Zenon DEF JobsInv, Permits

\* A job that ends frees its permit.
LEMMA EndedJobs ==
    ASSUME JobsInv, NEW l \in Listeners, NEW j,
           jobs' = [jobs EXCEPT ![l] = @ \ {j}]
    PROVE  JobsInv'
<1>1. IsFiniteSet(jobs[l]) /\ Cardinality(jobs[l]) \in Nat
  BY FS_CardinalityType DEF JobsInv
<1>2. IsFiniteSet(jobs[l] \ {j})
      /\ Cardinality(jobs[l] \ {j}) <= Cardinality(jobs[l])
  BY <1>1, FS_Subset
<1>3. Cardinality(jobs[l] \ {j}) \in Nat
  BY <1>2, FS_CardinalityType
<1>4. Cardinality(jobs[l] \ {j}) <= Permits(l)
  BY <1>1, <1>2, <1>3, PermitsPositive DEF JobsInv
<1>5. jobs'[l] = jobs[l] \ {j} /\ \A k \in Listeners \ {l} : jobs'[k] = jobs[k]
  BY DEF JobsInv
<1>6. jobs' = [k \in Listeners |-> jobs'[k]]
  BY DEF JobsInv
<1>7. QED  BY <1>2, <1>4, <1>5, <1>6 DEF JobsInv, Permits

\* The handlers of a listener that run at once never exceed its concurrency,
\* whatever is sent, redelivered, panics or is stopped in between: the permit
\* is taken before the task is spawned (consumer_loop, messaging/mod.rs).
THEOREM HandlersBounded == Spec => []HandlersWithinConcurrency
<1>1. Init => JobsInv
  BY PermitsPositive, FS_EmptySet DEF Init, JobsInv
<1>2. JobsInv /\ [Next]_vars => JobsInv'
  <2> SUFFICES ASSUME JobsInv, [Next]_vars
               PROVE  JobsInv'
    OBVIOUS
  <2>1. CASE UNCHANGED jobs
    BY <2>1 DEF JobsInv, Permits
  <2>2. ASSUME NEW l \in Listeners, Receive(l)
        PROVE  JobsInv'
    <3>1. CASE Opts[l].concurrency = Serial
      BY <2>2, <3>1, StartedJobs DEF Receive, AtRecv
    <3>2. CASE Opts[l].concurrency # Serial
      BY <2>1, <2>2, <3>2 DEF Receive
    <3>3. QED  BY <3>1, <3>2
  <2>3. ASSUME NEW l \in Listeners, Start(l)
        PROVE  JobsInv'
    BY <2>3, StartedJobs DEF Start
  <2>4. ASSUME NEW l \in Listeners, NEW j \in jobs[l],
               \/ \E ack \in {"Ok", "Reject"} : Finish(l, j, ack)
               \/ Retry(l, j) \/ Panic(l, j)
        PROVE  JobsInv'
    BY <2>4, EndedJobs, Zenon DEF Finish, Retry, Panic
  <2>5. ASSUME NEW s \in sends, Resend(s) \/ Enqueue(s)
        PROVE  UNCHANGED jobs
    BY <2>5 DEF Resend, Pick, Enqueue
  <2>6. ASSUME NEW l \in Listeners, EndLoop(l) \/ AddListener(l)
        PROVE  UNCHANGED jobs
    BY <2>6 DEF EndLoop, AddListener
  <2>7. ASSUME NEW m \in Messages, Send(m)
        PROVE  UNCHANGED jobs
    BY <2>7 DEF Send, Pick
  <2>8. CASE Stop \/ UNCHANGED vars
    BY <2>1, <2>8 DEF Stop, vars
  <2>9. QED
    BY <2>1, <2>2, <2>3, <2>4, <2>5, <2>6, <2>7, <2>8 DEF Next, Internal
<1>3. JobsInv => HandlersWithinConcurrency
  BY DEF JobsInv, HandlersWithinConcurrency
<1>4. QED  BY <1>1, <1>2, <1>3, PTL DEF Spec

-----------------------------------------------------------------------------
(* The listeners that pick() retains.                                      *)

\* A set of naturals that is not empty has a least element: the induction of
\* the proofs about pick(), which loops over its listeners.
LEMMA LeastNat ==
  ASSUME NEW T \in SUBSET Nat, T # {}
  PROVE  \E x \in T : \A y \in T : x <= y
<1>1. IsWellFoundedOn(OpToRel(<, Nat), Nat)
  BY NatLessThanWellFounded, Zenon
<1>2. PICK x \in T : \A y \in T : ~ (<<y, x>> \in OpToRel(<, Nat))
  BY <1>1, WFMin, Zenon
<1>3. \A y \in T : ~ (y < x)
  BY <1>2, Zenon DEF OpToRel
<1>4. QED BY <1>3

\* What pick() retains of a list are members of that list: the recursion that
\* defines Live has a solution, and each of its values is a sequence over S.
LEMMA LiveIn ==
  ASSUME NEW d \in Destinations, NEW S, listeners[d] \in Seq(S)
  PROVE  Live(d) \in Seq(S)
<1> DEFINE list == listeners[d]
           n == Len(list)
           Is(f, k) == f = [i \in 0 .. k |-> IF i = 0 THEN <<>>
                              ELSE IF consumer[list[i]] = "ended" THEN f[i - 1]
                              ELSE Append(f[i - 1], list[i])]
<1>1. list \in Seq(S) /\ n \in Nat /\ \A i \in 1 .. n : list[i] \in S
  OBVIOUS
<1>2. Live(d) = (CHOOSE f : Is(f, n))[n]
  BY DEF Live
<1> DEFINE Step(g, k) == IF consumer[list[k]] = "ended" THEN g[k - 1] ELSE Append(g[k - 1], list[k])
<1>0. ASSUME NEW f, NEW k \in Nat, Is(f, k)
      PROVE  f[0] = <<>> /\ \A i \in 1 .. k : f[i] = Step(f, i)
  <2> DEFINE G == [i \in 0 .. k |-> IF i = 0 THEN <<>> ELSE Step(f, i)]
  <2>1. f = G
    BY <1>0, Zenon
  <2> HIDE DEF Step
  <2>2. G[0] = <<>> /\ \A i \in 1 .. k : G[i] = Step(f, i)
    OBVIOUS
  <2> HIDE DEF G
  <2>3. QED  BY <2>1, <2>2
<1> HIDE DEF Is, Step
<1>3. \E f : Is(f, n)
  <2>0. \A g : Is(g, 0) <=> g = [i \in 0 .. 0 |-> <<>>]
    BY DEF Is
  <2>a. ASSUME NEW k \in Nat \ {0}, NEW g, Is(g, k - 1)
        PROVE  \E h : Is(h, k)
    <3> DEFINE h == [i \in 0 .. k |-> IF i < k THEN g[i] ELSE Step(g, k)]
    <3>1. \A i \in 0 .. k - 1 : h[i] = g[i]
      OBVIOUS
    <3>2. h[k] = Step(h, k)
      BY <3>1 DEF Step
    <3>3. \A i \in 1 .. k - 1 : g[i] = Step(g, i)
      BY <2>a, <1>0
    <3>4. \A i \in 1 .. k - 1 : h[i] = Step(h, i)
      BY <3>1, <3>3 DEF Step
    <3>5. h[0] = <<>>
      BY <1>0, <2>a, <3>1
    <3>6. \A i \in 0 .. k : h[i] = IF i = 0 THEN <<>> ELSE Step(h, i)
      BY <3>2, <3>4, <3>5
    <3>7. h = [i \in 0 .. k |-> h[i]]
      OBVIOUS
    <3> HIDE DEF h
    <3>8. h = [i \in 0 .. k |-> IF i = 0 THEN <<>> ELSE Step(h, i)]
      BY <3>6, <3>7, Zenon
    <3>9. QED  BY <3>8 DEF Is, Step
  <2> DEFINE T == {k \in Nat : ~ \E f : Is(f, k)}
  <2> SUFFICES ASSUME T # {} PROVE FALSE
    BY <1>1
  <2>1. PICK k \in T : \A y \in T : k <= y
    BY LeastNat, Zenon
  <2>2. k # 0
    BY <2>0, Zenon
  <2>3. k - 1 \in Nat /\ k - 1 \notin T
    BY <2>1, <2>2
  <2>4. QED  BY <2>2, <2>3, <2>a
<1>4. PICK f : Is(f, n) /\ Live(d) = f[n]
  BY <1>2, <1>3, Zenon
<1>5. \A k \in 0 .. n : f[k] \in Seq(S)
  <2> DEFINE T == {k \in Nat : k <= n /\ f[k] \notin Seq(S)}
  <2> SUFFICES ASSUME T # {} PROVE FALSE
    BY <1>1
  <2>1. PICK k \in T : \A y \in T : k <= y
    BY LeastNat, Zenon
  <2>2. f[0] = <<>> /\ <<>> \in Seq(S)
    BY <1>0, <1>1, <1>4
  <2>3. k # 0 /\ k \in 1 .. n
    <3>1. 0 \notin T
      BY <2>2, Zenon
    <3>2. k # 0
      BY <2>1, <3>1
    <3>3. QED  BY <1>1, <2>1, <3>2
  <2>4. f[k - 1] \in Seq(S)
    BY <1>1, <2>1, <2>3
  <2>5. f[k] = Step(f, k)
    BY <1>0, <1>1, <1>4, <2>3
  <2>6. list[k] \in S
    BY <1>1, <2>3
  <2> HIDE DEF list
  <2>7. Step(f, k) \in Seq(S)
    BY <2>4, <2>6 DEF Step
  <2>8. QED BY <2>1, <2>5, <2>7
<1>6. QED BY <1>1, <1>4, <1>5
\* What pick() retains are listeners.
LEMMA LiveType ==
    ASSUME NEW d \in Destinations, listeners \in [Destinations -> Seq(Listeners)]
    PROVE  Live(d) \in Seq(Listeners)
<1>1. listeners[d] \in Seq(Listeners)
  OBVIOUS
<1>2. QED  BY <1>1, LiveIn

-----------------------------------------------------------------------------
(* Types.                                                                  *)

\* The types of the variables, with what TypeOK says of the channels and the
\* loops put without cardinalities.
TypeInv ==
    /\ listeners \in [Destinations -> Seq(Listeners)]
    /\ round_robin \in [Destinations -> 0 .. RoundRobinWrap - 1]
    /\ consumer \in [Listeners -> {"absent", "running", "ended"}]
    /\ queue \in [Listeners -> Seq(Message)]
    /\ waiting \in [Listeners -> SUBSET Message]
    /\ jobs \in [Listeners -> SUBSET Message]
    /\ sends \subseteq SendOp
    /\ sent \subseteq Messages
    /\ fate \in [Messages -> SUBSET Fate]
    /\ starts \in [Messages -> Nat]
    /\ visited \in [Keys -> SUBSET Listeners]
    /\ \A l \in Listeners :
          /\ Len(queue[l]) <= Opts[l].buffer_size
          /\ waiting[l] = {} \/ \E m \in Message : waiting[l] = {m}

\* A retried message is the same message, delivered once more.
LEMMA Bump ==
    ASSUME NEW j \in Message
    PROVE  LET m == [j EXCEPT !.delivery_count = @ + 1]
           IN  m \in Message /\ m.id = j.id /\ m.delivery_count = j.delivery_count + 1
BY DEF Message

\* A send that has picked its listener differs in nothing else.
LEMMA Picked ==
    ASSUME NEW s \in SendOp, NEW l \in Listeners
    PROVE  LET t == [s EXCEPT !.to = l]
           IN  /\ t \in SendOp /\ t.to = l /\ t.msg = s.msg /\ t.dest = s.dest
               /\ t.key = s.key /\ t.origin = s.origin
BY DEF SendOp

\* The listener pick() chooses, by rotation or by the hash of the key.
LEMMA IndexOf ==
    ASSUME TypeInv, NEW s \in SendOp, Live(s.dest) # <<>>
    PROVE  Index(s.dest, s.key) + 1 \in DOMAIN Live(s.dest)
<1>1. s.dest \in Destinations /\ s.key \in Keys \cup {NoKey}
  BY DEF SendOp
<1>2. Live(s.dest) \in Seq(Listeners)
  BY <1>1, LiveType DEF TypeInv
<1> DEFINE n == Len(Live(s.dest))
           h == IF s.key = NoKey THEN round_robin[s.dest] ELSE Hash[s.key]
<1>3. n \in Nat \ {0} /\ DOMAIN Live(s.dest) = 1 .. n
  BY <1>2
<1>4. h \in Nat
  <2>1. round_robin[s.dest] \in 0 .. RoundRobinWrap - 1
    BY <1>1 DEF TypeInv
  <2>2. s.key # NoKey => Hash[s.key] \in Nat
    BY <1>1, OptionsAssumption
  <2>3. QED  BY <2>1, <2>2, OptionsAssumption
<1>5. Index(s.dest, s.key) = h % n
  BY DEF Index
<1>6. h % n \in 0 .. n - 1
  BY <1>3, <1>4
<1>7. QED  BY <1>3, <1>5, <1>6

\* pick() chooses one of the listeners it retains.
LEMMA IndexInLive ==
    ASSUME TypeInv, NEW s \in SendOp, Live(s.dest) # <<>>
    PROVE  Live(s.dest)[Index(s.dest, s.key) + 1] \in Listeners
<1>1. Live(s.dest) \in Seq(Listeners)
  BY LiveType DEF TypeInv, SendOp
<1>2. QED  BY <1>1, IndexOf

\* A report of an end is a report.
LEMMA EndsType ==
    ASSUME TypeInv, NEW ids, NEW how \in Fate
    PROVE  Ends(ids, how) \in [Messages -> SUBSET Fate]
BY DEF TypeInv, Ends

\* pick() keeps the types.
LEMMA PickType ==
    ASSUME TypeInv, NEW s \in SendOp, Pick(s), sent' \subseteq Messages
    PROVE  TypeInv'
<1>1. s.dest \in Destinations /\ s.key \in Keys \cup {NoKey} /\ s.msg \in Message
  BY DEF SendOp
<1>2. Live(s.dest) \in Seq(Listeners)
  BY <1>1, LiveType DEF TypeInv
<1>3. UNCHANGED <<consumer, queue, waiting, jobs, starts>>
  BY DEF Pick
<1>4. listeners' \in [Destinations -> Seq(Listeners)]
  BY <1>1, <1>2 DEF Pick, TypeInv
<1>5. CASE Live(s.dest) = <<>>
  <2>1. sends' \subseteq SendOp /\ round_robin' = round_robin
    BY <1>5 DEF Pick, TypeInv
  <2>2. fate' \in [Messages -> SUBSET Fate]
    BY <1>5, EndsType DEF Pick, Fail, Fate
  <2>3. visited' \in [Keys -> SUBSET Listeners]
    BY <1>5 DEF Pick, TypeInv
  <2>4. QED  BY <1>3, <1>4, <2>1, <2>2, <2>3, Zenon DEF TypeInv
<1>6. CASE Live(s.dest) # <<>>
  <2> DEFINE to == Live(s.dest)[Index(s.dest, s.key) + 1]
  <2>1. to \in Listeners
    BY <1>6, IndexInLive
  <2>2. [s EXCEPT !.to = to] \in SendOp
    BY <2>1, Picked
  <2> HIDE DEF to
  <2>3. sends' \subseteq SendOp /\ fate' = fate
    BY <1>6, <2>2, Zenon DEF Pick, TypeInv, to
  <2>4. round_robin' \in [Destinations -> 0 .. RoundRobinWrap - 1]
    <3>1. CASE s.key # NoKey
      BY <1>6, <3>1 DEF Pick, TypeInv
    <3>2. CASE s.key = NoKey
      <4>1. round_robin[s.dest] + 1 \in Nat
        BY <1>1, OptionsAssumption DEF TypeInv
      <4>2. (round_robin[s.dest] + 1) % RoundRobinWrap \in 0 .. RoundRobinWrap - 1
        BY <4>1, OptionsAssumption
      <4>3. round_robin' = [round_robin EXCEPT ![s.dest] = (@ + 1) % RoundRobinWrap]
        BY <1>6, <3>2 DEF Pick
      <4>4. QED  BY <4>2, <4>3, Zenon DEF TypeInv
    <3>3. QED  BY <3>1, <3>2
  <2>5. visited' \in [Keys -> SUBSET Listeners]
    BY <1>6, <2>1 DEF Pick, TypeInv, to
  <2>6. QED  BY <1>3, <1>4, <2>3, <2>4, <2>5 DEF TypeInv
<1>7. QED  BY <1>5, <1>6

\* Every step keeps the types, the bound of each channel included: a send
\* that finds no room waits or fails (Enqueue).
LEMMA TypeStep ==
    ASSUME TypeInv, [Next]_vars
    PROVE  TypeInv'
<1>1. ASSUME NEW m \in Messages, Send(m)
      PROVE  TypeInv'
  <2> DEFINE s == [msg |-> [id |-> m, delivery_count |-> 0], dest |-> Target,
                   key |-> KeyOf(m), block |-> m \in Blocking,
                   origin |-> "producer", to |-> NoListener]
  <2>1. KeyOf(m) \in Keys \cup {NoKey} /\ Target \in Destinations
    BY <1>1, OptionsAssumption DEF KeyOf
  <2>2. s \in SendOp
    BY <1>1, <2>1 DEF SendOp, Message
  <2>3. Pick(s) /\ sent' \subseteq Messages
    BY <1>1 DEF Send, TypeInv
  <2>4. QED  BY <2>2, <2>3, PickType
<1>2. ASSUME NEW s \in sends, Resend(s)
      PROVE  TypeInv'
  BY <1>2, PickType, Zenon DEF Resend, TypeInv
<1>3. ASSUME NEW s \in sends, Enqueue(s)
      PROVE  TypeInv'
  <2>1. s \in SendOp /\ s.to \in Listeners /\ s.msg \in Message
    BY <1>3 DEF Enqueue, TypeInv, SendOp
  <2>2. sends' \subseteq SendOp
    BY <1>3 DEF Enqueue, TypeInv
  <2>3. UNCHANGED <<listeners, round_robin, consumer, waiting, jobs, sent, starts, visited>>
    BY <1>3 DEF Enqueue
  <2>4. CASE /\ HasRoom(s.to) /\ queue' = [queue EXCEPT ![s.to] = Append(@, s.msg)]
             /\ UNCHANGED fate
    <3>1. queue[s.to] \in Seq(Message) /\ Len(queue[s.to]) < Opts[s.to].buffer_size
      BY <2>1, <2>4 DEF TypeInv, HasRoom
    <3>2. Append(queue[s.to], s.msg) \in Seq(Message)
          /\ Len(Append(queue[s.to], s.msg)) = Len(queue[s.to]) + 1
      BY <2>1, <3>1
    <3>3. Len(queue[s.to]) + 1 <= Opts[s.to].buffer_size
      BY <2>1, <3>1, OptionsAssumption
    <3>4. QED  BY <2>1, <2>2, <2>3, <2>4, <3>2, <3>3 DEF TypeInv
  <2>5. CASE fate' = Fail(s) /\ UNCHANGED queue
    <3>1. fate' \in [Messages -> SUBSET Fate]
      BY <2>5, EndsType DEF Fail, Fate
    <3>2. QED  BY <2>2, <2>3, <2>5, <3>1, Zenon DEF TypeInv
  <2>6. QED  BY <1>3, <2>4, <2>5 DEF Enqueue
<1>4. ASSUME NEW l \in Listeners, NEW m \in Message, Started(l, m)
      PROVE  jobs' \in [Listeners -> SUBSET Message] /\ starts' \in [Messages -> Nat]
  BY <1>4 DEF Started, TypeInv, Message
<1>5. ASSUME NEW l \in Listeners, Receive(l)
      PROVE  TypeInv'
  <2>1. /\ Head(queue[l]) \in Message /\ Tail(queue[l]) \in Seq(Message)
        /\ Len(Tail(queue[l])) = Len(queue[l]) - 1 /\ Len(queue[l]) \in Nat
    BY <1>5 DEF Receive, TypeInv
  <2>2. queue' = [queue EXCEPT ![l] = Tail(@)]
        /\ UNCHANGED <<listeners, round_robin, consumer, sends, sent, fate, visited>>
    BY <1>5 DEF Receive
  <2>3. /\ queue' \in [Listeners -> Seq(Message)]
        /\ \A k \in Listeners : Len(queue'[k]) <= Opts[k].buffer_size
    BY <2>1, <2>2, OptionsAssumption DEF TypeInv
  <2>4. CASE Started(l, Head(queue[l])) /\ UNCHANGED waiting
    BY <1>4, <2>1, <2>2, <2>3, <2>4, Zenon DEF TypeInv
  <2>5. CASE waiting' = [waiting EXCEPT ![l] = {Head(queue[l])}] /\ UNCHANGED <<jobs, starts>>
    BY <2>1, <2>2, <2>3, <2>5, Zenon DEF TypeInv
  <2>6. QED  BY <1>5, <2>4, <2>5 DEF Receive
<1>6. ASSUME NEW l \in Listeners, Start(l)
      PROVE  TypeInv'
  <2>1. PICK m \in Message : Started(l, m)
    BY <1>6 DEF Start, TypeInv
  <2>2. QED  BY <1>4, <1>6, <2>1, Zenon DEF Start, TypeInv
<1>7. ASSUME NEW l \in Listeners, NEW j \in jobs[l], NEW ack \in {"Ok", "Reject"}, Finish(l, j, ack)
      PROVE  TypeInv'
  <2>1. fate' \in [Messages -> SUBSET Fate]
    BY <1>7, EndsType DEF Finish, Fate
  <2>2. QED  BY <1>7, <2>1, Zenon DEF Finish, TypeInv
<1>8. ASSUME NEW l \in Listeners, NEW j \in jobs[l], Retry(l, j)
      PROVE  TypeInv'
  <2> DEFINE m == [j EXCEPT !.delivery_count = @ + 1]
  <2>1. j \in Message /\ m \in Message
    BY <1>8, Bump DEF TypeInv
  <2>2. ASSUME NEW d \in Destinations, NEW b \in BOOLEAN
        PROVE  GuaranteedSend(m, d, b) \in SendOp
    <3>1. MessageKey[m.id] \in Keys \cup {NoKey}
      BY <2>1, OptionsAssumption DEF Message
    <3> HIDE DEF m
    <3>2. QED  BY <2>1, <3>1 DEF GuaranteedSend, SendOp
  <2>3. Dest[l] \in Destinations
        /\ (Opts[l].dead_letter # NoDeadLetter => Opts[l].dead_letter \in Destinations)
    BY <1>8, OptionsAssumption
  <2>4. sends' \subseteq SendOp /\ fate' \in [Messages -> SUBSET Fate]
    <3>1. Ends({j.id}, "dropped") \in [Messages -> SUBSET Fate]
      BY EndsType DEF Fate
    <3> HIDE DEF m
    <3>2. QED  BY <1>8, <2>2, <2>3, <3>1, Zenon DEF Retry, TypeInv, m
  <2>5. QED  BY <1>8, <2>4, Zenon DEF Retry, TypeInv
<1>9. ASSUME NEW l \in Listeners, NEW j \in jobs[l], Panic(l, j)
      PROVE  TypeInv'
  <2>1. fate' \in [Messages -> SUBSET Fate]
    BY <1>9, EndsType DEF Panic, Fate
  <2>2. Len(<<>>) <= Opts[l].buffer_size /\ <<>> \in Seq(Message)
    BY <1>9, OptionsAssumption
  <2>3. queue' \in [Listeners -> Seq(Message)]
        /\ \A k \in Listeners : Len(queue'[k]) <= Opts[k].buffer_size
    <3>1. CASE queue' = [queue EXCEPT ![l] = <<>>]
      BY <1>9, <2>2, <3>1 DEF TypeInv
    <3>2. CASE UNCHANGED queue
      BY <3>2 DEF TypeInv
    <3>3. QED  BY <1>9, <3>1, <3>2 DEF Panic
  <2>4. QED  BY <1>9, <2>1, <2>3, Zenon DEF Panic, TypeInv
<1>10. ASSUME NEW l \in Listeners, AddListener(l)
       PROVE  TypeInv'
  <2>1. Append(listeners[Dest[l]], l) \in Seq(Listeners) /\ Dest[l] \in Destinations
    BY <1>10, OptionsAssumption DEF TypeInv
  <2>2. QED  BY <1>10, <2>1, Zenon DEF AddListener, TypeInv
<1>11. ASSUME NEW l \in Listeners, EndLoop(l)
       PROVE  TypeInv'
  BY <1>11, Zenon DEF EndLoop, TypeInv
<1>12. ASSUME Stop
       PROVE  TypeInv'
  <2>1. 0 \in 0 .. RoundRobinWrap - 1 /\ <<>> \in Seq(Listeners)
    BY OptionsAssumption
  <2>2. listeners' \in [Destinations -> Seq(Listeners)]
        /\ round_robin' \in [Destinations -> 0 .. RoundRobinWrap - 1]
        /\ visited' \in [Keys -> SUBSET Listeners]
    BY <1>12, <2>1 DEF Stop
  <2>3. QED  BY <1>12, <2>2, Zenon DEF Stop, TypeInv
<1>13. CASE UNCHANGED vars
  BY <1>13, Zenon DEF TypeInv, vars
<1>14. QED
  BY <1>1, <1>2, <1>3, <1>5, <1>6, <1>7, <1>8, <1>9, <1>10, <1>11, <1>12, <1>13
  DEF Next, Internal

-----------------------------------------------------------------------------
(* Copies of a message: one, or none and an end.                           *)

\* The copies of all messages, each with the place it is in.
HeldIn(se, qu, wa, jo) ==
    {<<"send", s, s.msg>> : s \in se}
    \cup UNION {{<<"queue", l, x>> : x \in Range(qu[l])}
                \cup {<<"loop", l, x>> : x \in wa[l]}
                \cup {<<"job", l, x>> : x \in jo[l]} : l \in Listeners}

Held == HeldIn(sends, queue, waiting, jobs)

\* A message has one copy as long as nobody was told its end, and one end.
OneCopy ==
    /\ \A g, h \in Held : g[3].id = h[3].id => g = h
    /\ \A h \in Held : h[3].id \in sent /\ fate[h[3].id] = {}
    /\ \A m \in sent : fate[m] = {} => \E h \in Held : h[3].id = m
    /\ \A m \in Messages :
          /\ m \notin sent => fate[m] = {}
          /\ fate[m] = {} \/ \E f \in Fate : fate[m] = {f}

\* No channel holds a message twice.
NoRepeats ==
    \A l \in Listeners : \A i, k \in DOMAIN queue[l] :
        queue[l][i].id = queue[l][k].id => i = k

\* The four kinds of place.
InSends(se, h) == \E s \in se : h = <<"send", s, s.msg>>
InQueues(qu, h) == \E l \in Listeners : \E i \in DOMAIN qu[l] : h = <<"queue", l, qu[l][i]>>
InLoops(wa, h) == \E l \in Listeners : \E x \in wa[l] : h = <<"loop", l, x>>
InJobs(jo, h) == \E l \in Listeners : \E x \in jo[l] : h = <<"job", l, x>>

\* A copy is in one of four kinds of place.
LEMMA HeldIs ==
    ASSUME NEW se, NEW qu, NEW wa, NEW jo, NEW h
    PROVE  h \in HeldIn(se, qu, wa, jo) <=>
             InSends(se, h) \/ InQueues(qu, h) \/ InLoops(wa, h) \/ InJobs(jo, h)
BY DEF HeldIn, Range, InSends, InQueues, InLoops, InJobs

\* A copy tells the kind of place it is in.
LEMMA Kinds ==
    ASSUME NEW c, NEW h
    PROVE  /\ InSends(c, h) => h[1] = "send"
           /\ InQueues(c, h) => h[1] = "queue"
           /\ InLoops(c, h) => h[1] = "loop"
           /\ InJobs(c, h) => h[1] = "job"
BY DEF InSends, InQueues, InLoops, InJobs

\* A consumer loop takes a message, or passes it on.
LEMMA LoopChanges ==
    ASSUME NEW l \in Listeners, NEW x, \A k \in Listeners \ {l} : waiting'[k] = waiting[k]
    PROVE  /\ waiting[l] = {} /\ waiting'[l] = {x} =>
                \A h : InLoops(waiting', h) <=> InLoops(waiting, h) \/ h = <<"loop", l, x>>
           /\ waiting[l] = {x} /\ waiting'[l] = {} =>
                \A h : InLoops(waiting', h) <=> InLoops(waiting, h) /\ h # <<"loop", l, x>>
BY DEF InLoops

\* A handler begins or ends.
LEMMA JobChanges ==
    ASSUME NEW l \in Listeners, NEW x, \A k \in Listeners \ {l} : jobs'[k] = jobs[k]
    PROVE  /\ jobs'[l] = jobs[l] \cup {x} =>
                \A h : InJobs(jobs', h) <=> InJobs(jobs, h) \/ h = <<"job", l, x>>
           /\ jobs'[l] = jobs[l] \ {x} =>
                \A h : InJobs(jobs', h) <=> InJobs(jobs, h) /\ h # <<"job", l, x>>
BY DEF InJobs

\* A send begins or ends.
LEMMA SendChanges ==
    ASSUME NEW a, NEW s, NEW t, NEW h
    PROVE  /\ InSends(a \ {s}, h) <=> InSends(a, h) /\ h # <<"send", s, s.msg>>
           /\ InSends(a \cup {t}, h) <=> InSends(a, h) \/ h = <<"send", t, t.msg>>
BY DEF InSends

\* A channel gets a message, gives its first one, or is dropped.
LEMMA QueueChanges ==
    ASSUME queue \in [Listeners -> Seq(Message)], NEW l \in Listeners,
           \A k \in Listeners \ {l} : queue'[k] = queue[k]
    PROVE  /\ \A x \in Message : queue'[l] = Append(queue[l], x) =>
                 \A h : InQueues(queue', h) <=> InQueues(queue, h) \/ h = <<"queue", l, x>>
           /\ /\ queue[l] # <<>> /\ queue'[l] = Tail(queue[l])
              /\ \A i, k \in DOMAIN queue[l] : queue[l][i].id = queue[l][k].id => i = k
              => \A h : InQueues(queue', h) <=> InQueues(queue, h) /\ h # <<"queue", l, Head(queue[l])>>
           /\ queue'[l] = <<>> =>
                 \A h : InQueues(queue', h)
                    <=> InQueues(queue, h) /\ ~ \E x \in Range(queue[l]) : h = <<"queue", l, x>>
<1> DEFINE At(q, h) == \E i \in DOMAIN q : h = <<"queue", l, q[i]>>
           Else(h) == \E k \in Listeners \ {l} : \E i \in DOMAIN queue[k] : h = <<"queue", k, queue[k][i]>>
           n == Len(queue[l])
<1>1. \A h : InQueues(queue, h) <=> At(queue[l], h) \/ Else(h)
  BY DEF InQueues
<1>2. \A h : InQueues(queue', h) <=> At(queue'[l], h) \/ Else(h)
  BY Zenon DEF InQueues
<1>3. \A h : Else(h) => \A x : h # <<"queue", l, x>>
  OBVIOUS
<1>4. queue[l] \in Seq(Message) /\ n \in Nat /\ DOMAIN queue[l] = 1 .. n
  OBVIOUS
<1> HIDE DEF Else
<1>5. ASSUME NEW x \in Message, queue'[l] = Append(queue[l], x)
      PROVE  \A h : InQueues(queue', h) <=> InQueues(queue, h) \/ h = <<"queue", l, x>>
  <2>1. /\ DOMAIN queue'[l] = 1 .. n + 1 /\ queue'[l][n + 1] = x
        /\ \A i \in 1 .. n : queue'[l][i] = queue[l][i]
    BY <1>4, <1>5
  <2> HIDE DEF n
  <2>a. 1 .. n + 1 = (1 .. n) \cup {n + 1}
    BY <1>4
  <2>2. \A h : At(queue'[l], h) <=> At(queue[l], h) \/ h = <<"queue", l, x>>
    BY <1>4, <2>1, <2>a, Zenon
  <2> HIDE DEF At
  <2>3. QED  BY <1>1, <1>2, <2>2
<1>6. ASSUME queue[l] # <<>>, queue'[l] = Tail(queue[l]),
             \A i, k \in DOMAIN queue[l] : queue[l][i].id = queue[l][k].id => i = k
      PROVE  \A h : InQueues(queue', h) <=> InQueues(queue, h) /\ h # <<"queue", l, Head(queue[l])>>
  <2>1. /\ n \in Nat \ {0} /\ Head(queue[l]) = queue[l][1] /\ DOMAIN queue'[l] = 1 .. n - 1
        /\ \A i \in 1 .. n - 1 : queue'[l][i] = queue[l][i + 1]
    BY <1>4, <1>6
  <2> HIDE DEF n
  <2>2. ASSUME NEW i \in 1 .. n - 1
        PROVE  i + 1 \in DOMAIN queue[l] /\ queue[l][i + 1] # queue[l][1]
    BY <1>4, <1>6, <2>1, SMTT(30), Zenon
  <2>3. ASSUME NEW i \in 1 .. n, queue[l][i] # queue[l][1]
        PROVE  i - 1 \in 1 .. n - 1 /\ queue'[l][i - 1] = queue[l][i]
    <3>1. i # 1 /\ i - 1 \in 1 .. n - 1 /\ (i - 1) + 1 = i
      BY <2>1, <2>3
    <3>2. QED  BY <2>1, <3>1
  <2>4. \A h : At(queue'[l], h) => At(queue[l], h) /\ h # <<"queue", l, Head(queue[l])>>
    BY <2>1, <2>2
  <2>5. \A h : At(queue[l], h) /\ h # <<"queue", l, Head(queue[l])>> => At(queue'[l], h)
    BY <1>4, <2>1, <2>3
  <2> HIDE DEF At
  <2>6. QED  BY <1>1, <1>2, <1>3, <2>4, <2>5
<1>7. ASSUME queue'[l] = <<>>
      PROVE  \A h : InQueues(queue', h)
                <=> InQueues(queue, h) /\ ~ \E x \in Range(queue[l]) : h = <<"queue", l, x>>
  <2>1. \A h : ~At(queue'[l], h) /\ (At(queue[l], h) <=> \E x \in Range(queue[l]) : h = <<"queue", l, x>>)
    BY <1>7 DEF Range
  <2> HIDE DEF At
  <2>2. QED  BY <1>1, <1>2, <1>3, <2>1
<1>8. QED  BY <1>5, <1>6, <1>7, Zenon

\* A copy that moves, with its message, to another place.
LEMMA CopyMoves ==
    ASSUME TypeInv, OneCopy, NEW g \in Held, NEW h, h[3].id = g[3].id,
           Held' = (Held \ {g}) \cup {h}, UNCHANGED <<sent, fate>>
    PROVE  OneCopy'
<1>1. \A a, b \in Held' : a[3].id = b[3].id => a = b
  BY DEF OneCopy
<1>2. \A a \in Held' : a[3].id \in sent' /\ fate'[a[3].id] = {}
  <2>1. h[3].id \in sent /\ fate[h[3].id] = {}
    BY DEF OneCopy
  <2>2. QED  BY <2>1 DEF OneCopy
<1>3. \A m \in sent' : fate'[m] = {} => \E a \in Held' : a[3].id = m
  BY DEF OneCopy
<1>4. QED  BY <1>1, <1>2, <1>3 DEF OneCopy

\* Copies that end, each with the same report.
LEMMA CopiesEnd ==
    ASSUME TypeInv, OneCopy, NEW G \in SUBSET Held, NEW how \in Fate,
           Held' = Held \ G, fate' = Ends({g[3].id : g \in G}, how), UNCHANGED sent
    PROVE  OneCopy'
<1> DEFINE ids == {g[3].id : g \in G}
<1>1. /\ \A m \in Messages : m \in ids => fate[m] = {} /\ fate'[m] = {how}
      /\ \A m \in Messages : m \notin ids => fate'[m] = fate[m]
  BY DEF OneCopy, Ends
<1>2. \A m \in sent' : m \in Messages
  BY DEF TypeInv
<1>3. ids \subseteq sent
  BY DEF OneCopy
<1>4. \A a, b \in Held' : a[3].id = b[3].id => a = b
  BY DEF OneCopy
<1>5. \A a \in Held' : a[3].id \notin ids
  BY DEF OneCopy
<1> HIDE DEF ids
<1>6. \A a \in Held' : a[3].id \in sent' /\ fate'[a[3].id] = {}
  BY <1>1, <1>2, <1>5 DEF OneCopy
<1>7. \A m \in sent' : fate'[m] = {} => \E a \in Held' : a[3].id = m
  <2> SUFFICES ASSUME NEW m \in sent', fate'[m] = {}
               PROVE  \E a \in Held' : a[3].id = m
    OBVIOUS
  <2>1. m \notin ids /\ fate[m] = {}
    BY <1>1, <1>2, Zenon
  <2>2. PICK a \in Held : a[3].id = m
    BY <2>1 DEF OneCopy
  <2>3. a \notin G
    BY <2>1, <2>2 DEF ids
  <2>4. QED  BY <2>2, <2>3
<1>8. \A m \in Messages : /\ m \notin sent' => fate'[m] = {}
                          /\ fate'[m] = {} \/ \E f \in Fate : fate'[m] = {f}
  <2> SUFFICES ASSUME NEW m \in Messages
               PROVE  /\ m \notin sent' => fate'[m] = {}
                      /\ fate'[m] = {} \/ \E f \in Fate : fate'[m] = {f}
    BY Zenon
  <2>1. CASE m \in ids
    BY <1>1, <1>3, <2>1
  <2>2. CASE m \notin ids
    BY <1>1, <2>2, SMTT(30), Zenon DEF OneCopy
  <2>3. QED  BY <2>1, <2>2, Zenon
<1>9. QED  BY <1>4, <1>6, <1>7, <1>8, Zenon DEF OneCopy

\* A message that is sent for the first time.
LEMMA CopyAppears ==
    ASSUME TypeInv, OneCopy, NEW m \in Messages, m \notin sent, sent' = sent \cup {m},
           \/ fate' = fate /\ \E h : h[3].id = m /\ Held' = Held \cup {h}
           \/ Held' = Held /\ \E how \in Fate : fate' = Ends({m}, how)
    PROVE  OneCopy'
<1>1. CASE fate' = fate /\ \E h : h[3].id = m /\ Held' = Held \cup {h}
  <2>1. PICK h : h[3].id = m /\ Held' = Held \cup {h}
    BY <1>1
  <2>2. \A a \in Held : a[3].id # m
    BY DEF OneCopy
  <2>3. \A a, b \in Held' : a[3].id = b[3].id => a = b
    BY <2>1, <2>2 DEF OneCopy
  <2>4. \A a \in Held' : a[3].id \in sent' /\ fate'[a[3].id] = {}
    BY <1>1, <2>1 DEF OneCopy
  <2>5. \A n \in sent' : fate'[n] = {} => \E a \in Held' : a[3].id = n
    BY <1>1, <2>1 DEF OneCopy
  <2>6. QED  BY <1>1, <2>3, <2>4, <2>5 DEF OneCopy
<1>2. CASE Held' = Held /\ \E how \in Fate : fate' = Ends({m}, how)
  <2>1. PICK how \in Fate : fate' = Ends({m}, how)
    BY <1>2
  <2>2. fate'[m] = {how} /\ \A n \in Messages \ {m} : fate'[n] = fate[n]
    BY <2>1 DEF Ends, OneCopy
  <2>3. \A a \in Held : a[3].id \in Messages \ {m}
    BY DEF OneCopy, TypeInv
  <2>4. \A a \in Held' : a[3].id \in sent' /\ fate'[a[3].id] = {}
    BY <1>2, <2>2, <2>3, Zenon DEF OneCopy
  <2>5. \A n \in sent' : fate'[n] = {} => \E a \in Held' : a[3].id = n
    BY <1>2, <2>2, Zenon DEF OneCopy, TypeInv
  <2>6. \A n \in Messages : /\ n \notin sent' => fate'[n] = {}
                            /\ fate'[n] = {} \/ \E f \in Fate : fate'[n] = {f}
    BY <2>2 DEF OneCopy
  <2>7. QED  BY <1>2, <2>4, <2>5, <2>6, Zenon DEF OneCopy
<1>3. QED  BY <1>1, <1>2

\* What the sends add to the copies, when nothing else changes.
LEMMA HeldSwap ==
    ASSUME NEW s, UNCHANGED <<queue, waiting, jobs>>
    PROVE  /\ sends' = sends \ {s} => Held' = Held \ {<<"send", s, s.msg>>}
           /\ \A t : sends' = (sends \ {s}) \cup {t} =>
                Held' = (Held \ {<<"send", s, s.msg>>}) \cup {<<"send", t, t.msg>>}
<1> DEFINE Others(h) == InQueues(queue, h) \/ InLoops(waiting, h) \/ InJobs(jobs, h)
<1>1. \A h : h \in Held <=> InSends(sends, h) \/ Others(h)
  BY HeldIs DEF Held
<1>2. \A h : h \in Held' <=> InSends(sends', h) \/ Others(h)
  BY HeldIs DEF Held
<1>3. \A h, t : Others(h) => h # <<"send", t, t.msg>>
  BY Kinds
<1> HIDE DEF Others
<1>4. ASSUME sends' = sends \ {s}
      PROVE  Held' = Held \ {<<"send", s, s.msg>>}
  <2>1. \A h : InSends(sends', h) <=> InSends(sends, h) /\ h # <<"send", s, s.msg>>
    BY <1>4, SendChanges, Zenon
  <2>2. QED  BY <1>1, <1>2, <1>3, <2>1
<1>5. ASSUME NEW t, sends' = (sends \ {s}) \cup {t}
      PROVE  Held' = (Held \ {<<"send", s, s.msg>>}) \cup {<<"send", t, t.msg>>}
  <2>1. \A h : InSends(sends', h) <=> \/ InSends(sends, h) /\ h # <<"send", s, s.msg>>
                                      \/ h = <<"send", t, t.msg>>
    BY <1>5, SendChanges, Zenon
  <2>2. QED  BY <1>1, <1>2, <1>3, <2>1
<1>6. QED  BY <1>4, <1>5

\* Where copies are before and after a step.
LEMMA HeldKinds ==
    /\ \A h : h \in Held <=> \/ InSends(sends, h) \/ InQueues(queue, h)
                             \/ InLoops(waiting, h) \/ InJobs(jobs, h)
    /\ \A h : h \in Held' <=> \/ InSends(sends', h) \/ InQueues(queue', h)
                              \/ InLoops(waiting', h) \/ InJobs(jobs', h)
    /\ \A h : /\ InSends(sends, h) => h[1] = "send"
              /\ InQueues(queue, h) => h[1] = "queue"
              /\ InLoops(waiting, h) => h[1] = "loop"
              /\ InJobs(jobs, h) => h[1] = "job"
<1>1. \A h : h \in Held <=> \/ InSends(sends, h) \/ InQueues(queue, h)
                            \/ InLoops(waiting, h) \/ InJobs(jobs, h)
  BY HeldIs DEF Held
<1>2. \A h : h \in Held' <=> \/ InSends(sends', h) \/ InQueues(queue', h)
                             \/ InLoops(waiting', h) \/ InJobs(jobs', h)
  BY HeldIs, SMTT(30), Zenon DEF Held
<1>3. QED  BY <1>1, <1>2, Kinds

\* The send that a producer's call makes.
FirstSend(m) ==
    [msg |-> [id |-> m, delivery_count |-> 0], dest |-> Target,
     key |-> KeyOf(m), block |-> m \in Blocking,
     origin |-> "producer", to |-> NoListener]

\* send() of a producer is pick() for a message never delivered before.
LEMMA FirstSendIs ==
    ASSUME NEW m \in Messages
    PROVE  /\ FirstSend(m) \in SendOp /\ FirstSend(m).dest = Target
           /\ FirstSend(m).key = KeyOf(m) /\ FirstSend(m).origin = "producer"
           /\ FirstSend(m).msg.id = m /\ FirstSend(m).msg.delivery_count = 0
           /\ Send(m) => Pick(FirstSend(m)) /\ m \notin sent /\ sent' = sent \cup {m}
<1>1. KeyOf(m) \in Keys \cup {NoKey} /\ Target \in Destinations
  BY OptionsAssumption DEF KeyOf
<1>2. FirstSend(m) \in SendOp
  BY <1>1 DEF FirstSend, SendOp, Message
<1>3. QED  BY <1>2, Zenon DEF FirstSend, Send

\* The listener that pick() chooses for a send.
Chosen(s) == [s EXCEPT !.to = Live(s.dest)[Index(s.dest, s.key) + 1]]

\* The send goes on with the listener that pick() chose and changes in
\* nothing else.
LEMMA ChosenIs ==
    ASSUME TypeInv, NEW s \in SendOp, Live(s.dest) # <<>>
    PROVE  /\ Chosen(s) \in SendOp /\ Chosen(s).msg = s.msg /\ Chosen(s).dest = s.dest
           /\ Chosen(s).key = s.key /\ Chosen(s).origin = s.origin
           /\ Chosen(s).to = Live(s.dest)[Index(s.dest, s.key) + 1]
BY IndexInLive, Picked DEF Chosen

\* pick() for a send under way: the send fails, or goes on with a listener.
LEMMA PickHeld ==
    ASSUME TypeInv, NEW s \in SendOp, Pick(s)
    PROVE  LET g == <<"send", s, s.msg>>
           IN  \/ /\ Live(s.dest) = <<>> /\ sends' = sends \ {s} /\ fate' = Fail(s)
                  /\ Held' = Held \ {g}
               \/ /\ Live(s.dest) # <<>> /\ sends' = (sends \ {s}) \cup {Chosen(s)} /\ fate' = fate
                  /\ Held' = (Held \ {g}) \cup {<<"send", Chosen(s), s.msg>>}
<1>1. UNCHANGED <<queue, waiting, jobs>>
  BY DEF Pick
<1>2. CASE Live(s.dest) = <<>>
  BY <1>1, <1>2, HeldSwap DEF Pick
<1>3. CASE Live(s.dest) # <<>>
  <2>1. sends' = (sends \ {s}) \cup {Chosen(s)} /\ fate' = fate
    BY <1>3 DEF Pick, Chosen
  <2>2. QED  BY <1>1, <1>3, <2>1, HeldSwap, ChosenIs
<1>4. QED  BY <1>2, <1>3

\* A producer calls send(): an error at once, or one more send under way.
LEMMA SendHeld ==
    ASSUME TypeInv, OneCopy, NEW m \in Messages, Send(m)
    PROVE  LET s == FirstSend(m)
           IN  \/ Held' = Held /\ sends' = sends /\ fate' = Ends({m}, "refused")
               \/ /\ Live(s.dest) # <<>> /\ sends' = sends \cup {Chosen(s)} /\ fate' = fate
                  /\ Held' = Held \cup {<<"send", Chosen(s), s.msg>>}
<1> DEFINE s == FirstSend(m)
           g == <<"send", s, s.msg>>
<1>1. s \in SendOp /\ s.msg.id = m /\ s.origin = "producer" /\ Pick(s) /\ m \notin sent
  BY FirstSendIs
<1> HIDE DEF s
<1>2. g \notin Held
  BY <1>1 DEF OneCopy
<1>3. s \notin sends
  BY <1>2, HeldKinds DEF InSends
<1> HIDE DEF g
<1>4. \/ /\ Live(s.dest) = <<>> /\ sends' = sends \ {s} /\ fate' = Fail(s) /\ Held' = Held \ {g}
      \/ /\ Live(s.dest) # <<>> /\ sends' = (sends \ {s}) \cup {Chosen(s)} /\ fate' = fate
         /\ Held' = (Held \ {g}) \cup {<<"send", Chosen(s), s.msg>>}
  BY <1>1, PickHeld DEF g
<1>5. Held \ {g} = Held /\ sends \ {s} = sends
  BY <1>2, <1>3
<1>6. Fail(s) = Ends({m}, "refused")
  BY <1>1, SMTT(30), Zenon DEF Fail
<1>7. QED  BY <1>4, <1>5, <1>6, Zenon DEF s

\* The message of a send is in the channel, or the send has failed.
LEMMA EnqueueHeld ==
    ASSUME TypeInv, NEW s \in sends, Enqueue(s)
    PROVE  LET g == <<"send", s, s.msg>>
           IN  /\ g \in Held /\ s \in SendOp /\ s.to \in Listeners /\ s.msg \in Message
               /\ \/ /\ Held' = (Held \ {g}) \cup {<<"queue", s.to, s.msg>>} /\ fate' = fate
                     /\ queue' = [queue EXCEPT ![s.to] = Append(@, s.msg)]
                  \/ Held' = Held \ {g} /\ fate' = Fail(s) /\ queue' = queue
<1> DEFINE l == s.to
           g == <<"send", s, s.msg>>
<1>1. s \in SendOp /\ l \in Listeners /\ s.msg \in Message
  BY DEF Enqueue, TypeInv, SendOp
<1>2. g \in Held
  BY HeldKinds DEF InSends
<1>3. sends' = sends \ {s} /\ UNCHANGED <<waiting, jobs>>
  BY DEF Enqueue
<1>4. CASE queue' = [queue EXCEPT ![l] = Append(@, s.msg)] /\ UNCHANGED fate
  <2>1. queue'[l] = Append(queue[l], s.msg) /\ \A k \in Listeners \ {l} : queue'[k] = queue[k]
    BY <1>1, <1>4 DEF TypeInv
  <2> HIDE DEF l, g
  <2>2. \A h : InSends(sends', h) <=> InSends(sends, h) /\ h # g
    BY <1>3, SendChanges DEF g
  <2>3. \A h : InQueues(queue', h) <=> InQueues(queue, h) \/ h = <<"queue", l, s.msg>>
    BY <1>1, <2>1, QueueChanges, Zenon DEF TypeInv
  <2>4. \A h : (InLoops(waiting', h) <=> InLoops(waiting, h)) /\ (InJobs(jobs', h) <=> InJobs(jobs, h))
    BY <1>3
  <2>5. Held' = (Held \ {g}) \cup {<<"queue", l, s.msg>>}
    BY HeldKinds, <2>2, <2>3, <2>4 DEF g
  <2>6. QED  BY <1>1, <1>2, <1>4, <2>5, SMTT(30), Zenon DEF l, g
<1>5. CASE fate' = Fail(s) /\ UNCHANGED queue
  <2>1. Held' = Held \ {g}
    BY <1>3, <1>5, HeldSwap, SMTT(30), Zenon
  <2>2. QED  BY <1>1, <1>2, <1>5, <2>1
<1>6. QED  BY <1>4, <1>5, SMTT(30), Zenon DEF Enqueue

\* A consumer takes the first message of its channel.
LEMMA ReceiveHeld ==
    ASSUME TypeInv, NoRepeats, NEW l \in Listeners, Receive(l)
    PROVE  LET x == Head(queue[l])
               g == <<"queue", l, x>>
           IN  /\ g \in Held /\ x \in Message
               /\ queue' = [queue EXCEPT ![l] = Tail(@)] /\ queue[l] # <<>> /\ waiting[l] = {}
               /\ \/ /\ Held' = (Held \ {g}) \cup {<<"job", l, x>>}
                     /\ Started(l, x) /\ jobs[l] = {} /\ waiting' = waiting
                  \/ /\ Held' = (Held \ {g}) \cup {<<"loop", l, x>>}
                     /\ waiting' = [waiting EXCEPT ![l] = {x}] /\ UNCHANGED <<jobs, starts>>
<1> DEFINE x == Head(queue[l])
           g == <<"queue", l, x>>
<1>1. /\ queue[l] \in Seq(Message) /\ queue[l] # <<>> /\ queue' = [queue EXCEPT ![l] = Tail(@)]
      /\ waiting[l] = {} /\ UNCHANGED sends
  BY DEF Receive, AtRecv, TypeInv
<1>2. /\ x \in Message /\ x = queue[l][1] /\ 1 \in DOMAIN queue[l] /\ queue'[l] = Tail(queue[l])
      /\ \A k \in Listeners \ {l} : queue'[k] = queue[k]
  BY <1>1 DEF TypeInv
<1> HIDE DEF x
<1>3. g \in Held
  BY <1>2, HeldKinds DEF InQueues
<1>4. \A h : InQueues(queue', h) <=> InQueues(queue, h) /\ h # g
  BY <1>1, <1>2, QueueChanges, Zenon DEF TypeInv, NoRepeats, x
<1>5. CASE Started(l, x) /\ jobs[l] = {} /\ UNCHANGED waiting
  <2>1. jobs'[l] = jobs[l] \cup {x} /\ \A k \in Listeners \ {l} : jobs'[k] = jobs[k]
    BY <1>5 DEF Started, TypeInv
  <2>2. \A h : InJobs(jobs', h) <=> InJobs(jobs, h) \/ h = <<"job", l, x>>
    BY <2>1, JobChanges
  <2>3. \A h : (InLoops(waiting', h) <=> InLoops(waiting, h)) /\ (InSends(sends', h) <=> InSends(sends, h))
    BY <1>1, <1>5
  <2>4. Held' = (Held \ {g}) \cup {<<"job", l, x>>}
    BY HeldKinds, <1>4, <2>2, <2>3
  <2>5. QED  BY <1>1, <1>2, <1>3, <1>5, <2>4, SMTT(30), Zenon DEF x
<1>6. CASE waiting' = [waiting EXCEPT ![l] = {x}] /\ UNCHANGED <<jobs, starts>>
  <2>1. waiting'[l] = {x} /\ \A k \in Listeners \ {l} : waiting'[k] = waiting[k]
    BY <1>6 DEF TypeInv
  <2>2. \A h : InLoops(waiting', h) <=> InLoops(waiting, h) \/ h = <<"loop", l, x>>
    BY <1>1, <2>1, LoopChanges, Zenon
  <2>3. \A h : (InJobs(jobs', h) <=> InJobs(jobs, h)) /\ (InSends(sends', h) <=> InSends(sends, h))
    BY <1>1, <1>6
  <2>4. Held' = (Held \ {g}) \cup {<<"loop", l, x>>}
    BY HeldKinds, <1>4, <2>2, <2>3
  <2>5. QED  BY <1>1, <1>2, <1>3, <1>6, <2>4, SMTT(30), Zenon DEF x
<1>7. QED  BY <1>5, <1>6, SMTT(30), Zenon DEF Receive, AtRecv, x

\* A consumer that got a permit hands its message to a handler.
LEMMA StartHeld ==
    ASSUME TypeInv, NEW l \in Listeners, Start(l)
    PROVE  \E x \in Message :
              /\ waiting[l] = {x} /\ waiting' = [waiting EXCEPT ![l] = {}] /\ Started(l, x)
              /\ <<"loop", l, x>> \in Held
              /\ Held' = (Held \ {<<"loop", l, x>>}) \cup {<<"job", l, x>>}
<1>1. PICK x \in waiting[l] : Started(l, x)
  BY DEF Start
<1>2. waiting[l] = {x} /\ x \in Message /\ waiting' = [waiting EXCEPT ![l] = {}]
  BY <1>1, Zenon DEF TypeInv, Start
<1>3. /\ waiting'[l] = {} /\ jobs'[l] = jobs[l] \cup {x} /\ UNCHANGED <<queue, sends>>
      /\ \A k \in Listeners \ {l} : waiting'[k] = waiting[k] /\ jobs'[k] = jobs[k]
  BY <1>1 DEF Start, Started, TypeInv
<1> DEFINE g == <<"loop", l, x>>
<1>4. g \in Held
  BY <1>1, HeldKinds DEF InLoops
<1>5. \A h : InLoops(waiting', h) <=> InLoops(waiting, h) /\ h # g
  BY <1>2, <1>3, LoopChanges, Zenon
<1>6. \A h : InJobs(jobs', h) <=> InJobs(jobs, h) \/ h = <<"job", l, x>>
  BY <1>3, JobChanges
<1>7. \A h : (InQueues(queue', h) <=> InQueues(queue, h)) /\ (InSends(sends', h) <=> InSends(sends, h))
  BY <1>3
<1>8. Held' = (Held \ {g}) \cup {<<"job", l, x>>}
  BY HeldKinds, <1>5, <1>6, <1>7
<1>9. QED  BY <1>1, <1>2, <1>4, <1>8

\* A handler is done with its message.
LEMMA JobGone ==
    ASSUME TypeInv, NEW l \in Listeners, NEW j \in jobs[l], jobs' = [jobs EXCEPT ![l] = @ \ {j}]
    PROVE  /\ <<"job", l, j>> \in Held
           /\ \A h : InJobs(jobs', h) <=> InJobs(jobs, h) /\ h # <<"job", l, j>>
<1>1. <<"job", l, j>> \in Held
  BY HeldKinds DEF InJobs
<1>2. jobs'[l] = jobs[l] \ {j} /\ \A k \in Listeners \ {l} : jobs'[k] = jobs[k]
  BY DEF TypeInv
<1>3. QED  BY <1>1, <1>2, JobChanges, Zenon

\* A handler ends and nothing else moves.
LEMMA JobEndsHeld ==
    ASSUME TypeInv, NEW l \in Listeners, NEW j \in jobs[l], jobs' = [jobs EXCEPT ![l] = @ \ {j}],
           UNCHANGED <<queue, waiting, sends>>
    PROVE  <<"job", l, j>> \in Held /\ Held' = Held \ {<<"job", l, j>>}
<1>1. \A h : /\ InSends(sends', h) <=> InSends(sends, h)
             /\ InQueues(queue', h) <=> InQueues(queue, h)
             /\ InLoops(waiting', h) <=> InLoops(waiting, h)
  OBVIOUS
<1>2. <<"job", l, j>> \in Held /\ \A h : InJobs(jobs', h) <=> InJobs(jobs, h) /\ h # <<"job", l, j>>
  BY JobGone, Zenon
<1>3. QED  BY HeldKinds, <1>1, <1>2, Zenon

\* The message of a retried handler.
Again(j) == [j EXCEPT !.delivery_count = @ + 1]

\* A handler that asks for a retry: the message is on its way to its own
\* destination or to the dead letters, or it is dropped.
LEMMA RetryHeld ==
    ASSUME TypeInv, NEW l \in Listeners, NEW j \in jobs[l], Retry(l, j)
    PROVE  /\ <<"job", l, j>> \in Held
           /\ \/ \E t \in SendOp :
                    /\ \/ t = GuaranteedSend(Again(j), Dest[l], FALSE) /\ WillRequeue(l, Again(j))
                       \/ t = GuaranteedSend(Again(j), Opts[l].dead_letter, TRUE)
                    /\ sends' = sends \cup {t} /\ fate' = fate
                    /\ Held' = (Held \ {<<"job", l, j>>}) \cup {<<"send", t, Again(j)>>}
              \/ /\ sends' = sends /\ fate' = Ends({j.id}, "dropped")
                 /\ Held' = Held \ {<<"job", l, j>>}
<1> DEFINE m == Again(j)
           g == <<"job", l, j>>
<1>1. jobs' = [jobs EXCEPT ![l] = @ \ {j}] /\ UNCHANGED <<queue, waiting>>
  BY DEF Retry
<1>2. g \in Held /\ \A h : InJobs(jobs', h) <=> InJobs(jobs, h) /\ h # g
  BY <1>1, JobGone, Zenon
<1>3. m \in Message
  BY Bump DEF TypeInv, Again
<1> HIDE DEF m
<1>4. ASSUME NEW d \in Destinations, NEW b \in BOOLEAN, sends' = sends \cup {GuaranteedSend(m, d, b)}
      PROVE  /\ GuaranteedSend(m, d, b) \in SendOp
             /\ Held' = (Held \ {g}) \cup {<<"send", GuaranteedSend(m, d, b), m>>}
  <2> DEFINE t == GuaranteedSend(m, d, b)
  <2>1. MessageKey[m.id] \in Keys \cup {NoKey}
    BY <1>3, OptionsAssumption, Zenon DEF Message
  <2>2. t \in SendOp
    BY <1>3, <2>1 DEF GuaranteedSend, SendOp
  <2>3. t.msg = m
    BY DEF GuaranteedSend
  <2> HIDE DEF t
  <2>4. \A h : InSends(sends', h) <=> InSends(sends, h) \/ h = <<"send", t, m>>
    BY <1>4, <2>3, SendChanges, Zenon DEF t
  <2>5. \A h : (InQueues(queue', h) <=> InQueues(queue, h)) /\ (InLoops(waiting', h) <=> InLoops(waiting, h))
    BY <1>1
  <2>6. Held' = (Held \ {g}) \cup {<<"send", t, m>>}
    BY HeldKinds, <1>2, <2>4, <2>5, SMTT(30), Zenon
  <2>7. QED  BY <2>2, <2>6 DEF t
<1>5. Dest[l] \in Destinations
      /\ (Opts[l].dead_letter # NoDeadLetter => Opts[l].dead_letter \in Destinations)
  BY OptionsAssumption
<1>6. CASE sends' = sends /\ fate' = Ends({j.id}, "dropped")
  BY <1>1, <1>6, JobEndsHeld, Zenon
<1>7. CASE WillRequeue(l, m) /\ sends' = sends \cup {GuaranteedSend(m, Dest[l], FALSE)} /\ fate' = fate
  BY <1>2, <1>4, <1>5, <1>7, Zenon DEF m
<1>8. CASE /\ Opts[l].dead_letter # NoDeadLetter
           /\ sends' = sends \cup {GuaranteedSend(m, Opts[l].dead_letter, TRUE)} /\ fate' = fate
  BY <1>2, <1>4, <1>5, <1>8, Zenon DEF m
<1>9. QED  BY <1>6, <1>7, <1>8, Zenon DEF Retry, m, Again

\* A handler that panics takes its message along, and a serial consumer
\* everything its channel holds.
LEMMA PanicHeld ==
    ASSUME TypeInv, NEW l \in Listeners, NEW j \in jobs[l], Panic(l, j)
    PROVE  \E G \in SUBSET Held : Held' = Held \ G /\ fate' = Ends({g[3].id : g \in G}, "lost")
<1>1. jobs' = [jobs EXCEPT ![l] = @ \ {j}] /\ UNCHANGED <<waiting, sends>>
  BY DEF Panic
<1>2. CASE UNCHANGED queue /\ fate' = Ends({j.id}, "lost")
  <2> DEFINE G == {<<"job", l, j>>}
  <2>1. {j.id} = {g[3].id : g \in G}
    OBVIOUS
  <2>2. G \in SUBSET Held /\ Held' = Held \ G
    BY <1>1, <1>2, JobEndsHeld, Zenon
  <2>3. QED  BY <1>2, <2>1, <2>2, Zenon
<1>3. CASE /\ queue' = [queue EXCEPT ![l] = <<>>]
           /\ fate' = Ends({j.id} \cup {m.id : m \in Range(queue[l])}, "lost")
  <2> DEFINE G == {<<"job", l, j>>} \cup {<<"queue", l, x>> : x \in Range(queue[l])}
  <2>1. queue'[l] = <<>> /\ \A k \in Listeners \ {l} : queue'[k] = queue[k]
    BY <1>3 DEF TypeInv
  <2>2. {j.id} \cup {m.id : m \in Range(queue[l])} = {g[3].id : g \in G}
    <3>1. \A g \in G : g[3].id \in {j.id} \cup {m.id : m \in Range(queue[l])}
      OBVIOUS
    <3>2. <<"job", l, j>> \in G /\ \A m \in Range(queue[l]) : <<"queue", l, m>> \in G
      OBVIOUS
    <3> HIDE DEF G
    <3>3. <<"job", l, j>>[3].id \in {g[3].id : g \in G}
      BY <3>2
    <3>4. \A m \in Range(queue[l]) : <<"queue", l, m>>[3].id \in {g[3].id : g \in G}
      BY <3>2, Zenon
    <3>5. QED  BY <3>1, <3>3, <3>4
  <2>3. \A h : InJobs(jobs', h) <=> InJobs(jobs, h) /\ h # <<"job", l, j>>
    BY <1>1, JobGone, Zenon
  <2>4. \A h : InQueues(queue', h)
            <=> InQueues(queue, h) /\ ~ \E x \in Range(queue[l]) : h = <<"queue", l, x>>
    BY <2>1, QueueChanges, Zenon DEF TypeInv
  <2>5. \A h : (InSends(sends', h) <=> InSends(sends, h)) /\ (InLoops(waiting', h) <=> InLoops(waiting, h))
    BY <1>1
  <2>6. Held' = Held \ G
    BY HeldKinds, <2>3, <2>4, <2>5
  <2>7. G \in SUBSET Held
    <3>1. <<"job", l, j>> \in Held
      BY <1>1, JobGone, Zenon
    <3>2. ASSUME NEW x \in Range(queue[l])
          PROVE  <<"queue", l, x>> \in Held
      <4>1. PICK i \in DOMAIN queue[l] : x = queue[l][i]
        BY Zenon DEF Range
      <4>2. InQueues(queue, <<"queue", l, x>>)
        BY <4>1, Zenon DEF InQueues
      <4>3. QED  BY <4>2, HeldKinds, Zenon
    <3>3. QED  BY <3>1, <3>2
  <2> HIDE DEF G
  <2>8. QED  BY <1>3, <2>2, <2>6, <2>7, Zenon
<1>4. QED  BY <1>2, <1>3, Zenon DEF Panic

\* No step copies a message, loses one, or reports an end twice.
LEMMA CopiesStep ==
    ASSUME TypeInv, OneCopy, NoRepeats, [Next]_vars
    PROVE  OneCopy' /\ NoRepeats'
<1>1. ASSUME NEW m \in Messages, Send(m)
      PROVE  OneCopy' /\ NoRepeats'
  <2>1. m \notin sent /\ sent' = sent \cup {m} /\ UNCHANGED queue /\ FirstSend(m).msg.id = m
    BY <1>1, FirstSendIs, Zenon DEF Send, Pick
  <2>2. /\ NoRepeats'
        /\ "refused" \in Fate
    BY <2>1 DEF NoRepeats, Fate
  <2>3. CASE Held' = Held /\ fate' = Ends({m}, "refused")
    BY <2>1, <2>2, <2>3, CopyAppears
  <2>4. CASE fate' = fate /\ Held' = Held \cup {<<"send", Chosen(FirstSend(m)), FirstSend(m).msg>>}
    <3> DEFINE h == <<"send", Chosen(FirstSend(m)), FirstSend(m).msg>>
    <3>1. h[3].id = m /\ Held' = Held \cup {h}
      BY <2>1, <2>4
    <3> HIDE DEF h
    <3>2. QED  BY <2>1, <2>2, <2>4, <3>1, CopyAppears, Zenon
  <2>5. QED  BY <1>1, <2>3, <2>4, SendHeld
<1>2. ASSUME NEW s \in sends, Resend(s)
      PROVE  OneCopy' /\ NoRepeats'
  <2>1. s \in SendOp /\ Pick(s) /\ UNCHANGED <<sent, queue>>
    BY <1>2 DEF Resend, Pick, TypeInv
  <2> DEFINE g == <<"send", s, s.msg>>
  <2>2. g \in Held
    BY HeldKinds DEF InSends
  <2>3. CASE fate' = Fail(s) /\ Held' = Held \ {g}
    <3>1. {s.msg.id} = {a[3].id : a \in {g}}
      OBVIOUS
    <3>2. PICK how \in Fate : fate' = Ends({a[3].id : a \in {g}}, how)
      BY <2>3, <3>1 DEF Fail, Fate
    <3> HIDE DEF g
    <3>3. QED  BY <2>1, <2>2, <2>3, <3>2, CopiesEnd, Zenon DEF NoRepeats
  <2>4. CASE fate' = fate /\ Held' = (Held \ {g}) \cup {<<"send", Chosen(s), s.msg>>}
    <3> DEFINE h == <<"send", Chosen(s), s.msg>>
    <3>1. h[3].id = g[3].id
      OBVIOUS
    <3> HIDE DEF g, h
    <3>2. QED  BY <2>1, <2>2, <2>4, <3>1, CopyMoves, Zenon DEF NoRepeats, h
  <2>5. QED  BY <2>1, <2>3, <2>4, PickHeld
<1>3. ASSUME NEW s \in sends, Enqueue(s)
      PROVE  OneCopy' /\ NoRepeats'
  <2> DEFINE g == <<"send", s, s.msg>>
             l == s.to
             h == <<"queue", l, s.msg>>
  <2>1. g \in Held /\ s \in SendOp /\ l \in Listeners /\ s.msg \in Message /\ UNCHANGED sent
    BY <1>3, EnqueueHeld, Zenon DEF Enqueue
  <2>2. CASE /\ Held' = (Held \ {g}) \cup {h} /\ fate' = fate
             /\ queue' = [queue EXCEPT ![l] = Append(@, s.msg)]
    <3>1. OneCopy'
      <4>1. h[3].id = g[3].id
        OBVIOUS
      <4> HIDE DEF g, h
      <4>2. QED  BY <2>1, <2>2, <4>1, CopyMoves
    <3>2. \A i \in DOMAIN queue[l] : queue[l][i].id # s.msg.id
      <4> SUFFICES ASSUME NEW i \in DOMAIN queue[l], queue[l][i].id = s.msg.id
                   PROVE  FALSE
        BY SMTT(30), Zenon
      <4>1. <<"queue", l, queue[l][i]>> \in Held
        BY <2>1, HeldKinds DEF InQueues
      <4>2. <<"queue", l, queue[l][i]>> = g
        BY <2>1, <4>1 DEF OneCopy
      <4>3. QED  BY <4>2
    <3> HIDE DEF l
    <3>3. queue[l] \in Seq(Message) /\ queue'[l] = Append(queue[l], s.msg)
          /\ \A k \in Listeners \ {l} : queue'[k] = queue[k]
      BY <2>1, <2>2 DEF TypeInv
    <3>4. \A i, k \in DOMAIN queue'[l] : queue'[l][i].id = queue'[l][k].id => i = k
      <4> DEFINE n == Len(queue[l])
      <4>1. /\ n \in Nat /\ DOMAIN queue[l] = 1 .. n /\ DOMAIN queue'[l] = 1 .. n + 1
            /\ queue'[l][n + 1] = s.msg /\ \A i \in 1 .. n : queue'[l][i] = queue[l][i]
        BY <2>1, <3>3, SMTT(30), Zenon
      <4> HIDE DEF n
      <4>2. \A i \in 1 .. n + 1 : i \in 1 .. n \/ i = n + 1
        BY <4>1
      <4>3. \A i, k \in 1 .. n : queue[l][i].id = queue[l][k].id => i = k
        BY <2>1, <4>1 DEF NoRepeats
      <4>4. QED  BY <3>2, <4>1, <4>2, <4>3, Zenon
    <3>5. QED  BY <3>1, <3>3, <3>4, Zenon DEF NoRepeats
  <2>3. CASE Held' = Held \ {g} /\ fate' = Fail(s) /\ queue' = queue
    <3>1. {s.msg.id} = {a[3].id : a \in {g}}
      OBVIOUS
    <3>2. PICK how \in Fate : fate' = Ends({a[3].id : a \in {g}}, how)
      BY <2>3, <3>1 DEF Fail, Fate
    <3> HIDE DEF g
    <3>3. QED  BY <2>1, <2>3, <3>2, CopiesEnd, Zenon DEF NoRepeats
  <2>4. QED  BY <1>3, <2>2, <2>3, EnqueueHeld, Zenon
<1>4. ASSUME NEW l \in Listeners, Receive(l)
      PROVE  OneCopy' /\ NoRepeats'
  <2> DEFINE x == Head(queue[l])
             g == <<"queue", l, x>>
  <2>1. g \in Held /\ UNCHANGED <<sent, fate>> /\ queue' = [queue EXCEPT ![l] = Tail(@)] /\ queue[l] # <<>>
    BY <1>4, ReceiveHeld, Zenon DEF Receive
  <2>2. PICK c \in {"job", "loop"} : Held' = (Held \ {g}) \cup {<<c, l, x>>}
    BY <1>4, ReceiveHeld, Zenon
  <2>3. OneCopy'
    <3> DEFINE h == <<c, l, x>>
    <3>1. h[3].id = g[3].id
      BY SMTT(30), Zenon
    <3> HIDE DEF g, h
    <3>2. QED  BY <2>1, <2>2, <3>1, CopyMoves, Zenon DEF h
  <2>4. queue[l] \in Seq(Message) /\ queue[l] # <<>> /\ queue'[l] = Tail(queue[l])
        /\ \A k \in Listeners \ {l} : queue'[k] = queue[k]
    BY <2>1 DEF TypeInv
  <2>5. \A i, k \in DOMAIN queue'[l] : queue'[l][i].id = queue'[l][k].id => i = k
    <3> DEFINE n == Len(queue[l])
    <3>1. /\ n \in Nat \ {0} /\ DOMAIN queue[l] = 1 .. n /\ DOMAIN queue'[l] = 1 .. n - 1
          /\ \A i \in 1 .. n - 1 : queue'[l][i] = queue[l][i + 1]
      BY <2>4
    <3>2. \A i, k \in 1 .. n : queue[l][i].id = queue[l][k].id => i = k
      BY <3>1 DEF NoRepeats
    <3> HIDE DEF n
    <3>3. SUFFICES ASSUME NEW i \in 1 .. n - 1, NEW k \in 1 .. n - 1,
                          queue[l][i + 1].id = queue[l][k + 1].id
                   PROVE  i = k
      BY <3>1, Zenon
    <3>4. i + 1 \in 1 .. n /\ k + 1 \in 1 .. n /\ (i + 1 = k + 1 => i = k)
      BY <3>1
    <3>5. QED  BY <3>2, <3>3, <3>4
  <2>6. QED  BY <2>3, <2>4, <2>5, Zenon DEF NoRepeats
<1>5. ASSUME NEW l \in Listeners, Start(l)
      PROVE  OneCopy' /\ NoRepeats'
  <2>1. PICK x \in Message : /\ <<"loop", l, x>> \in Held
                             /\ Held' = (Held \ {<<"loop", l, x>>}) \cup {<<"job", l, x>>}
    BY <1>5, StartHeld
  <2> DEFINE g == <<"loop", l, x>>
             h == <<"job", l, x>>
  <2>2. h[3].id = g[3].id /\ UNCHANGED <<sent, fate, queue>>
    BY <1>5 DEF Start
  <2>3. g \in Held /\ Held' = (Held \ {g}) \cup {h}
    BY <2>1
  <2> HIDE DEF g, h
  <2>4. QED  BY <2>2, <2>3, CopyMoves DEF NoRepeats
<1>6. ASSUME NEW l \in Listeners, NEW j \in jobs[l], NEW ack \in {"Ok", "Reject"}, Finish(l, j, ack)
      PROVE  OneCopy' /\ NoRepeats'
  <2> DEFINE g == <<"job", l, j>>
  <2>1. g \in Held /\ Held' = Held \ {g} /\ UNCHANGED <<sent, queue>>
    BY <1>6, JobEndsHeld, Zenon DEF Finish
  <2>2. {j.id} = {a[3].id : a \in {g}}
    OBVIOUS
  <2>3. PICK how \in Fate : fate' = Ends({a[3].id : a \in {g}}, how)
    BY <1>6, <2>2 DEF Finish, Fate
  <2> HIDE DEF g
  <2>4. QED  BY <2>1, <2>3, CopiesEnd, Zenon DEF NoRepeats
<1>7. ASSUME NEW l \in Listeners, NEW j \in jobs[l], Retry(l, j)
      PROVE  OneCopy' /\ NoRepeats'
  <2> DEFINE m == Again(j)
             g == <<"job", l, j>>
  <2>1. g \in Held /\ UNCHANGED <<sent, queue>>
    BY <1>7, RetryHeld, Zenon DEF Retry
  <2>2. m.id = j.id
    BY Bump DEF TypeInv, Again
  <2>3. ASSUME NEW t, Held' = (Held \ {g}) \cup {<<"send", t, m>>}, fate' = fate
        PROVE  OneCopy'
    <3> DEFINE h == <<"send", t, m>>
    <3>1. h[3].id = g[3].id
      BY <2>2
    <3> HIDE DEF g, h
    <3>2. QED  BY <2>1, <2>3, <3>1, CopyMoves, Zenon DEF h
  <2>4. ASSUME Held' = Held \ {g}, fate' = Ends({j.id}, "dropped")
        PROVE  OneCopy'
    <3>1. {j.id} = {a[3].id : a \in {g}} /\ "dropped" \in Fate
      BY DEF Fate
    <3>2. fate' = Ends({a[3].id : a \in {g}}, "dropped")
      BY <2>4, <3>1
    <3> HIDE DEF g
    <3>3. QED  BY <2>1, <2>4, <3>1, <3>2, CopiesEnd, Zenon
  <2> HIDE DEF m, g
  <2>5. OneCopy'
    BY <1>7, <2>3, <2>4, RetryHeld, Zenon DEF m, g
  <2>6. QED  BY <2>1, <2>5 DEF NoRepeats
<1>8. ASSUME NEW l \in Listeners, NEW j \in jobs[l], Panic(l, j)
      PROVE  OneCopy' /\ NoRepeats'
  <2>1. OneCopy'
    BY <1>8, PanicHeld, CopiesEnd, Zenon DEF Panic, Fate
  <2>2. queue' = [queue EXCEPT ![l] = <<>>] \/ queue' = queue
    BY <1>8, SMTT(30), Zenon DEF Panic
  <2>3. \A k \in Listeners : queue'[k] = queue[k] \/ DOMAIN queue'[k] = {}
    BY <2>2, SMTT(30), Zenon DEF TypeInv
  <2>4. NoRepeats'
    BY <2>3 DEF NoRepeats
  <2>5. QED  BY <2>1, <2>4
<1>9. ASSUME NEW l \in Listeners, AddListener(l) \/ EndLoop(l)
      PROVE  OneCopy' /\ NoRepeats'
  <2>1. UNCHANGED <<queue, waiting, jobs, sends, sent, fate>>
    BY <1>9, Zenon DEF AddListener, EndLoop
  <2>2. Held' = Held
    BY <2>1, SMTT(30), Zenon DEF Held
  <2>3. QED  BY <2>1, <2>2, SMTT(30), Zenon DEF OneCopy, NoRepeats
<1>10. ASSUME Stop
       PROVE  OneCopy' /\ NoRepeats'
  <2>1. UNCHANGED <<queue, waiting, jobs, sends, sent, fate>>
    BY <1>10 DEF Stop
  <2>2. Held' = Held
    BY <2>1 DEF Held
  <2>3. QED  BY <2>1, <2>2 DEF OneCopy, NoRepeats
<1>11. CASE UNCHANGED vars
  <2>1. UNCHANGED <<queue, waiting, jobs, sends, sent, fate>>
    BY <1>11 DEF vars
  <2>2. Held' = Held
    BY <2>1 DEF Held
  <2>3. QED  BY <2>1, <2>2 DEF OneCopy, NoRepeats
<1>12. QED
  BY <1>1, <1>2, <1>3, <1>4, <1>5, <1>6, <1>7, <1>8, <1>9, <1>10, <1>11, SMTT(30), Zenon
  DEF Next, Internal

\* Each message is in as many places as its copy and its end allow.
LEMMA Conserved ==
    ASSUME TypeInv, OneCopy, NoRepeats
    PROVE  Conservation
<1> SUFFICES ASSUME NEW m \in Messages
             PROVE  Cardinality(Places(m)) + Cardinality(fate[m]) = IF m \in sent THEN 1 ELSE 0
  BY SMTT(30), Zenon DEF Conservation
<1> DEFINE Where(p, h) ==
        \/ p[1] = "queue" /\ h[1] = "queue" /\ p[2] = h[2] /\ h[3] = queue[p[2]][p[3]]
           /\ p[2] \in Listeners /\ p[3] \in DOMAIN queue[p[2]] /\ p = <<"queue", p[2], p[3]>>
        \/ p[1] # "queue" /\ p = h
<1>1. \A p \in Places(m) : \E h \in Held : Where(p, h) /\ h[3].id = m
  <2> SUFFICES ASSUME NEW p \in Places(m)
               PROVE  \E h \in Held : Where(p, h) /\ h[3].id = m
    BY SMTT(30), Zenon
  <2>1. CASE \E s \in sends : s.msg.id = m /\ p = <<"send", s, s.msg>>
    BY <2>1, HeldKinds, SMTT(30), Zenon DEF InSends
  <2>2. CASE \E l \in Listeners : \E i \in DOMAIN queue[l] : queue[l][i].id = m /\ p = <<"queue", l, i>>
    <3>1. PICK l \in Listeners : \E i \in DOMAIN queue[l] : queue[l][i].id = m /\ p = <<"queue", l, i>>
      BY <2>2
    <3>a. PICK i \in DOMAIN queue[l] : queue[l][i].id = m /\ p = <<"queue", l, i>>
      BY <3>1, SMTT(30), Zenon
    <3> DEFINE h == <<"queue", l, queue[l][i]>>
    <3>2. h \in Held
      BY HeldKinds DEF InQueues
    <3>3. Where(p, h) /\ h[3].id = m
      BY <3>a, SMTT(30), Zenon
    <3>4. QED  BY <3>2, <3>3
  <2>3. CASE \E l \in Listeners : \E x \in waiting[l] : x.id = m /\ p = <<"loop", l, x>>
    BY <2>3, HeldKinds, SMTT(30), Zenon DEF InLoops
  <2>4. CASE \E l \in Listeners : \E x \in jobs[l] : x.id = m /\ p = <<"job", l, x>>
    BY <2>4, HeldKinds DEF InJobs
  <2>5. QED  BY <2>1, <2>2, <2>3, <2>4 DEF Places
<1>2. \A h \in Held : h[3].id = m => \E p : p \in Places(m)
  <2> SUFFICES ASSUME NEW h \in Held, h[3].id = m
               PROVE  \E p : p \in Places(m)
    OBVIOUS
  <2>1. CASE InSends(sends, h)
    <3>1. h \in Places(m)
      BY <2>1 DEF InSends, Places
    <3>2. QED  BY <3>1
  <2>2. CASE InQueues(queue, h)
    <3>1. PICK l \in Listeners : \E i \in DOMAIN queue[l] : h = <<"queue", l, queue[l][i]>>
      BY <2>2 DEF InQueues
    <3>a. PICK i \in DOMAIN queue[l] : h = <<"queue", l, queue[l][i]>>
      BY <3>1
    <3>2. queue[l][i].id = m
      BY <3>a
    <3>3. <<"queue", l, i>> \in Places(m)
      BY <3>2 DEF Places
    <3>4. QED  BY <3>3
  <2>3. CASE InLoops(waiting, h)
    <3>1. h \in Places(m)
      BY <2>3, SMTT(30), Zenon DEF InLoops, Places
    <3>2. QED  BY <3>1
  <2>4. CASE InJobs(jobs, h)
    <3>1. h \in Places(m)
      BY <2>4 DEF InJobs, Places
    <3>2. QED  BY <3>1
  <2>5. QED  BY <2>1, <2>2, <2>3, <2>4, HeldKinds
<1>3. \A p, q \in Places(m) : p = q
  <2> SUFFICES ASSUME NEW p \in Places(m), NEW q \in Places(m)
               PROVE  p = q
    OBVIOUS
  <2>1. PICK h \in Held : Where(p, h) /\ h[3].id = m
    BY <1>1
  <2>2. PICK g \in Held : Where(q, g) /\ g[3].id = m
    BY <1>1
  <2>3. h = g
    BY <2>1, <2>2, SMTT(30), Zenon DEF OneCopy
  <2>4. CASE p[1] = "queue"
    <3>1. /\ q[1] = "queue" /\ p[2] = q[2] /\ queue[p[2]][p[3]] = queue[p[2]][q[3]]
          /\ p[2] \in Listeners /\ p[3] \in DOMAIN queue[p[2]] /\ q[3] \in DOMAIN queue[p[2]]
          /\ p = <<"queue", p[2], p[3]>> /\ q = <<"queue", q[2], q[3]>>
      BY <2>1, <2>2, <2>3, <2>4
    <3>2. p[3] = q[3]
      BY <3>1 DEF NoRepeats
    <3>3. QED  BY <3>1, <3>2
  <2>5. CASE p[1] # "queue"
    BY <2>1, <2>2, <2>3, <2>5
  <2>6. QED  BY <2>4, <2>5
<1>4. Cardinality({}) = 0 /\ \A x : Cardinality({x}) = 1
  BY FS_EmptySet, FS_Singleton, Zenon
<1>5. CASE \E h \in Held : h[3].id = m
  <2>1. PICK p : p \in Places(m)
    BY <1>2, <1>5
  <2>2. Places(m) = {p}
    BY <1>3, <2>1
  <2>3. m \in sent /\ fate[m] = {}
    BY <1>5 DEF OneCopy
  <2>4. Cardinality(Places(m)) = 1 /\ Cardinality(fate[m]) = 0
    BY <1>4, <2>2, <2>3, Zenon
  <2>5. QED  BY <2>3, <2>4
<1>6. CASE ~ \E h \in Held : h[3].id = m
  <2>1. Places(m) = {}
    BY <1>1, <1>6
  <2>2. CASE m \in sent
    <3>1. PICK f \in Fate : fate[m] = {f}
      BY <1>6, <2>2 DEF OneCopy
    <3>2. Cardinality(fate[m]) = 1 /\ Cardinality(Places(m)) = 0
      BY <1>4, <2>1, <3>1, Zenon
    <3>3. QED  BY <2>2, <3>2
  <2>3. CASE m \notin sent
    <3>1. fate[m] = {}
      BY <2>3 DEF OneCopy
    <3>2. Cardinality(fate[m]) = 0 /\ Cardinality(Places(m)) = 0
      BY <1>4, <2>1, <3>1, SMTT(30), Zenon
    <3>3. QED  BY <2>3, <3>2
  <2>4. QED  BY <2>2, <2>3
<1>7. QED  BY <1>5, <1>6

\* The types of the proofs are those of the property.
LEMMA TypesOK ==
    ASSUME TypeInv
    PROVE  TypeOK
<1>1. ASSUME NEW l \in Listeners
      PROVE  Len(queue[l]) <= Opts[l].buffer_size /\ Cardinality(waiting[l]) <= 1
  <2>1. Cardinality({}) = 0 /\ \A x : Cardinality({x}) = 1
    BY FS_EmptySet, FS_Singleton, Zenon
  <2>2. Len(queue[l]) <= Opts[l].buffer_size
    BY DEF TypeInv
  <2>3. waiting[l] = {} \/ \E m : waiting[l] = {m}
    BY Zenon DEF TypeInv
  <2>4. Cardinality(waiting[l]) \in {0, 1}
    BY <2>1, <2>3, Zenon
  <2>5. QED  BY <2>2, <2>4
<1>2. QED  BY <1>1 DEF TypeInv, TypeOK

\* The inductive invariant of the copies.
CopiesInv == TypeInv /\ OneCopy /\ NoRepeats

\* It holds at first and is kept by every step.
LEMMA CopiesInductive == Spec => []CopiesInv
<1>1. Init => CopiesInv
  <2> SUFFICES ASSUME Init PROVE CopiesInv
    BY SMTT(30), Zenon
  <2>1. TypeInv
    BY OptionsAssumption, SMTT(30), Zenon DEF Init, TypeInv
  <2>2. sends = {} /\ \A l \in Listeners : DOMAIN queue[l] = {} /\ waiting[l] = {} /\ jobs[l] = {}
    BY SMTT(30), Zenon DEF Init
  <2>3. \A h : h \notin Held
    BY <2>2, HeldKinds, Zenon DEF InSends, InQueues, InLoops, InJobs
  <2>4. OneCopy
    BY <2>3, SMTT(30), Zenon DEF Init, OneCopy
  <2>5. NoRepeats
    BY <2>2, Zenon DEF NoRepeats
  <2>6. QED  BY <2>1, <2>4, <2>5 DEF CopiesInv
<1>2. CopiesInv /\ [Next]_vars => CopiesInv'
  BY TypeStep, CopiesStep DEF CopiesInv
<1>3. QED  BY <1>1, <1>2, PTL DEF Spec

\* However sends, handlers, panics, retries, dead letters and stop() interleave,
\* a message given to send() is in exactly one place, or its end was reported
\* exactly once, and no channel holds more than its buffer (pick, send,
\* consumer_loop, process, spawn_guaranteed_send).
THEOREM MessagesConserved == Spec => [](TypeOK /\ Conservation)
<1>1. CopiesInv => TypeOK /\ Conservation
  BY TypesOK, Conserved DEF CopiesInv
<1>2. QED  BY <1>1, CopiesInductive, PTL
=============================================================================
