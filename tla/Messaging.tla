------------------------------ MODULE Messaging ------------------------------
(***************************************************************************)
(* LocalProvider, the in-process message bus (messaging/mod.rs): producers *)
(* that send, one bounded channel and one consumer task per listener,      *)
(* handlers that acknowledge, reject, ask for a retry or panic, detached   *)
(* tasks that redeliver and dead-letter, and stop().                       *)
(*                                                                         *)
(* A send is two steps, because the lock of pick() is released before the  *)
(* channel is used: a consumer may die, a buffer may fill and stop() may   *)
(* run in between.  Time, headers and bodies are left out.                 *)
(***************************************************************************)
EXTENDS Integers, Sequences, FiniteSets, Functions

CONSTANTS
    Messages,      \* messages of the producers, 1..n; a producer sends in this order
    Producer,      \* [Messages -> producers]
    Blocking,      \* the messages sent with SendOptions::block_on_full
    MessageKey,    \* [Messages -> Keys \cup {NoKey}]: Message::routing_key
    SendKey,       \* [Messages -> Keys \cup {NoKey}]: SendOptions::routing_key
    Target,        \* the destination they are sent to
    Destinations,
    Listeners,     \* the listeners the application may add
    Dest,          \* [Listeners -> Destinations]
    Opts,          \* [Listeners -> ListenerOptions]; concurrency Serial for None
    Hash,          \* [Keys -> Nat]: hash_key
    RoundRobinWrap \* residue kept of round_robin: a multiple of every list length

NoKey == "none"
NoListener == "unpicked"
NoDeadLetter == "drop"
Serial == 0

Keys == DOMAIN Hash

ASSUME OptionsAssumption ==
    /\ Messages \subseteq Nat /\ IsFiniteSet(Messages)
    /\ Blocking \subseteq Messages
    /\ MessageKey \in [Messages -> Keys \cup {NoKey}]
    /\ SendKey \in [Messages -> Keys \cup {NoKey}]
    /\ NoKey \notin Keys /\ NoListener \notin Listeners
    /\ Target \in Destinations /\ NoDeadLetter \notin Destinations
    /\ Dest \in [Listeners -> Destinations]
    /\ Hash \in [Keys -> Nat] /\ RoundRobinWrap \in Nat \ {0}
    /\ \A l \in Listeners :
          /\ Opts[l].buffer_size \in Nat \ {0}     \* mpsc::channel panics on 0
          /\ Opts[l].concurrency \in Nat
          /\ Opts[l].max_delivery_attempts \in Nat
          /\ Opts[l].dead_letter \in Destinations \cup {NoDeadLetter}

VARIABLES
    listeners,    \* per destination: the senders of its listeners, in order
    round_robin,  \* per destination
    consumer,     \* per listener: "absent", "running" or "ended" (receiver gone)
    queue,        \* per listener: its channel
    waiting,      \* per listener: received, waiting for a semaphore permit
    jobs,         \* per listener: the messages whose process() is under way
    sends,        \* the sends under way
    sent,         \* the messages whose producer has called send
    fate,         \* per message: how it ended, as producer or observer learns
    starts,       \* per message: handler calls at Target (history)
    visited       \* per key: listeners picked since Target's list last changed (history)

vars == <<listeners, round_robin, consumer, queue, waiting, jobs, sends, sent,
          fate, starts, visited>>

Message == [id : Messages, delivery_count : Nat]

SendOp ==
    [msg : Message, dest : Destinations, key : Keys \cup {NoKey}, block : BOOLEAN,
     origin : {"producer", "requeue", "dlq"}, to : Listeners \cup {NoListener}]

Fate == {"acked", "rejected", "refused", "dropped", "lost"}

Init ==
    /\ listeners = [d \in Destinations |-> <<>>]
    /\ round_robin = [d \in Destinations |-> 0]
    /\ consumer = [l \in Listeners |-> "absent"]
    /\ queue = [l \in Listeners |-> <<>>]
    /\ waiting = [l \in Listeners |-> {}]
    /\ jobs = [l \in Listeners |-> {}]
    /\ sends = {}
    /\ sent = {}
    /\ fate = [m \in Messages |-> {}]
    /\ starts = [m \in Messages |-> 0]
    /\ visited = [k \in Keys |-> {}]

Ends(ids, how) == [m \in Messages |-> IF m \in ids THEN fate[m] \cup {how} ELSE fate[m]]

\* The routing key the application gave message m, wherever it put it.
KeyOf(m) == IF SendKey[m] # NoKey THEN SendKey[m] ELSE MessageKey[m]

-----------------------------------------------------------------------------
(* Sending.                                                                *)

\* The listeners of d that pick() retains, in their order.
Live(d) ==
    LET list == listeners[d]
        retained[i \in 0 .. Len(list)] ==
            IF i = 0 THEN <<>>
            ELSE IF consumer[list[i]] = "ended" THEN retained[i - 1]
            ELSE Append(retained[i - 1], list[i])
    IN  retained[Len(list)]

Index(d, key) ==
    (IF key = NoKey THEN round_robin[d] ELSE Hash[key]) % Len(Live(d))

\* A send that fails is an error to the producer, a drop to the observer.
Fail(s) == Ends({s.msg.id}, IF s.origin = "producer" THEN "refused" ELSE "dropped")

\* pick() for send s: prune, choose, and advance the rotation.
Pick(s) ==
    LET live == Live(s.dest)
        to == live[Index(s.dest, s.key) + 1]
        known == IF live = listeners[Target] THEN visited
                 ELSE [k \in Keys |-> {}]
    IN  /\ listeners' = [listeners EXCEPT ![s.dest] = live]
        /\ \/ /\ live = <<>>
              /\ sends' = sends \ {s}
              /\ fate' = Fail(s)
              /\ visited' = IF s.dest = Target THEN known ELSE visited
              /\ UNCHANGED round_robin
           \/ /\ live # <<>>
              /\ sends' = (sends \ {s}) \cup {[s EXCEPT !.to = to]}
              /\ round_robin' =
                    IF s.key = NoKey
                    THEN [round_robin EXCEPT ![s.dest] = (@ + 1) % RoundRobinWrap]
                    ELSE round_robin
              /\ visited' =
                    IF s.dest # Target THEN visited
                    ELSE [k \in Keys |-> known[k] \cup
                             (IF k = KeyOf(s.msg.id) THEN {to} ELSE {})]
              /\ UNCHANGED fate
        /\ UNCHANGED <<consumer, queue, waiting, jobs, starts>>

\* A producer calls send(): the first poll runs up to pick().
Send(m) ==
    /\ m \notin sent
    /\ \A n \in Messages : n < m /\ Producer[n] = Producer[m] =>
          n \in sent /\ \A s \in sends : s.msg.id = n => s.origin # "producer"
    /\ sent' = sent \cup {m}
    /\ Pick([msg |-> [id |-> m, delivery_count |-> 0], dest |-> Target,
             key |-> KeyOf(m), block |-> m \in Blocking,
             origin |-> "producer", to |-> NoListener])

\* The detached task of spawn_guaranteed_send reaches pick().
Resend(s) == s.to = NoListener /\ Pick(s) /\ UNCHANGED sent

HasRoom(l) == Len(queue[l]) < Opts[l].buffer_size

\* tx.send / tx.try_send on the picked channel.
Enqueue(s) ==
    /\ s.to # NoListener
    /\ \/ /\ consumer[s.to] = "running" /\ HasRoom(s.to)
          /\ queue' = [queue EXCEPT ![s.to] = Append(@, s.msg)]
          /\ UNCHANGED fate
       \/ /\ \/ consumer[s.to] = "ended"             \* Closed
             \/ ~HasRoom(s.to) /\ ~s.block           \* BufferFull
          /\ fate' = Fail(s)
          /\ UNCHANGED queue
    /\ sends' = sends \ {s}
    /\ UNCHANGED <<listeners, round_robin, consumer, waiting, jobs, sent, starts, visited>>

-----------------------------------------------------------------------------
(* Listeners.                                                              *)

\* add_listener: the consumer task is spawned and its sender registered.
AddListener(l) ==
    /\ consumer[l] = "absent"
    /\ consumer' = [consumer EXCEPT ![l] = "running"]
    /\ listeners' = [listeners EXCEPT ![Dest[l]] = Append(@, l)]
    /\ visited' = IF Dest[l] = Target THEN [k \in Keys |-> {}] ELSE visited
    /\ UNCHANGED <<round_robin, queue, waiting, jobs, sends, sent, fate, starts>>

\* Handlers that may run at once: one for concurrency None.
Permits(l) == IF Opts[l].concurrency = Serial THEN 1 ELSE Opts[l].concurrency

\* The consumer is back at rx.recv(); a serial one awaits its handler first.
AtRecv(l) ==
    /\ consumer[l] = "running"
    /\ waiting[l] = {}
    /\ Opts[l].concurrency = Serial => jobs[l] = {}

\* process() begins for message m: on_receive, and the handler is called.
Started(l, m) ==
    /\ jobs' = [jobs EXCEPT ![l] = @ \cup {m}]
    /\ starts' = IF Dest[l] = Target THEN [starts EXCEPT ![m.id] = @ + 1] ELSE starts

\* rx.recv() returns a message; a serial consumer processes it at once.
Receive(l) ==
    /\ AtRecv(l) /\ queue[l] # <<>>
    /\ queue' = [queue EXCEPT ![l] = Tail(@)]
    /\ \/ /\ Opts[l].concurrency = Serial
          /\ Started(l, Head(queue[l]))
          /\ UNCHANGED waiting
       \/ /\ Opts[l].concurrency # Serial
          /\ waiting' = [waiting EXCEPT ![l] = {Head(queue[l])}]
          /\ UNCHANGED <<jobs, starts>>
    /\ UNCHANGED <<listeners, round_robin, consumer, sends, sent, fate, visited>>

\* MUTANT: the permit is taken inside the spawned task.
PermitFreeAlways(l) == TRUE

\* acquire_owned() can return.
PermitFree(l) == Cardinality(jobs[l]) < Permits(l)

\* The consumer loop gets a permit and spawns the job.
Start(l) ==
    /\ PermitFree(l)
    /\ \E m \in waiting[l] : Started(l, m)
    /\ waiting' = [waiting EXCEPT ![l] = {}]
    /\ UNCHANGED <<listeners, round_robin, consumer, queue, sends, sent, fate, visited>>

\* The handler of j returned Ok or Reject.
Finish(l, j, ack) ==
    /\ j \in jobs[l]
    /\ jobs' = [jobs EXCEPT ![l] = @ \ {j}]
    /\ fate' = Ends({j.id}, IF ack = "Ok" THEN "acked" ELSE "rejected")
    /\ UNCHANGED <<listeners, round_robin, consumer, queue, waiting, sends, sent, starts, visited>>

WillRequeue(l, m) == m.delivery_count < Opts[l].max_delivery_attempts

\* spawn_guaranteed_send: SendOptions::routing_key is not carried over.
GuaranteedSend(m, dest, is_dlq) ==
    [msg |-> m, dest |-> dest, key |-> MessageKey[m.id], block |-> TRUE,
     origin |-> IF is_dlq THEN "dlq" ELSE "requeue", to |-> NoListener]

\* MUTANT: the requeue waits for room inside the consumer task.
RetryInline(l, j) ==
    LET m == [j EXCEPT !.delivery_count = @ + 1]
    IN  /\ j \in jobs[l]
        /\ HasRoom(l)
        /\ jobs' = [jobs EXCEPT ![l] = @ \ {j}]
        /\ queue' = [queue EXCEPT ![l] = Append(@, m)]
        /\ UNCHANGED <<listeners, round_robin, consumer, waiting, sends, sent, fate, starts, visited>>

\* MUTANT: the requeue keeps the handler's copy going as well.
RetryTwice(l, j) ==
    LET m == [j EXCEPT !.delivery_count = @ + 1]
    IN  /\ j \in jobs[l]
        /\ jobs' = [jobs EXCEPT ![l] = @ \ {j}]
        /\ sends' = sends \cup {GuaranteedSend(m, Dest[l], FALSE)}
        /\ fate' = IF WillRequeue(l, m) THEN fate ELSE Ends({j.id}, "dropped")
        /\ UNCHANGED <<listeners, round_robin, consumer, queue, waiting, sent, starts, visited>>

\* The handler of j returned Retry.
Retry(l, j) ==
    LET m == [j EXCEPT !.delivery_count = @ + 1]
        dlq == Opts[l].dead_letter
    IN  /\ j \in jobs[l]
        /\ jobs' = [jobs EXCEPT ![l] = @ \ {j}]
        /\ \/ /\ WillRequeue(l, m)
              /\ sends' = sends \cup {GuaranteedSend(m, Dest[l], FALSE)}
              /\ UNCHANGED fate
           \/ /\ ~WillRequeue(l, m) /\ dlq # NoDeadLetter
              /\ sends' = sends \cup {GuaranteedSend(m, dlq, TRUE)}
              /\ UNCHANGED fate
           \/ /\ ~WillRequeue(l, m) /\ dlq = NoDeadLetter
              /\ fate' = Ends({j.id}, "dropped")
              /\ UNCHANGED sends
        /\ UNCHANGED <<listeners, round_robin, consumer, queue, waiting, sent, starts, visited>>

\* The handler of j panicked: a serial consumer task dies with its channel,
\* a spawned job dies alone and frees its permit.
Panic(l, j) ==
    /\ j \in jobs[l]
    /\ jobs' = [jobs EXCEPT ![l] = @ \ {j}]
    /\ \/ /\ Opts[l].concurrency = Serial
          /\ consumer' = [consumer EXCEPT ![l] = "ended"]
          /\ queue' = [queue EXCEPT ![l] = <<>>]
          /\ fate' = Ends({j.id} \cup {m.id : m \in Range(queue[l])}, "lost")
       \/ /\ Opts[l].concurrency # Serial
          /\ fate' = Ends({j.id}, "lost")
          /\ UNCHANGED <<consumer, queue>>
    /\ UNCHANGED <<listeners, round_robin, waiting, sends, sent, starts, visited>>

\* Component::stop clears the destinations, dropping their senders.
Stop ==
    /\ \E d \in Destinations : listeners[d] # <<>>
    /\ listeners' = [d \in Destinations |-> <<>>]
    /\ round_robin' = [d \in Destinations |-> 0]
    /\ visited' = [k \in Keys |-> {}]
    /\ UNCHANGED <<consumer, queue, waiting, jobs, sends, sent, fate, starts>>

\* No sender of l's channel is left, in the table or in a send under way.
SendersGone(l) ==
    /\ l \notin Range(listeners[Dest[l]])
    /\ \A s \in sends : s.to # l

\* rx.recv() returns None: the loop ends; spawned jobs go on without it.
EndLoop(l) ==
    /\ AtRecv(l) /\ queue[l] = <<>> /\ SendersGone(l)
    /\ consumer' = [consumer EXCEPT ![l] = "ended"]
    /\ UNCHANGED <<listeners, round_robin, queue, waiting, jobs, sends, sent, fate, starts, visited>>

-----------------------------------------------------------------------------
\* What the spawned tasks do by themselves once they are polled.
Internal ==
    \/ \E s \in sends : Resend(s) \/ Enqueue(s)
    \/ \E l \in Listeners :
          \/ Receive(l)
          \/ Start(l)
          \/ EndLoop(l)
          \/ \E j \in jobs[l] :
                \/ \E ack \in {"Ok", "Reject"} : Finish(l, j, ack)
                \/ Retry(l, j)
                \/ Panic(l, j)

Next ==
    \/ Internal
    \/ \E m \in Messages : Send(m)
    \/ \E l \in Listeners : AddListener(l)
    \/ Stop

Spec == Init /\ [][Next]_vars

\* Tokio polls a task that can go on, and handlers return or panic.
FairSpec == Spec /\ WF_vars(Internal)

-----------------------------------------------------------------------------
(* Properties.                                                             *)

\* Every variable has its type; channels respect buffer_size and the loop
\* holds at most one received message.
TypeOK ==
    /\ listeners \in [Destinations -> Seq(Listeners)]
    /\ round_robin \in [Destinations -> 0 .. RoundRobinWrap - 1]
    /\ consumer \in [Listeners -> {"absent", "running", "ended"}]
    /\ queue \in [Listeners -> Seq(Message)]
    /\ waiting \in [Listeners -> SUBSET Message]
    /\ jobs \in [Listeners -> SUBSET Message]
    /\ sends \subseteq SendOp
    /\ sent \subseteq Messages
    /\ fate \in [Messages -> SUBSET Fate]
    /\ starts \in [Messages -> Nat]
    /\ visited \in [Keys -> SUBSET Listeners]
    /\ \A l \in Listeners :
          Len(queue[l]) <= Opts[l].buffer_size /\ Cardinality(waiting[l]) <= 1

\* Where message m is: sends under way, channels, consumer loops, jobs.
Places(m) ==
    LET at(l) == {<<"queue", l, i>> : i \in {k \in DOMAIN queue[l] : queue[l][k].id = m}}
                 \cup {<<"loop", l, w>> : w \in {x \in waiting[l] : x.id = m}}
                 \cup {<<"job", l, j>> : j \in {x \in jobs[l] : x.id = m}}
    IN  {<<"send", s, s.msg>> : s \in {x \in sends : x.msg.id = m}}
        \cup UNION {at(l) : l \in Listeners}

\* No message is lost without a trace and none is delivered twice: a message
\* given to send() is in exactly one place, or its end was reported exactly
\* once (error to the producer, on_ack, final on_nack, on_dead_letter), a
\* panicking handler aside (pick, send, process, spawn_guaranteed_send).
Conservation ==
    \A m \in Messages :
        Cardinality(Places(m)) + Cardinality(fate[m]) = IF m \in sent THEN 1 ELSE 0

\* "Total delivery attempts before a Retry is dead-lettered": the handlers of
\* a destination see a message at most max_delivery_attempts times (once if
\* it is 0), and delivery_count tells them how often before.
AttemptsWithinMax ==
    \A l \in Listeners : Dest[l] = Target =>
        \A j \in jobs[l] :
            /\ starts[j.id] = j.delivery_count + 1
            /\ j.delivery_count = 0 \/ starts[j.id] <= Opts[l].max_delivery_attempts

\* What AttemptsWithinMax needs: the listeners that compete for the target
\* agree on the attempts, and no dead letters are sent there.  process() tests
\* the maximum of the listener that had the message, pick() may then give it
\* to one with a lower maximum; and a dead letter keeps its delivery_count.
UniformTarget ==
    \A l \in Listeners :
        /\ Opts[l].dead_letter # Target
        /\ \A k \in Listeners : Dest[l] = Target /\ Dest[k] = Target =>
              Opts[l].max_delivery_attempts = Opts[k].max_delivery_attempts

\* concurrency bounds the handlers that run at once, None is one at a time
\* (the semaphore and the await of consumer_loop), also after stop().
HandlersWithinConcurrency ==
    \A l \in Listeners : Cardinality(jobs[l]) <= Permits(l)

\* A listener starts first deliveries of one producer in the order they were
\* sent, whatever redeliveries and blocked sends come in between ("serial =>
\* ordered delivery"; with concurrency the starts, not the ends, are ordered).
FirstDeliveriesInOrder ==
    LET ordered(m, n) == /\ m.delivery_count = 0 /\ n.delivery_count = 0
                         /\ Producer[m.id] = Producer[n.id]
                         => m.id < n.id
    IN  \A l \in Listeners :
            /\ \A j \in jobs[l], w \in waiting[l] : ordered(j, w)
            /\ \A i \in DOMAIN queue[l] :
                  /\ \A m \in jobs[l] \cup waiting[l] : ordered(m, queue[l][i])
                  /\ \A k \in 1 .. i - 1 : ordered(queue[l][k], queue[l][i])

\* Affinity of Message::routing_key: while the destination's listener list
\* stays as it is, deliveries and redeliveries of a key go to one listener.
MessageKeySticks ==
    \A m \in sent : SendKey[m] = NoKey /\ MessageKey[m] # NoKey
        /\ (\A n \in Messages : KeyOf(n) = KeyOf(m) => SendKey[n] = NoKey)
        => Cardinality(visited[KeyOf(m)]) <= 1

\* What a delivery promises (messaging/mod.rs): every message is in one place
\* or has one fate, it is tried no more than its listener's options say,
\* first deliveries keep their producer's order, and a key sticks to one
\* listener.
DeliveredAsAsked ==
    /\ TypeOK /\ Conservation /\ AttemptsWithinMax
    /\ FirstDeliveriesInOrder /\ MessageKeySticks

\* Every message given to send() comes to an end that someone learns of: no
\* send, redelivery or dead-letter move waits for ever, whatever is full.
EveryMessageSettles == \A m \in Messages : m \in sent ~> fate[m] # {}

\* stop() "closes each channel; the consumer tasks then drain and exit".
ConsumersDrainAndExit ==
    \A l \in Listeners :
        consumer[l] = "running" /\ l \notin Range(listeners[Dest[l]])
            ~> consumer[l] = "ended"

\* Nothing hangs (messaging/mod.rs): every message that was sent is settled,
\* and the consumer of a listener that was removed drains its queue and ends.
MessagesSettle == EveryMessageSettles /\ ConsumersDrainAndExit
=============================================================================
