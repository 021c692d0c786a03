-------------------------- MODULE DeliveryProofs ---------------------------
(***************************************************************************)
(* More about Messaging, for any number of messages, destinations and      *)
(* listeners: where a message goes, in which order, and how often.         *)
(***************************************************************************)
EXTENDS MessagingProofs

-----------------------------------------------------------------------------
(* Destinations and routing keys.                                          *)

\* Every listener is in the list of its own destination, and a send that has
\* picked a listener picked one of its destination.
RouteInv ==
    /\ \A d \in Destinations : \A i \in DOMAIN listeners[d] : Dest[listeners[d][i]] = d
    /\ \A s \in sends : s.to # NoListener => Dest[s.to] = s.dest

\* pick() retains only listeners of the destination it was asked for.
LEMMA LiveAt ==
    ASSUME TypeInv, RouteInv, NEW d \in Destinations
    PROVE  \A i \in DOMAIN Live(d) : Dest[Live(d)[i]] = d
<1> DEFINE S == {l \in Listeners : Dest[l] = d}
<1>1. listeners[d] \in Seq(Listeners) /\ \A i \in DOMAIN listeners[d] : listeners[d][i] \in S
  BY DEF TypeInv, RouteInv
<1>2. Len(listeners[d]) \in Nat /\ listeners[d] \in [1 .. Len(listeners[d]) -> S]
  BY <1>1
<1> HIDE DEF S
<1>3. listeners[d] \in Seq(S)
  BY <1>2
<1>4. Live(d) \in Seq(S)
  BY <1>3, LiveIn
<1>5. QED  BY <1>4 DEF S

\* pick() sends to a listener of the destination it was asked for.
LEMMA PickRoute ==
    ASSUME TypeInv, RouteInv, NEW s \in SendOp, Pick(s)
    PROVE  RouteInv'
<1>1. s.dest \in Destinations /\ listeners' = [listeners EXCEPT ![s.dest] = Live(s.dest)]
  BY DEF Pick, SendOp
<1>2. \A i \in DOMAIN Live(s.dest) : Dest[Live(s.dest)[i]] = s.dest
  BY <1>1, LiveAt
<1>3. \A d \in Destinations : \A i \in DOMAIN listeners'[d] : Dest[listeners'[d][i]] = d
  <2>1. listeners'[s.dest] = Live(s.dest) /\ \A d \in Destinations \ {s.dest} : listeners'[d] = listeners[d]
    BY <1>1 DEF TypeInv
  <2>2. QED  BY <1>2, <2>1 DEF RouteInv
<1>4. CASE Live(s.dest) = <<>>
  BY <1>3, <1>4 DEF Pick, RouteInv
<1>5. CASE Live(s.dest) # <<>>
  <2>1. sends' = (sends \ {s}) \cup {Chosen(s)}
    BY <1>5 DEF Pick, Chosen
  <2>2. Chosen(s).dest = s.dest /\ Chosen(s).to = Live(s.dest)[Index(s.dest, s.key) + 1]
    BY <1>5, ChosenIs
  <2>3. Dest[Chosen(s).to] = s.dest
    BY <1>2, <1>5, <2>2, IndexOf
  <2>4. QED  BY <1>3, <2>1, <2>2, <2>3 DEF RouteInv
<1>6. QED  BY <1>4, <1>5

\* Every step routes to the right destination.
LEMMA RouteStep ==
    ASSUME TypeInv, RouteInv, [Next]_vars
    PROVE  RouteInv'
<1>1. ASSUME NEW m \in Messages, Send(m)
      PROVE  RouteInv'
  BY <1>1, FirstSendIs, PickRoute
<1>2. ASSUME NEW s \in sends, Resend(s)
      PROVE  RouteInv'
  BY <1>2, PickRoute, Zenon DEF Resend, TypeInv
<1>3. ASSUME NEW l \in Listeners, NEW j \in jobs[l], Retry(l, j)
      PROVE  RouteInv'
  <2>1. UNCHANGED listeners
    BY <1>3 DEF Retry
  <2>2. \A s \in sends' : s \in sends \/ s.to = NoListener
    BY <1>3 DEF Retry, GuaranteedSend
  <2>3. QED  BY <2>1, <2>2 DEF RouteInv
<1>4. ASSUME NEW l \in Listeners, AddListener(l)
      PROVE  RouteInv'
  <2> DEFINE d == Dest[l]
             n == Len(listeners[d])
  <2>1. d \in Destinations /\ listeners[d] \in Seq(Listeners) /\ UNCHANGED sends
    BY <1>4, OptionsAssumption, Zenon DEF AddListener, TypeInv
  <2>2. listeners'[d] = Append(listeners[d], l) /\ \A e \in Destinations \ {d} : listeners'[e] = listeners[e]
    BY <1>4, <2>1 DEF AddListener, TypeInv
  <2>3. /\ n \in Nat /\ DOMAIN listeners[d] = 1 .. n /\ DOMAIN listeners'[d] = 1 .. n + 1
        /\ listeners'[d][n + 1] = l /\ \A i \in 1 .. n : listeners'[d][i] = listeners[d][i]
    BY <2>1, <2>2
  <2>4. \A i \in 1 .. n + 1 : i \in 1 .. n \/ i = n + 1
    BY <2>3
  <2> HIDE DEF n
  <2>5. \A i \in DOMAIN listeners'[d] : Dest[listeners'[d][i]] = d
    BY <2>1, <2>3, <2>4 DEF RouteInv
  <2>6. QED  BY <2>1, <2>2, <2>5, Zenon DEF RouteInv
<1>5. ASSUME Stop
      PROVE  RouteInv'
  BY <1>5 DEF Stop, RouteInv
<1>6. ASSUME UNCHANGED listeners, sends' \subseteq sends
      PROVE  RouteInv'
  BY <1>6 DEF RouteInv
<1>7. ASSUME NEW l \in Listeners, NEW j \in jobs[l],
             Panic(l, j) \/ \E ack \in {"Ok", "Reject"} : Finish(l, j, ack)
      PROVE  RouteInv'
  BY <1>6, <1>7 DEF Panic, Finish
<1>8. ASSUME NEW l \in Listeners, Receive(l) \/ Start(l) \/ EndLoop(l)
      PROVE  RouteInv'
  BY <1>6, <1>8 DEF Receive, Start, EndLoop
<1>9. ASSUME NEW s \in sends, Enqueue(s)
      PROVE  RouteInv'
  BY <1>6, <1>9 DEF Enqueue
<1>10. CASE UNCHANGED vars
  BY <1>6, <1>10 DEF vars
<1>11. QED
  BY <1>1, <1>2, <1>3, <1>4, <1>5, <1>7, <1>8, <1>9, <1>10 DEF Next, Internal

\* A send goes by the key its message was given, and the listeners that a key
\* without SendOptions::routing_key has visited are the one its hash selects.
StickyInv ==
    /\ \A s \in sends : s.key = KeyOf(s.msg.id) \/ s.key = MessageKey[s.msg.id]
    /\ \A k \in Keys : (\A n \in Messages : KeyOf(n) = k => SendKey[n] = NoKey) =>
          \A t \in visited[k] : t = listeners[Target][(Hash[k] % Len(listeners[Target])) + 1]

\* pick() by the key of a message goes where the hash points, and forgets
\* where keys went when the list has changed.
LEMMA PickSticks ==
    ASSUME TypeInv, StickyInv, NEW s \in SendOp, Pick(s),
           s.key = KeyOf(s.msg.id) \/ s.key = MessageKey[s.msg.id]
    PROVE  StickyInv'
<1> DEFINE live == Live(s.dest)
           to == live[Index(s.dest, s.key) + 1]
           known == IF live = listeners[Target] THEN visited ELSE [k \in Keys |-> {}]
<1>1. /\ s.dest \in Destinations /\ Target \in Destinations
      /\ listeners' = [listeners EXCEPT ![s.dest] = live] /\ s.msg.id \in Messages
  BY OptionsAssumption DEF Pick, SendOp, Message
<1>2. \A t \in sends' : t.key = KeyOf(t.msg.id) \/ t.key = MessageKey[t.msg.id]
  <2>1. CASE live = <<>>
    BY <2>1 DEF Pick, StickyInv
  <2>2. CASE live # <<>>
    <3>1. sends' = (sends \ {s}) \cup {Chosen(s)}
      BY <2>2 DEF Pick, Chosen
    <3>2. Chosen(s).key = s.key /\ Chosen(s).msg = s.msg
      BY <2>2, ChosenIs
    <3>3. QED  BY <3>1, <3>2 DEF StickyInv
  <2>3. QED  BY <2>1, <2>2
<1>3. CASE s.dest # Target
  <2>1. visited' = visited /\ listeners'[Target] = listeners[Target]
    BY <1>1, <1>3 DEF Pick, TypeInv
  <2>2. QED  BY <1>2, <2>1 DEF StickyInv
<1>4. CASE s.dest = Target
  <2> SUFFICES ASSUME NEW k \in Keys, \A n \in Messages : KeyOf(n) = k => SendKey[n] = NoKey,
                      NEW t \in visited'[k]
               PROVE  t = live[(Hash[k] % Len(live)) + 1]
    <3>1. listeners'[Target] = live
      BY <1>1, <1>4 DEF TypeInv
    <3> HIDE DEF live
    <3>2. QED  BY <1>2, <3>1 DEF StickyInv
  <2>1. CASE t \in known[k]
    <3>1. live = listeners[Target] /\ t \in visited[k]
      BY <2>1
    <3>2. t = listeners[Target][(Hash[k] % Len(listeners[Target])) + 1]
      BY <3>1 DEF StickyInv
    <3>3. QED  BY <3>1, <3>2
  <2>2. CASE live # <<>> /\ k = KeyOf(s.msg.id) /\ t = to
    <3>1. s.key = k /\ k # NoKey
      BY <1>1, <2>2, OptionsAssumption, Zenon DEF KeyOf
    <3>2. Index(s.dest, s.key) = Hash[k] % Len(live)
      BY <3>1 DEF Index
    <3>3. QED  BY <2>2, <3>2
  <2>3. t \in known[k] \/ (live # <<>> /\ k = KeyOf(s.msg.id) /\ t = to)
    <3>1. CASE live = <<>>
      BY <1>4, <3>1 DEF Pick
    <3>2. CASE live # <<>>
      <4>1. visited' = [q \in Keys |-> known[q] \cup (IF q = KeyOf(s.msg.id) THEN {to} ELSE {})]
        BY <1>4, <3>2, SMTT(30), Zenon DEF Pick
      <4> HIDE DEF known, to, live
      <4>2. QED  BY <3>2, <4>1
    <3>3. QED  BY <3>1, <3>2
  <2>4. QED  BY <2>1, <2>2, <2>3
<1>5. QED  BY <1>3, <1>4

\* Every step keeps keys at their listener.
LEMMA StickyStep ==
    ASSUME TypeInv, StickyInv, [Next]_vars
    PROVE  StickyInv'
<1>1. ASSUME NEW m \in Messages, Send(m)
      PROVE  StickyInv'
  BY <1>1, FirstSendIs, PickSticks
<1>2. ASSUME NEW s \in sends, Resend(s)
      PROVE  StickyInv'
  BY <1>2, PickSticks, Zenon DEF Resend, TypeInv, StickyInv
<1>3. ASSUME NEW l \in Listeners, NEW j \in jobs[l], Retry(l, j)
      PROVE  StickyInv'
  <2>1. UNCHANGED <<listeners, visited>>
    BY <1>3 DEF Retry
  <2>2. \A s \in sends' : s \in sends \/ s.key = MessageKey[s.msg.id]
    <3>1. \A x, d, b : GuaranteedSend(x, d, b).key = MessageKey[GuaranteedSend(x, d, b).msg.id]
      BY DEF GuaranteedSend
    <3>2. sends' = sends \/ \E x, d, b : sends' = sends \cup {GuaranteedSend(x, d, b)}
      BY <1>3, Zenon DEF Retry
    <3>3. QED  BY <3>1, <3>2
  <2>3. QED  BY <2>1, <2>2 DEF StickyInv
<1>4. ASSUME NEW l \in Listeners, AddListener(l)
      PROVE  StickyInv'
  <2>1. UNCHANGED sends
    BY <1>4 DEF AddListener
  <2>2. CASE Dest[l] = Target
    <3>1. \A k \in Keys : visited'[k] = {}
      BY <1>4, <2>2 DEF AddListener
    <3>2. QED  BY <2>1, <3>1 DEF StickyInv
  <2>3. CASE Dest[l] # Target
    <3>1. visited' = visited /\ listeners'[Target] = listeners[Target]
      BY <1>4, <2>3, OptionsAssumption DEF AddListener, TypeInv
    <3>2. QED  BY <2>1, <3>1 DEF StickyInv
  <2>4. QED  BY <2>2, <2>3
<1>5. ASSUME Stop
      PROVE  StickyInv'
  <2>1. UNCHANGED sends /\ \A k \in Keys : visited'[k] = {}
    BY <1>5 DEF Stop
  <2>2. QED  BY <2>1 DEF StickyInv
<1>6. ASSUME UNCHANGED <<listeners, visited>>, sends' \subseteq sends
      PROVE  StickyInv'
  BY <1>6 DEF StickyInv
<1>7. ASSUME NEW l \in Listeners, NEW j \in jobs[l],
             Panic(l, j) \/ \E ack \in {"Ok", "Reject"} : Finish(l, j, ack)
      PROVE  StickyInv'
  BY <1>6, <1>7 DEF Panic, Finish
<1>8. ASSUME NEW l \in Listeners, Receive(l) \/ Start(l) \/ EndLoop(l)
      PROVE  StickyInv'
  BY <1>6, <1>8 DEF Receive, Start, EndLoop
<1>9. ASSUME NEW s \in sends, Enqueue(s)
      PROVE  StickyInv'
  BY <1>6, <1>9 DEF Enqueue
<1>10. CASE UNCHANGED vars
  BY <1>6, <1>10 DEF vars
<1>11. QED
  BY <1>1, <1>2, <1>3, <1>4, <1>5, <1>7, <1>8, <1>9, <1>10 DEF Next, Internal

\* A key whose messages all carry it has visited one listener at most.
LEMMA Sticks ==
    ASSUME TypeInv, StickyInv
    PROVE  MessageKeySticks
<1> SUFFICES ASSUME NEW m \in sent, SendKey[m] = NoKey, MessageKey[m] # NoKey,
                    \A n \in Messages : KeyOf(n) = KeyOf(m) => SendKey[n] = NoKey
             PROVE  Cardinality(visited[KeyOf(m)]) <= 1
  BY DEF MessageKeySticks
<1> DEFINE V == visited[KeyOf(m)]
<1>1. KeyOf(m) \in Keys
  BY OptionsAssumption DEF KeyOf, TypeInv
<1>2. \A t, u \in V : t = u
  BY <1>1 DEF StickyInv
<1>3. Cardinality({}) = 0 /\ \A x : Cardinality({x}) = 1
  BY FS_EmptySet, FS_Singleton, Zenon
<1> HIDE DEF V
<1>4. CASE V = {}
  BY <1>3, <1>4 DEF V
<1>5. CASE \E t : t \in V
  <2>1. PICK t : t \in V
    BY <1>5
  <2>2. V = {t}
    BY <1>2, <2>1
  <2>3. QED  BY <1>3, <2>2 DEF V
<1>6. QED  BY <1>4, <1>5

-----------------------------------------------------------------------------
(* First deliveries in order.                                              *)

\* First deliveries of one producer, in the order it sent them.
Ordered(m, n) ==
    m.delivery_count = 0 /\ n.delivery_count = 0 /\ Producer[m.id] = Producer[n.id] => m.id < n.id

\* What a producer has sent is a prefix of its messages; only its own send can
\* carry a message for the first time; it has one such send under way, and
\* what it sent before is older.
SendsInOrder ==
    /\ \A m \in sent : \A n \in Messages : n < m /\ Producer[n] = Producer[m] => n \in sent
    /\ \A s \in sends : s.origin # "producer" => s.msg.delivery_count # 0
    /\ \A s, t \in sends : /\ s.origin = "producer" /\ t.origin = "producer"
                           /\ Producer[s.msg.id] = Producer[t.msg.id]
                           => s = t
    /\ \A s \in sends : \A h \in Held :
          s.origin = "producer" /\ h[1] # "send" => Ordered(h[3], s.msg)

\* The same of one listener: its handlers, its loop and its channel.
InOrder(l) ==
    /\ \A j \in jobs[l], w \in waiting[l] : Ordered(j, w)
    /\ \A i \in DOMAIN queue[l] :
          /\ \A m \in jobs[l] \cup waiting[l] : Ordered(m, queue[l][i])
          /\ \A k \in 1 .. i - 1 : Ordered(queue[l][k], queue[l][i])

\* The property is the order of every listener.
LEMMA OrderIs == FirstDeliveriesInOrder <=> \A l \in Listeners : InOrder(l)
BY DEF FirstDeliveriesInOrder, InOrder, Ordered

OrderInv == SendsInOrder /\ \A l \in Listeners : InOrder(l)

\* A message that leaves the sends, moves on or ends keeps the sends in order.
LEMMA SendsShrink ==
    ASSUME SendsInOrder, UNCHANGED sent, sends' \subseteq sends,
           \A h \in Held' : h[1] # "send" =>
              \/ \E g \in Held : g[1] # "send" /\ g[3] = h[3]
              \/ \A s \in sends' : s.origin = "producer" => Ordered(h[3], s.msg)
    PROVE  SendsInOrder'
<1>1. /\ \A m \in sent' : \A n \in Messages : n < m /\ Producer[n] = Producer[m] => n \in sent'
      /\ \A s \in sends' : s.origin # "producer" => s.msg.delivery_count # 0
      /\ \A s, t \in sends' : /\ s.origin = "producer" /\ t.origin = "producer"
                              /\ Producer[s.msg.id] = Producer[t.msg.id]
                              => s = t
  BY DEF SendsInOrder
<1>2. ASSUME NEW s \in sends', NEW h \in Held', s.origin = "producer", h[1] # "send"
      PROVE  Ordered(h[3], s.msg)
  <2>1. CASE \E g \in Held : g[1] # "send" /\ g[3] = h[3]
    BY <1>2, <2>1 DEF SendsInOrder
  <2>2. QED  BY <1>2, <2>1
<1>3. QED  BY <1>1, <1>2 DEF SendsInOrder

\* pick() takes nothing out of order.
LEMMA PickOrder ==
    ASSUME TypeInv, OrderInv, NEW s \in sends, Pick(s), UNCHANGED sent
    PROVE  OrderInv'
<1> DEFINE g == <<"send", s, s.msg>>
<1>1. s \in SendOp /\ UNCHANGED <<queue, waiting, jobs>>
  BY DEF TypeInv, Pick
<1>2. \A l \in Listeners : InOrder(l)'
  BY <1>1 DEF OrderInv, InOrder
<1>3. CASE sends' = sends \ {s} /\ Held' = Held \ {g}
  BY <1>2, <1>3, SendsShrink DEF OrderInv
<1>4. CASE /\ Live(s.dest) # <<>> /\ sends' = (sends \ {s}) \cup {Chosen(s)}
           /\ Held' = (Held \ {g}) \cup {<<"send", Chosen(s), s.msg>>}
  <2> DEFINE c == Chosen(s)
  <2>1. c.msg = s.msg /\ c.origin = s.origin
    BY <1>1, <1>4, ChosenIs
  <2>2. \A h \in Held' : h[1] # "send" => h \in Held
    BY <1>4
  <2> HIDE DEF c
  <2>3. /\ \A m \in sent' : \A n \in Messages : n < m /\ Producer[n] = Producer[m] => n \in sent'
        /\ \A t \in sends' : t.origin # "producer" => t.msg.delivery_count # 0
    BY <1>4, <2>1 DEF OrderInv, SendsInOrder, c
  <2>4. \A t, u \in sends' : /\ t.origin = "producer" /\ u.origin = "producer"
                             /\ Producer[t.msg.id] = Producer[u.msg.id]
                             => t = u
    BY <1>4, <2>1 DEF OrderInv, SendsInOrder, c
  <2>5. \A t \in sends' : \A h \in Held' : t.origin = "producer" /\ h[1] # "send" => Ordered(h[3], t.msg)
    BY <1>4, <2>1, <2>2 DEF OrderInv, SendsInOrder, c
  <2>6. QED  BY <1>2, <2>3, <2>4, <2>5 DEF OrderInv, SendsInOrder
<1>5. QED  BY <1>1, <1>3, <1>4, PickHeld

\* A producer sends the next of its messages, and has no other send under way.
LEMMA SendOrder ==
    ASSUME TypeInv, OneCopy, OrderInv, NEW m \in Messages, Send(m)
    PROVE  OrderInv'
<1> DEFINE s == FirstSend(m)
<1>1. /\ s \in SendOp /\ s.msg.id = m /\ s.msg.delivery_count = 0 /\ s.origin = "producer"
      /\ m \notin sent /\ sent' = sent \cup {m}
  BY FirstSendIs
<1>2. UNCHANGED <<queue, waiting, jobs>>
  BY DEF Send, Pick
<1>3. \A l \in Listeners : InOrder(l)'
  BY <1>2 DEF OrderInv, InOrder
<1>4. \A n \in sent : Producer[n] = Producer[m] => n < m
  <2> SUFFICES ASSUME NEW n \in sent, Producer[n] = Producer[m], ~(n < m)
               PROVE  FALSE
    OBVIOUS
  <2>1. n \in Nat /\ m \in Nat /\ n # m
    BY <1>1, OptionsAssumption DEF TypeInv
  <2>2. m < n
    BY <2>1
  <2>3. QED  BY <1>1, <2>2 DEF OrderInv, SendsInOrder
<1>5. \A n \in Messages : n < m /\ Producer[n] = Producer[m] =>
         n \in sent /\ \A t \in sends : t.msg.id = n => t.origin # "producer"
  BY DEF Send
<1>6. \A a \in sent' : \A n \in Messages : n < a /\ Producer[n] = Producer[a] => n \in sent'
  BY <1>1, <1>5 DEF OrderInv, SendsInOrder
<1>7. \A h \in Held : Producer[h[3].id] = Producer[m] => h[3].id < m
  BY <1>4 DEF OneCopy
<1>8. \A t \in sends : t.origin = "producer" => Producer[t.msg.id] # Producer[m]
  <2> SUFFICES ASSUME NEW t \in sends, t.origin = "producer", Producer[t.msg.id] = Producer[m]
               PROVE  FALSE
    OBVIOUS
  <2>1. <<"send", t, t.msg>> \in Held
    BY HeldKinds DEF InSends
  <2>2. t.msg.id < m /\ t.msg.id \in Messages
    BY <1>7, <2>1 DEF OneCopy, TypeInv
  <2>3. QED  BY <1>5, <2>2
<1>9. CASE Held' = Held /\ sends' = sends
  BY <1>3, <1>6, <1>9 DEF OrderInv, SendsInOrder
<1>10. CASE /\ Live(s.dest) # <<>> /\ sends' = sends \cup {Chosen(s)}
            /\ Held' = Held \cup {<<"send", Chosen(s), s.msg>>}
  <2> DEFINE c == Chosen(s)
  <2>1. c.msg = s.msg /\ c.origin = "producer" /\ c.msg.id = m
    BY <1>1, <1>10, ChosenIs
  <2>2. \A h \in Held' : h[1] # "send" => h \in Held
    BY <1>10
  <2>3. sends' = sends \cup {c}
    BY <1>10
  <2> HIDE DEF c, s
  <2>4. \A t \in sends' : t.origin # "producer" => t.msg.delivery_count # 0
    BY <2>1, <2>3 DEF OrderInv, SendsInOrder
  <2>5. \A t, u \in sends' : /\ t.origin = "producer" /\ u.origin = "producer"
                             /\ Producer[t.msg.id] = Producer[u.msg.id]
                             => t = u
    BY <1>8, <2>1, <2>3 DEF OrderInv, SendsInOrder
  <2>6. \A h \in Held : Ordered(h[3], c.msg)
    BY <1>7, <2>1 DEF Ordered
  <2>7. \A t \in sends' : \A h \in Held' : t.origin = "producer" /\ h[1] # "send" => Ordered(h[3], t.msg)
    BY <2>2, <2>3, <2>6 DEF OrderInv, SendsInOrder
  <2>8. QED  BY <1>3, <1>6, <2>4, <2>5, <2>7 DEF OrderInv, SendsInOrder
<1>11. QED  BY <1>9, <1>10, SendHeld, Zenon

\* A message joins a channel behind everything its producer sent before.
LEMMA EnqueueOrder ==
    ASSUME TypeInv, OrderInv, NEW s \in sends, Enqueue(s)
    PROVE  OrderInv'
<1> DEFINE l == s.to
           g == <<"send", s, s.msg>>
           h0 == <<"queue", l, s.msg>>
<1>1. /\ s \in SendOp /\ l \in Listeners /\ s.msg \in Message /\ sends' = sends \ {s}
      /\ UNCHANGED <<waiting, jobs, sent>>
  BY EnqueueHeld, Zenon DEF Enqueue
<1>2. CASE /\ Held' = (Held \ {g}) \cup {h0}
           /\ queue' = [queue EXCEPT ![l] = Append(@, s.msg)]
  <2>1. \A t \in sends' : t.origin = "producer" => Ordered(s.msg, t.msg)
    BY <1>1 DEF OrderInv, SendsInOrder, Ordered
  <2>2. \A h \in Held' : h[1] # "send" =>
           \/ \E a \in Held : a[1] # "send" /\ a[3] = h[3]
           \/ \A t \in sends' : t.origin = "producer" => Ordered(h[3], t.msg)
    <3> SUFFICES ASSUME NEW h \in Held', h[1] # "send", ~ \E a \in Held : a[1] # "send" /\ a[3] = h[3]
                 PROVE  \A t \in sends' : t.origin = "producer" => Ordered(h[3], t.msg)
      OBVIOUS
    <3>1. h = h0
      BY <1>2
    <3>2. QED  BY <2>1, <3>1
  <2>3. SendsInOrder'
    BY <1>1, <2>2, SendsShrink DEF OrderInv
  <2>4. \A h \in Held : h[1] # "send" => Ordered(h[3], s.msg)
    BY DEF OrderInv, SendsInOrder, Ordered
  <2>5. \A x \in jobs[l] \cup waiting[l] : Ordered(x, s.msg)
    <3>1. ASSUME NEW x \in jobs[l]
          PROVE  Ordered(x, s.msg)
      <4>1. <<"job", l, x>> \in Held
        BY <1>1, HeldKinds DEF InJobs
      <4>2. QED  BY <2>4, <4>1
    <3>2. ASSUME NEW x \in waiting[l]
          PROVE  Ordered(x, s.msg)
      <4>1. <<"loop", l, x>> \in Held
        BY <1>1, HeldKinds DEF InLoops
      <4>2. QED  BY <2>4, <4>1
    <3>3. QED  BY <3>1, <3>2
  <2>6. \A i \in DOMAIN queue[l] : Ordered(queue[l][i], s.msg)
    <3> SUFFICES ASSUME NEW i \in DOMAIN queue[l]
                 PROVE  Ordered(queue[l][i], s.msg)
      OBVIOUS
    <3>1. <<"queue", l, queue[l][i]>> \in Held
      BY <1>1, HeldKinds DEF InQueues
    <3>2. QED  BY <2>4, <3>1
  <2> HIDE DEF l
  <2>7. queue[l] \in Seq(Message) /\ queue'[l] = Append(queue[l], s.msg)
        /\ \A k \in Listeners \ {l} : queue'[k] = queue[k]
    BY <1>1, <1>2 DEF TypeInv
  <2> DEFINE n == Len(queue[l])
  <2>8. /\ n \in Nat /\ DOMAIN queue[l] = 1 .. n /\ DOMAIN queue'[l] = 1 .. n + 1
        /\ queue'[l][n + 1] = s.msg /\ \A i \in 1 .. n : queue'[l][i] = queue[l][i]
    BY <1>1, <2>7
  <2> HIDE DEF n
  <2>9. \A i \in 1 .. n + 1 : i \in 1 .. n \/ i = n + 1
    BY <2>8
  <2>10. InOrder(l)
    BY <1>1 DEF OrderInv
  <2>11. InOrder(l)'
    <3>1. \A j \in jobs'[l], w \in waiting'[l] : Ordered(j, w)
      BY <1>1, <2>10 DEF InOrder
    <3>2. ASSUME NEW i \in DOMAIN queue'[l]
          PROVE  /\ \A m \in jobs'[l] \cup waiting'[l] : Ordered(m, queue'[l][i])
                 /\ \A k \in 1 .. i - 1 : Ordered(queue'[l][k], queue'[l][i])
      <4>1. CASE i \in 1 .. n
        <5>1. \A k \in 1 .. i - 1 : k \in 1 .. n
          BY <2>8, <4>1
        <5>2. QED  BY <1>1, <2>8, <2>10, <4>1, <5>1 DEF InOrder
      <4>2. CASE i = n + 1
        <5>1. \A k \in 1 .. i - 1 : k \in 1 .. n
          BY <2>8, <4>2
        <5>2. QED  BY <1>1, <2>5, <2>6, <2>8, <4>2, <5>1
      <4>3. QED  BY <2>8, <2>9, <4>1, <4>2, SMTT(30), Zenon
    <3>3. QED  BY <3>1, <3>2 DEF InOrder
  <2>12. \A k \in Listeners : InOrder(k)'
    <3> SUFFICES ASSUME NEW k \in Listeners \ {l}
                 PROVE  InOrder(k)'
      BY <2>11
    <3>1. InOrder(k) /\ queue'[k] = queue[k]
      BY <2>7 DEF OrderInv
    <3>2. QED  BY <1>1, <3>1 DEF InOrder
  <2>13. QED  BY <2>3, <2>12 DEF OrderInv
<1>3. CASE Held' = Held \ {g} /\ queue' = queue
  <2>1. SendsInOrder'
    BY <1>1, <1>3, SendsShrink DEF OrderInv
  <2>2. QED  BY <1>1, <1>3, <2>1 DEF OrderInv, InOrder
<1>4. QED  BY <1>2, <1>3, EnqueueHeld, Zenon

\* The first message of a channel moves on.
LEMMA ReceiveOrder ==
    ASSUME TypeInv, NoRepeats, OrderInv, NEW l \in Listeners, Receive(l)
    PROVE  OrderInv'
<1> DEFINE x == Head(queue[l])
           g == <<"queue", l, x>>
           n == Len(queue[l])
<1>1. /\ g \in Held /\ queue' = [queue EXCEPT ![l] = Tail(@)] /\ queue[l] # <<>> /\ waiting[l] = {}
      /\ UNCHANGED <<sends, sent>>
  BY ReceiveHeld, Zenon DEF Receive
<1>2. PICK c \in {"job", "loop"} : Held' = (Held \ {g}) \cup {<<c, l, x>>}
  BY ReceiveHeld, Zenon
<1>3. SendsInOrder'
  <2>1. ASSUME NEW h \in Held'
        PROVE  h[1] # "send" => \E a \in Held : a[1] # "send" /\ a[3] = h[3]
    <3>1. CASE h \in Held
      BY <3>1
    <3>2. CASE h = <<c, l, x>>
      <4>1. g[1] # "send" /\ g[3] = h[3]
        BY <3>2
      <4>2. QED  BY <1>1, <4>1
    <3>3. QED  BY <1>2, <3>1, <3>2
  <2>2. QED  BY <1>1, <2>1, SendsShrink DEF OrderInv
<1>4. queue[l] \in Seq(Message) /\ queue[l] # <<>> /\ queue'[l] = Tail(queue[l])
      /\ \A k \in Listeners \ {l} : queue'[k] = queue[k]
  BY <1>1 DEF TypeInv
<1>5. /\ n \in Nat \ {0} /\ DOMAIN queue[l] = 1 .. n /\ x = queue[l][1] /\ DOMAIN queue'[l] = 1 .. n - 1
      /\ \A i \in 1 .. n - 1 : queue'[l][i] = queue[l][i + 1]
  BY <1>4
<1>6. /\ \A k \in Listeners \ {l} : jobs'[k] = jobs[k] /\ waiting'[k] = waiting[k]
      /\ \/ jobs[l] = {} /\ jobs'[l] = {x} /\ waiting'[l] = {}
         \/ jobs'[l] = jobs[l] /\ waiting'[l] = {x}
  <2>1. CASE Started(l, x) /\ jobs[l] = {} /\ UNCHANGED waiting
    BY <1>1, <2>1, SMTT(30), Zenon DEF Started, TypeInv
  <2>2. CASE waiting' = [waiting EXCEPT ![l] = {x}] /\ UNCHANGED jobs
    BY <1>1, <2>2 DEF TypeInv
  <2>3. QED  BY <2>1, <2>2, ReceiveHeld, Zenon
<1> HIDE DEF x, n, g
<1>7. InOrder(l)
  BY DEF OrderInv
<1>8. \A i \in 1 .. n - 1 : /\ i + 1 \in 1 .. n /\ 1 \in 1 .. (i + 1) - 1
                            /\ \A k \in 1 .. i - 1 : k + 1 \in 1 .. (i + 1) - 1 /\ k \in 1 .. n - 1
  BY <1>5
<1>9. 1 \in 1 .. n
  BY <1>5
<1>10. InOrder(l)'
  <2>1. \A j \in jobs'[l], w \in waiting'[l] : Ordered(j, w)
    BY <1>5, <1>6, <1>7, <1>9, SMTT(30), Zenon DEF InOrder
  <2>2. ASSUME NEW i \in 1 .. n - 1
        PROVE  /\ \A m \in jobs'[l] \cup waiting'[l] : Ordered(m, queue'[l][i])
               /\ \A k \in 1 .. i - 1 : Ordered(queue'[l][k], queue'[l][i])
    <3>1. Ordered(x, queue[l][i + 1]) /\ \A m \in jobs[l] : Ordered(m, queue[l][i + 1])
      BY <1>5, <1>7, <1>8, SMTT(30), Zenon DEF InOrder
    <3>2. \A k \in 1 .. i - 1 : Ordered(queue[l][k + 1], queue[l][i + 1])
      BY <1>5, <1>7, <1>8, Zenon DEF InOrder
    <3>3. \A k \in 1 .. i - 1 : queue'[l][k] = queue[l][k + 1]
      BY <1>5, <1>8
    <3>4. QED  BY <1>5, <1>6, <3>1, <3>2, <3>3, SMTT(30), Zenon
  <2>3. QED  BY <1>5, <2>1, <2>2 DEF InOrder
<1>11. \A k \in Listeners : InOrder(k)'
  <2> SUFFICES ASSUME NEW k \in Listeners \ {l}
               PROVE  InOrder(k)'
    BY <1>10
  <2>1. InOrder(k) /\ queue'[k] = queue[k] /\ jobs'[k] = jobs[k] /\ waiting'[k] = waiting[k]
    BY <1>4, <1>6 DEF OrderInv
  <2>2. QED  BY <2>1 DEF InOrder
<1>12. QED  BY <1>3, <1>11 DEF OrderInv

\* The message of the consumer loop moves on.
LEMMA StartOrder ==
    ASSUME TypeInv, OrderInv, NEW l \in Listeners, Start(l)
    PROVE  OrderInv'
<1>1. PICK x \in Message :
         /\ waiting[l] = {x} /\ waiting' = [waiting EXCEPT ![l] = {}] /\ Started(l, x)
         /\ <<"loop", l, x>> \in Held
         /\ Held' = (Held \ {<<"loop", l, x>>}) \cup {<<"job", l, x>>}
  BY StartHeld
<1>2. UNCHANGED <<queue, sends, sent>>
  BY DEF Start
<1>3. SendsInOrder'
  <2> DEFINE g == <<"loop", l, x>>
  <2>1. ASSUME NEW h \in Held'
        PROVE  h[1] # "send" => \E a \in Held : a[1] # "send" /\ a[3] = h[3]
    <3>1. CASE h \in Held
      BY <3>1
    <3>2. CASE h = <<"job", l, x>>
      <4>1. g[1] # "send" /\ g[3] = h[3]
        BY <3>2, SMTT(30), Zenon
      <4>2. QED  BY <1>1, <4>1
    <3>3. QED  BY <1>1, <3>1, <3>2
  <2>2. QED  BY <1>2, <2>1, SendsShrink DEF OrderInv
<1>4. /\ waiting'[l] = {} /\ jobs'[l] = jobs[l] \cup {x}
      /\ \A k \in Listeners \ {l} : waiting'[k] = waiting[k] /\ jobs'[k] = jobs[k]
  BY <1>1, SMTT(30), Zenon DEF Started, TypeInv
<1>5. \A k \in Listeners : InOrder(k)'
  <2> SUFFICES ASSUME NEW k \in Listeners
               PROVE  InOrder(k)'
    BY SMTT(30), Zenon
  <2>1. jobs'[k] \cup waiting'[k] = jobs[k] \cup waiting[k] /\ (k = l \/ jobs'[k] = jobs[k])
    BY <1>1, <1>4
  <2>2. InOrder(k) /\ queue'[k] = queue[k]
    BY <1>2 DEF OrderInv
  <2>3. \A j \in jobs'[k], w \in waiting'[k] : Ordered(j, w)
    BY <1>4, <2>2 DEF InOrder
  <2>4. QED  BY <2>1, <2>2, <2>3 DEF InOrder
<1>6. QED  BY <1>3, <1>5 DEF OrderInv

\* A handler that is done takes nothing out of order, nor does a channel that
\* is dropped.
LEMMA JobsShrink ==
    ASSUME TypeInv, OrderInv, UNCHANGED waiting,
           \A k \in Listeners : jobs'[k] \subseteq jobs[k],
           \A k \in Listeners : queue'[k] = queue[k] \/ DOMAIN queue'[k] = {}
    PROVE  \A k \in Listeners : InOrder(k)'
<1> SUFFICES ASSUME NEW k \in Listeners
             PROVE  InOrder(k)'
  OBVIOUS
<1>1. InOrder(k)
  BY DEF OrderInv
<1>2. QED  BY <1>1 DEF InOrder

\* Every step keeps first deliveries in order.
LEMMA OrderStep ==
    ASSUME TypeInv, OneCopy, NoRepeats, OrderInv, [Next]_vars
    PROVE  OrderInv'
<1>1. ASSUME NEW m \in Messages, Send(m)
      PROVE  OrderInv'
  BY <1>1, SendOrder
<1>2. ASSUME NEW s \in sends, Resend(s)
      PROVE  OrderInv'
  BY <1>2, PickOrder DEF Resend
<1>3. ASSUME NEW s \in sends, Enqueue(s)
      PROVE  OrderInv'
  BY <1>3, EnqueueOrder
<1>4. ASSUME NEW l \in Listeners, Receive(l)
      PROVE  OrderInv'
  BY <1>4, ReceiveOrder
<1>5. ASSUME NEW l \in Listeners, Start(l)
      PROVE  OrderInv'
  BY <1>5, StartOrder
<1>6. ASSUME NEW l \in Listeners, NEW j \in jobs[l], jobs' = [jobs EXCEPT ![l] = @ \ {j}]
      PROVE  \A k \in Listeners : jobs'[k] \subseteq jobs[k]
  BY <1>6, SMTT(30), Zenon DEF TypeInv
<1>7. ASSUME NEW l \in Listeners, NEW j \in jobs[l], NEW ack \in {"Ok", "Reject"}, Finish(l, j, ack)
      PROVE  OrderInv'
  <2>1. jobs' = [jobs EXCEPT ![l] = @ \ {j}] /\ UNCHANGED <<queue, waiting, sends, sent>>
    BY <1>7 DEF Finish
  <2>2. Held' = Held \ {<<"job", l, j>>}
    BY <1>7, <2>1, JobEndsHeld, Zenon
  <2>3. SendsInOrder'
    BY <2>1, <2>2, SendsShrink DEF OrderInv
  <2>4. \A k \in Listeners : jobs'[k] \subseteq jobs[k]
    BY <1>6, <1>7, <2>1
  <2>5. \A k \in Listeners : InOrder(k)'
    BY <2>1, <2>4, JobsShrink
  <2>6. QED  BY <2>3, <2>5 DEF OrderInv
<1>8. ASSUME NEW l \in Listeners, NEW j \in jobs[l], Retry(l, j)
      PROVE  OrderInv'
  <2> DEFINE m == Again(j)
             g == <<"job", l, j>>
  <2>1. jobs' = [jobs EXCEPT ![l] = @ \ {j}] /\ UNCHANGED <<queue, waiting, sent>>
    BY <1>8 DEF Retry
  <2>2. \A k \in Listeners : jobs'[k] \subseteq jobs[k]
    BY <1>6, <1>8, <2>1
  <2>3. \A k \in Listeners : InOrder(k)'
    BY <2>1, <2>2, JobsShrink
  <2>4. j \in Message
    BY <1>8 DEF TypeInv
  <2>5. m.delivery_count # 0
    BY <2>4, Bump, SMTT(30), Zenon DEF Message, Again
  <2> HIDE DEF m
  <2>6. \A d : /\ GuaranteedSend(m, d, TRUE).origin # "producer" /\ GuaranteedSend(m, d, TRUE).msg = m
              /\ GuaranteedSend(m, d, FALSE).origin # "producer" /\ GuaranteedSend(m, d, FALSE).msg = m
    BY Zenon DEF GuaranteedSend
  <2>7. CASE sends' = sends /\ Held' = Held \ {g}
    <3>1. SendsInOrder'
      BY <2>1, <2>7, SendsShrink, SMTT(30), Zenon DEF OrderInv
    <3>2. QED  BY <2>3, <3>1 DEF OrderInv
  <2>8. ASSUME NEW t, t.origin # "producer", t.msg = m, sends' = sends \cup {t},
               Held' = (Held \ {g}) \cup {<<"send", t, m>>}
        PROVE  OrderInv'
    <3>1. \A h \in Held' : h[1] # "send" => h \in Held
      BY <2>8, SMTT(30), Zenon
    <3>2. /\ \A a \in sent' : \A n \in Messages : n < a /\ Producer[n] = Producer[a] => n \in sent'
          /\ \A s \in sends' : s.origin # "producer" => s.msg.delivery_count # 0
      BY <2>1, <2>5, <2>8, SMTT(30), Zenon DEF OrderInv, SendsInOrder
    <3>3. \A s, u \in sends' : /\ s.origin = "producer" /\ u.origin = "producer"
                               /\ Producer[s.msg.id] = Producer[u.msg.id]
                               => s = u
      BY <2>8 DEF OrderInv, SendsInOrder
    <3>4. \A s \in sends' : \A h \in Held' : s.origin = "producer" /\ h[1] # "send" => Ordered(h[3], s.msg)
      BY <2>8, <3>1 DEF OrderInv, SendsInOrder
    <3>5. QED  BY <2>3, <3>2, <3>3, <3>4 DEF OrderInv, SendsInOrder
  <2> HIDE DEF g
  <2>9. \/ \E t \in SendOp : /\ \/ t = GuaranteedSend(m, Dest[l], FALSE)
                                \/ t = GuaranteedSend(m, Opts[l].dead_letter, TRUE)
                             /\ sends' = sends \cup {t} /\ Held' = (Held \ {g}) \cup {<<"send", t, m>>}
        \/ sends' = sends /\ Held' = Held \ {g}
    BY <1>8, RetryHeld, Zenon DEF m, g
  <2>10. QED  BY <2>6, <2>7, <2>8, <2>9, Zenon
<1>9. ASSUME NEW l \in Listeners, NEW j \in jobs[l], Panic(l, j)
      PROVE  OrderInv'
  <2>1. jobs' = [jobs EXCEPT ![l] = @ \ {j}] /\ UNCHANGED <<waiting, sends, sent>>
    BY <1>9 DEF Panic
  <2>2. queue' = [queue EXCEPT ![l] = <<>>] \/ queue' = queue
    BY <1>9, SMTT(30), Zenon DEF Panic
  <2>3. \A k \in Listeners : queue'[k] = queue[k] \/ DOMAIN queue'[k] = {}
    BY <2>2, SMTT(30), Zenon DEF TypeInv
  <2>4. \A k \in Listeners : jobs'[k] \subseteq jobs[k]
    BY <1>6, <1>9, <2>1
  <2>5. \A k \in Listeners : InOrder(k)'
    BY <2>1, <2>3, <2>4, JobsShrink
  <2>6. Held' \subseteq Held
    BY <1>9, PanicHeld, Zenon
  <2>7. SendsInOrder'
    BY <2>1, <2>6, SendsShrink DEF OrderInv
  <2>8. QED  BY <2>5, <2>7 DEF OrderInv
<1>10. ASSUME UNCHANGED <<queue, waiting, jobs, sends, sent>>
       PROVE  OrderInv'
  <2>1. Held' = Held
    BY <1>10 DEF Held
  <2>2. SendsInOrder'
    BY <1>10, <2>1, SMTT(30), Zenon DEF OrderInv, SendsInOrder
  <2>3. \A k \in Listeners : InOrder(k)'
    BY <1>10 DEF OrderInv, InOrder
  <2>4. QED  BY <2>2, <2>3 DEF OrderInv
<1>11. ASSUME NEW l \in Listeners, AddListener(l) \/ EndLoop(l)
       PROVE  OrderInv'
  BY <1>10, <1>11 DEF AddListener, EndLoop
<1>12. ASSUME Stop
       PROVE  OrderInv'
  BY <1>10, <1>12 DEF Stop
<1>13. CASE UNCHANGED vars
  BY <1>10, <1>13 DEF vars
<1>14. QED
  BY <1>1, <1>2, <1>3, <1>4, <1>5, <1>7, <1>8, <1>9, <1>11, <1>12, <1>13 DEF Next, Internal

-----------------------------------------------------------------------------
(* Delivery attempts, and the theorems.                                    *)

\* The destination that a copy is for.
Bound(h) == IF h[1] = "send" THEN h[2].dest ELSE Dest[h[2]]

\* delivery_count tells how often handlers of the target had the message
\* before, and more attempts are left while it is on its way to them.
Counted(h) ==
    /\ starts[h[3].id] = h[3].delivery_count + (IF h[1] = "job" THEN 1 ELSE 0)
    /\ \/ h[3].delivery_count = 0
       \/ \A l \in Listeners : Dest[l] = Target =>
             h[3].delivery_count < Opts[l].max_delivery_attempts

AttemptInv ==
    /\ \A m \in Messages : m \notin sent => starts[m] = 0
    /\ \A h \in Held : Bound(h) = Target => Counted(h)

\* Every copy is a message.
LEMMA HeldMessages ==
    ASSUME TypeInv, NEW h \in Held
    PROVE  h[3] \in Message /\ h[3].id \in Messages /\ h[3].delivery_count \in Nat
<1>1. h[3] \in Message
  <2>1. CASE InSends(sends, h)
    BY <2>1 DEF InSends, TypeInv, SendOp
  <2>2. CASE InQueues(queue, h)
    BY <2>2 DEF InQueues, TypeInv
  <2>3. CASE InLoops(waiting, h)
    BY <2>3 DEF InLoops, TypeInv
  <2>4. CASE InJobs(jobs, h)
    BY <2>4 DEF InJobs, TypeInv
  <2>5. QED  BY <2>1, <2>2, <2>3, <2>4, HeldKinds, SMTT(30), Zenon
<1>2. QED  BY <1>1 DEF Message

\* A copy that moves without a handler call, on the way to one destination.
LEMMA MovesCounted ==
    ASSUME AttemptInv, NEW G, NEW h, UNCHANGED <<starts, sent>>, Held' = (Held \ G) \cup {h},
           Bound(h) = Target => Counted(h)
    PROVE  AttemptInv'
BY DEF AttemptInv, Counted

\* Copies that end.
LEMMA EndsCounted ==
    ASSUME AttemptInv, UNCHANGED <<starts, sent>>, Held' \subseteq Held
    PROVE  AttemptInv'
BY DEF AttemptInv, Counted

\* A handler call counts one more attempt of its message alone.
LEMMA StartCounted ==
    ASSUME TypeInv, OneCopy, AttemptInv, NEW l \in Listeners, NEW x \in Message,
           NEW c \in {"queue", "loop"}, <<c, l, x>> \in Held, Started(l, x), UNCHANGED sent,
           Held' = (Held \ {<<c, l, x>>}) \cup {<<"job", l, x>>}
    PROVE  AttemptInv'
<1> DEFINE g == <<c, l, x>>
           h == <<"job", l, x>>
<1>1. x.id \in sent /\ x.id \in Messages
  BY DEF OneCopy, Message
<1>2. \A a \in Held' : a = h \/ (a \in Held /\ a[3].id # x.id)
  <2> SUFFICES ASSUME NEW a \in Held', a # h
               PROVE  a \in Held /\ a[3].id # x.id
    OBVIOUS
  <2>1. a \in Held /\ a # g
    OBVIOUS
  <2>2. a[3].id # g[3].id
    BY <2>1, SMTT(30), Zenon DEF OneCopy
  <2>3. QED  BY <2>1, <2>2
<1>3. /\ \A m \in Messages : m # x.id => starts'[m] = starts[m]
      /\ Dest[l] = Target => starts'[x.id] = starts[x.id] + 1
  BY <1>1, SMTT(30), Zenon DEF Started, TypeInv
<1>4. \A m \in Messages : m \notin sent' => starts'[m] = 0
  BY <1>1, <1>3, SMTT(30), Zenon DEF AttemptInv
<1>5. Bound(h) = Target => Counted(h)'
  <2> SUFFICES ASSUME Dest[l] = Target
               PROVE  Counted(h)'
    BY DEF Bound
  <2>1. Bound(g) = Target
    BY DEF Bound
  <2>2. Counted(g)
    BY <2>1 DEF AttemptInv
  <2>3. starts[x.id] = x.delivery_count /\ x.delivery_count \in Nat
    BY <2>2 DEF Counted, Message
  <2>4. \/ x.delivery_count = 0
        \/ \A k \in Listeners : Dest[k] = Target => x.delivery_count < Opts[k].max_delivery_attempts
    BY <2>2 DEF Counted
  <2>5. QED  BY <1>3, <2>3, <2>4, SMTT(30), Zenon DEF Counted
<1>6. ASSUME NEW a \in Held', Bound(a) = Target
      PROVE  Counted(a)'
  <2>1. CASE a = h
    BY <1>5, <1>6, <2>1, SMTT(30), Zenon
  <2>2. CASE a \in Held /\ a[3].id # x.id
    <3>1. Counted(a) /\ a[3].id \in Messages
      BY <1>6, <2>2, HeldMessages DEF AttemptInv
    <3>2. starts'[a[3].id] = starts[a[3].id]
      BY <1>3, <2>2, <3>1, SMTT(30), Zenon
    <3>3. QED  BY <3>1, <3>2 DEF Counted
  <2>3. QED  BY <1>2, <2>1, <2>2
<1>7. QED  BY <1>4, <1>6 DEF AttemptInv

\* Every step counts attempts as the handlers see them.
LEMMA AttemptStep ==
    ASSUME UniformTarget, TypeInv, OneCopy, NoRepeats, RouteInv, AttemptInv, [Next]_vars
    PROVE  AttemptInv'
<1>1. ASSUME NEW m \in Messages, Send(m)
      PROVE  AttemptInv'
  <2> DEFINE s == FirstSend(m)
             c == Chosen(s)
             h == <<"send", c, s.msg>>
  <2>1. /\ s \in SendOp /\ s.msg.id = m /\ s.msg.delivery_count = 0
        /\ m \notin sent /\ sent' = sent \cup {m} /\ UNCHANGED starts
    BY <1>1, FirstSendIs, Zenon DEF Send, Pick
  <2>2. \A n \in Messages : n \notin sent' => starts'[n] = 0
    BY <2>1 DEF AttemptInv
  <2>3. ASSUME NEW a, a = h
        PROVE  Counted(a)'
    <3>1. a[1] # "job" /\ a[3].id = m /\ a[3].delivery_count = 0
      BY <2>1, <2>3
    <3>2. QED  BY <2>1, <3>1 DEF Counted, AttemptInv
  <2>4. Held' \subseteq Held \cup {h}
    BY <1>1, SendHeld, Zenon
  <2>5. \A a \in Held : Bound(a) = Target => Counted(a)'
    BY <2>1 DEF AttemptInv, Counted
  <2> HIDE DEF h
  <2>6. ASSUME NEW a \in Held', Bound(a) = Target
        PROVE  Counted(a)'
    <3>1. CASE a = h
      BY <2>3, <3>1
    <3>2. CASE a \in Held
      BY <2>5, <2>6, <3>2
    <3>3. QED  BY <2>4, <3>1, <3>2
  <2>7. QED  BY <2>2, <2>6 DEF AttemptInv
<1>2. ASSUME NEW s \in sends, Resend(s)
      PROVE  AttemptInv'
  <2> DEFINE g == <<"send", s, s.msg>>
  <2>1. s \in SendOp /\ Pick(s) /\ UNCHANGED <<sent, starts>>
    BY <1>2 DEF Resend, Pick, TypeInv
  <2>2. g \in Held
    BY HeldKinds DEF InSends
  <2>3. CASE Held' = Held \ {g}
    BY <2>1, <2>3, EndsCounted
  <2>4. CASE Live(s.dest) # <<>> /\ Held' = (Held \ {g}) \cup {<<"send", Chosen(s), s.msg>>}
    <3> DEFINE h == <<"send", Chosen(s), s.msg>>
    <3>1. Chosen(s).dest = s.dest
      BY <2>1, <2>4, ChosenIs
    <3>2. Bound(h) = Bound(g)
      BY <3>1 DEF Bound
    <3>3. Counted(g) <=> Counted(h)
      BY DEF Counted
    <3>4. Bound(h) = Target => Counted(h)
      BY <2>2, <3>2, <3>3, Zenon DEF AttemptInv
    <3> HIDE DEF g, h
    <3>5. QED  BY <2>1, <2>4, <3>4, MovesCounted, Zenon DEF h
  <2>5. QED  BY <2>1, <2>3, <2>4, PickHeld
<1>3. ASSUME NEW s \in sends, Enqueue(s)
      PROVE  AttemptInv'
  <2> DEFINE g == <<"send", s, s.msg>>
             h == <<"queue", s.to, s.msg>>
  <2>1. g \in Held /\ UNCHANGED <<sent, starts>> /\ s.to # NoListener
    BY <1>3, EnqueueHeld, Zenon DEF Enqueue
  <2>2. Bound(h) = Bound(g)
    BY <2>1 DEF Bound, RouteInv
  <2>3. Counted(g) <=> Counted(h)
    BY DEF Counted
  <2>4. Bound(h) = Target => Counted(h)
    BY <2>1, <2>2, <2>3, Zenon DEF AttemptInv
  <2>5. Held' = (Held \ {g}) \cup {h} \/ Held' = Held \ {g}
    BY <1>3, EnqueueHeld, Zenon
  <2> HIDE DEF g, h
  <2>6. QED  BY <2>1, <2>4, <2>5, MovesCounted, EndsCounted, Zenon
<1>4. ASSUME NEW l \in Listeners, Receive(l)
      PROVE  AttemptInv'
  <2> DEFINE x == Head(queue[l])
             g == <<"queue", l, x>>
             h == <<"loop", l, x>>
  <2>1. g \in Held /\ x \in Message /\ UNCHANGED sent
    BY <1>4, ReceiveHeld, Zenon DEF Receive
  <2> HIDE DEF x
  <2>2. CASE Held' = (Held \ {g}) \cup {<<"job", l, x>>} /\ Started(l, x)
    BY <2>1, <2>2, StartCounted, Zenon
  <2>3. CASE Held' = (Held \ {g}) \cup {h} /\ UNCHANGED starts
    <3>1. Bound(h) = Bound(g)
      BY DEF Bound
    <3>2. Counted(g) <=> Counted(h)
      BY DEF Counted
    <3>3. Bound(h) = Target => Counted(h)
      BY <2>1, <3>1, <3>2, Zenon DEF AttemptInv
    <3> HIDE DEF g, h
    <3>4. QED  BY <2>1, <2>3, <3>3, MovesCounted, Zenon
  <2>4. QED  BY <1>4, <2>2, <2>3, ReceiveHeld, Zenon DEF x
<1>5. ASSUME NEW l \in Listeners, Start(l)
      PROVE  AttemptInv'
  <2>1. PICK x \in Message :
           /\ Started(l, x) /\ <<"loop", l, x>> \in Held
           /\ Held' = (Held \ {<<"loop", l, x>>}) \cup {<<"job", l, x>>}
    BY <1>5, StartHeld, Zenon
  <2>2. UNCHANGED sent
    BY <1>5 DEF Start
  <2>3. QED  BY <2>1, <2>2, StartCounted, Zenon
<1>6. ASSUME NEW l \in Listeners, NEW j \in jobs[l], NEW ack \in {"Ok", "Reject"}, Finish(l, j, ack)
      PROVE  AttemptInv'
  BY <1>6, JobEndsHeld, EndsCounted, Zenon DEF Finish
<1>7. ASSUME NEW l \in Listeners, NEW j \in jobs[l], Retry(l, j)
      PROVE  AttemptInv'
  <2> DEFINE m == Again(j)
             g == <<"job", l, j>>
  <2>1. g \in Held /\ j \in Message /\ UNCHANGED <<sent, starts>>
    BY <1>7, RetryHeld, Zenon DEF Retry, TypeInv
  <2>2. m.id = j.id /\ m.delivery_count = j.delivery_count + 1 /\ j.delivery_count \in Nat
    BY <2>1, Bump DEF Again, Message
  <2> HIDE DEF m
  <2>3. CASE Held' = Held \ {g}
    BY <2>1, <2>3, EndsCounted
  <2>4. ASSUME NEW t, t.dest = Dest[l], WillRequeue(l, m), Held' = (Held \ {g}) \cup {<<"send", t, m>>}
        PROVE  AttemptInv'
    <3> DEFINE h == <<"send", t, m>>
    <3>1. ASSUME Bound(h) = Target
          PROVE  Counted(h)
      <4>1. Dest[l] = Target
        BY <2>4, <3>1 DEF Bound
      <4>2. Bound(g) = Target
        BY <4>1 DEF Bound
      <4>3. Counted(g)
        BY <2>1, <4>2 DEF AttemptInv
      <4>4. starts[m.id] = m.delivery_count
        BY <2>2, <4>3 DEF Counted
      <4>5. m.delivery_count < Opts[l].max_delivery_attempts
        BY <2>4 DEF WillRequeue
      <4>6. \A k \in Listeners : Dest[k] = Target => m.delivery_count < Opts[k].max_delivery_attempts
        BY <4>1, <4>5 DEF UniformTarget
      <4>7. QED  BY <2>2, <4>4, <4>6 DEF Counted
    <3> HIDE DEF g, h
    <3>2. QED  BY <2>1, <2>4, <3>1, MovesCounted, Zenon DEF h
  <2>5. ASSUME NEW t, t.dest # Target, Held' = (Held \ {g}) \cup {<<"send", t, m>>}
        PROVE  AttemptInv'
    <3> DEFINE h == <<"send", t, m>>
    <3>1. Bound(h) # Target
      BY <2>5, SMTT(30), Zenon DEF Bound
    <3> HIDE DEF g, h
    <3>2. QED  BY <2>1, <2>5, <3>1, MovesCounted, Zenon DEF h
  <2>6. /\ GuaranteedSend(m, Dest[l], FALSE).dest = Dest[l]
        /\ GuaranteedSend(m, Opts[l].dead_letter, TRUE).dest # Target
    BY DEF GuaranteedSend, UniformTarget
  <2> HIDE DEF g
  <2>7. \/ \E t \in SendOp : /\ \/ t = GuaranteedSend(m, Dest[l], FALSE) /\ WillRequeue(l, m)
                                \/ t = GuaranteedSend(m, Opts[l].dead_letter, TRUE)
                             /\ Held' = (Held \ {g}) \cup {<<"send", t, m>>}
        \/ Held' = Held \ {g}
    BY <1>7, RetryHeld, Zenon DEF m, g
  <2>8. QED  BY <2>3, <2>4, <2>5, <2>6, <2>7, Zenon
<1>8. ASSUME NEW l \in Listeners, NEW j \in jobs[l], Panic(l, j)
      PROVE  AttemptInv'
  <2>1. Held' \subseteq Held /\ UNCHANGED <<starts, sent>>
    BY <1>8, PanicHeld, Zenon DEF Panic
  <2>2. QED  BY <2>1, EndsCounted
<1>9. ASSUME UNCHANGED <<queue, waiting, jobs, sends, sent, starts>>
      PROVE  AttemptInv'
  <2>1. Held' = Held
    BY <1>9, SMTT(30), Zenon DEF Held
  <2>2. QED  BY <1>9, <2>1, EndsCounted
<1>10. ASSUME NEW l \in Listeners, AddListener(l) \/ EndLoop(l)
       PROVE  AttemptInv'
  BY <1>9, <1>10, SMTT(30), Zenon DEF AddListener, EndLoop
<1>11. ASSUME Stop
       PROVE  AttemptInv'
  BY <1>9, <1>11 DEF Stop
<1>12. CASE UNCHANGED vars
  BY <1>9, <1>12 DEF vars
<1>13. QED
  BY <1>1, <1>2, <1>3, <1>4, <1>5, <1>6, <1>7, <1>8, <1>10, <1>11, <1>12, Zenon DEF Next, Internal

\* What is counted is what handlers see.
LEMMA WithinMax ==
    ASSUME TypeInv, AttemptInv
    PROVE  AttemptsWithinMax
<1> SUFFICES ASSUME NEW l \in Listeners, Dest[l] = Target, NEW j \in jobs[l]
             PROVE  /\ starts[j.id] = j.delivery_count + 1
                    /\ j.delivery_count = 0 \/ starts[j.id] <= Opts[l].max_delivery_attempts
  BY DEF AttemptsWithinMax
<1> DEFINE h == <<"job", l, j>>
<1>1. h \in Held
  BY HeldKinds DEF InJobs
<1>2. Bound(h) = Target
  BY DEF Bound
<1>3. Counted(h)
  BY <1>1, <1>2, SMTT(30), Zenon DEF AttemptInv
<1>4. j.delivery_count \in Nat /\ Opts[l].max_delivery_attempts \in Nat
  BY OptionsAssumption DEF TypeInv, Message
<1>5. QED  BY <1>3, <1>4 DEF Counted

\* What holds of every delivery, beyond its one copy.
DeliveryInv == RouteInv /\ StickyInv /\ OrderInv

\* It holds at first and is kept by every step.
LEMMA DeliveryInductive == Spec => [](CopiesInv /\ DeliveryInv)
<1>1. Init => DeliveryInv
  <2> SUFFICES ASSUME Init PROVE DeliveryInv
    BY SMTT(30), Zenon
  <2>1. RouteInv /\ StickyInv
    BY OptionsAssumption, SMTT(30), Zenon DEF Init, RouteInv, StickyInv
  <2>2. SendsInOrder
    BY DEF Init, SendsInOrder
  <2>3. \A l \in Listeners : DOMAIN queue[l] = {} /\ waiting[l] = {} /\ jobs[l] = {}
    BY DEF Init
  <2>4. \A l \in Listeners : InOrder(l)
    BY <2>3 DEF InOrder
  <2>5. QED  BY <2>1, <2>2, <2>4 DEF DeliveryInv, OrderInv
<1>2. CopiesInv /\ DeliveryInv /\ [Next]_vars => DeliveryInv'
  BY RouteStep, StickyStep, OrderStep DEF CopiesInv, DeliveryInv
<1>3. QED  BY <1>1, <1>2, CopiesInductive, PTL DEF Spec

\* Every listener starts first deliveries of a producer in the order of its
\* sends, whatever redeliveries, blocked sends and panics come in between, and
\* Message::routing_key keeps its listener while the list stays as it is
\* (send, pick, consumer_loop).
THEOREM DeliveredInOrder == Spec => [](FirstDeliveriesInOrder /\ MessageKeySticks)
<1>1. CopiesInv /\ DeliveryInv => FirstDeliveriesInOrder /\ MessageKeySticks
  BY OrderIs, Sticks DEF CopiesInv, DeliveryInv, OrderInv
<1>2. QED  BY <1>1, DeliveryInductive, PTL

\* All that a delivery promises.  With listeners of the target that agree on
\* max_delivery_attempts, and no dead letters sent there, handlers see a message
\* no more often than that, and delivery_count tells them how often before:
\* process() compares the count with the maximum of the listener that asked
\* for the retry, while pick() may give the redelivery to any other one.
THEOREM Delivered == ASSUME UniformTarget PROVE Spec => []DeliveredAsAsked
<1>1. Init => AttemptInv
  <2> SUFFICES ASSUME Init PROVE AttemptInv
    OBVIOUS
  <2>1. sends = {} /\ \A l \in Listeners : DOMAIN queue[l] = {} /\ waiting[l] = {} /\ jobs[l] = {}
    BY DEF Init
  <2>2. \A h : h \notin Held
    BY <2>1, HeldKinds DEF InSends, InQueues, InLoops, InJobs
  <2>3. QED  BY <2>2 DEF Init, AttemptInv
<1>2. CopiesInv /\ DeliveryInv /\ AttemptInv /\ [Next]_vars => AttemptInv'
  BY AttemptStep DEF CopiesInv, DeliveryInv
<1>3. CopiesInv /\ DeliveryInv /\ AttemptInv => AttemptsWithinMax
  BY WithinMax DEF CopiesInv
<1>4. Spec => []AttemptsWithinMax
  BY <1>1, <1>2, <1>3, DeliveryInductive, PTL DEF Spec
<1>5. QED
  BY <1>4, MessagesConserved, DeliveredInOrder, PTL DEF DeliveredAsAsked
=============================================================================
