------------------------------ MODULE WebSocket -----------------------------
(* One WebSocket connection in detail, and the server of many in outline.     *)
EXTENDS Naturals, Sequences, SequencesExt, FiniteSets

(***************************************************************************)
(* One WebSocket connection at a ferroly endpoint: the opening handshake,   *)
(* the reader task (read_frame, read_loop), the writer task (write_loop)    *)
(* and the task that uses them, the server's serve_conn or the owner of a   *)
(* WsClient.  The peer is any RFC 6455 peer.  A frame's payload is its size *)
(* and the message it belongs to; masking keys and opcode bits are left out.*)
(***************************************************************************)

CONSTANTS MaxFrame,      \* WsOptions::max_frame_size
          MaxMessage,    \* WsOptions::max_message_size
          Sizes,         \* payload sizes the peer uses
          MaxMessages,   \* bound: messages the peer starts
          MaxSends,      \* bound: messages a client's owner sends
          MaxInFlight    \* bound: frames of the peer not yet read

ASSUME WsAssumption ==
  /\ MaxFrame \in Nat /\ MaxMessage \in Nat /\ Sizes \subseteq Nat
  /\ MaxMessages \in Nat /\ MaxSends \in Nat /\ MaxInFlight \in Nat

VARIABLES
  role,       \* "server" or "client": which task owns the connection
  wire,       \* frames from the peer, not yet read
  leftover,   \* frames the handshake's BufReader had read ahead
  reader,     \* "handshake", "running" or "ended"
  frag,       \* read_loop's frag: the message being reassembled, or NoFrag
  inq,        \* the unbounded channel of incoming messages
  outq,       \* the unbounded channel of outgoing items
  writer,     \* "off", "running" or "ended"
  sent,       \* items write_loop has put on the wire
  owner,      \* "waiting", "open", "closing" or "done"
  peer,       \* "up", "closed" (sent Close) or "gone"
  pmsg,       \* the peer's unfinished message [id, size], or NoFrag
  said,       \* messages the peer has finished, in order
  got,        \* messages handed to the owner, in order
  replies,    \* messages the owner queued, in order
  pinged      \* the peer has sent its ping

wsVars == <<role, wire, leftover, reader, frag, inq, outq, writer, sent, owner, peer,
            pmsg, said, got, replies, pinged>>

NoFrag == [id |-> 0, size |-> 0]
Frame(op, fin, id, size) == [op |-> op, fin |-> fin, id |-> id, size |-> size]
Item(kind, id) == [kind |-> kind, id |-> id]

WsInit ==
  /\ role \in {"server", "client"}
  /\ wire = <<>> /\ leftover = <<>> /\ inq = <<>> /\ outq = <<>> /\ sent = <<>>
  /\ reader = "handshake" /\ writer = "off" /\ owner = "waiting" /\ peer = "up"
  /\ frag = NoFrag /\ pmsg = NoFrag
  /\ said = <<>> /\ got = <<>> /\ replies = <<>> /\ pinged = FALSE

-----------------------------------------------------------------------------
(* The peer: whole or fragmented messages with a ping anywhere, then a Close *)
(* frame, or the transport just ends.                                        *)
PeerSends(f) ==
  /\ peer = "up"
  /\ Len(wire) < MaxInFlight
  /\ wire' = Append(wire, f)

PeerData ==
  /\ \E size \in Sizes, fin \in BOOLEAN :
       LET id    == Len(said) + 1
           op    == IF pmsg = NoFrag THEN "data" ELSE "continuation"
           whole == [id |-> id, size |-> pmsg.size + size]
       IN /\ id <= MaxMessages
          /\ PeerSends(Frame(op, fin, id, size))
          /\ said' = IF fin THEN Append(said, whole) ELSE said
          /\ pmsg' = IF fin THEN NoFrag ELSE whole
  /\ UNCHANGED <<role, leftover, reader, frag, inq, outq, writer, sent, owner, peer,
                 got, replies, pinged>>

PeerPings ==
  /\ ~pinged
  /\ pinged' = TRUE
  /\ PeerSends(Frame("ping", TRUE, 0, 0))
  /\ UNCHANGED <<role, leftover, reader, frag, inq, outq, writer, sent, owner, peer,
                 pmsg, said, got, replies>>

PeerEnds ==
  /\ \/ PeerSends(Frame("close", TRUE, 0, 0)) /\ peer' = "closed"
     \/ peer # "gone" /\ peer' = "gone" /\ UNCHANGED wire
  /\ UNCHANGED <<role, leftover, reader, frag, inq, outq, writer, sent, owner,
                 pmsg, said, got, replies, pinged>>

-----------------------------------------------------------------------------
(* serve_conn / WsClient::dial up to the spawn of the two tasks.  Frames that*)
(* came with the handshake are in the BufReader and become `leftover`; a     *)
(* failed or timed-out handshake ends the task.                              *)
(* MUTANT: what the handshake had read ahead is thrown away.                 *)
UpgradeDropsLeftover ==
  /\ reader = "handshake"
  /\ \/ /\ \E k \in 0..Len(wire) :
             /\ leftover' = <<>>
             /\ wire' = SubSeq(wire, k + 1, Len(wire))
        /\ reader' = "running" /\ writer' = "running" /\ owner' = "open"
     \/ /\ reader' = "ended" /\ owner' = "done"
        /\ UNCHANGED <<wire, leftover, writer>>
  /\ UNCHANGED <<role, frag, inq, outq, sent, peer, pmsg, said, got, replies, pinged>>

Upgrade ==
  /\ reader = "handshake"
  /\ \/ /\ \E k \in 0..Len(wire) :
             /\ leftover' = SubSeq(wire, 1, k)
             /\ wire' = SubSeq(wire, k + 1, Len(wire))
        /\ reader' = "running" /\ writer' = "running" /\ owner' = "open"
     \/ /\ reader' = "ended" /\ owner' = "done"
        /\ UNCHANGED <<wire, leftover, writer>>
  /\ UNCHANGED <<role, frag, inq, outq, sent, peer, pmsg, said, got, replies, pinged>>

-----------------------------------------------------------------------------
(* Sending into a channel whose receiver has ended is an error, and lost.    *)
Queue(item) == outq' = IF writer = "running" THEN Append(outq, item) ELSE outq

(* emit: hand a message to the owner, unless it is over the cap (`exceeds`)  *)
(* or the owner is gone; then the loop ends.                                 *)
Emit(m) ==
  IF m.size <= MaxMessage /\ owner = "open"
  THEN inq' = Append(inq, m) /\ UNCHANGED reader
  ELSE reader' = "ended" /\ UNCHANGED inq

(* Opcode::Continuation: ignored without a first fragment; the cap is on the *)
(* collected size.                                                           *)
OnContinuation(f) ==
  LET m == [id |-> frag.id, size |-> frag.size + f.size] IN
  IF frag = NoFrag THEN UNCHANGED <<frag, inq, reader>>
  ELSE IF m.size > MaxMessage THEN reader' = "ended" /\ UNCHANGED <<frag, inq>>
  ELSE IF f.fin THEN frag' = NoFrag /\ Emit(m)
  ELSE frag' = m /\ UNCHANGED <<inq, reader>>

(* Opcode::Text and Opcode::Binary: a message, or the first fragment of one. *)
OnData(f) ==
  LET m == [id |-> f.id, size |-> f.size] IN
  IF f.fin THEN Emit(m) /\ UNCHANGED frag
  ELSE frag' = m /\ UNCHANGED <<inq, reader>>

(* One turn of read_loop on the next frame, the leftover ones first.         *)
ReadFrame ==
  /\ reader = "running"
  /\ leftover # <<>> \/ wire # <<>>
  /\ LET f == IF leftover # <<>> THEN Head(leftover) ELSE Head(wire) IN
     /\ leftover' = IF leftover # <<>> THEN Tail(leftover) ELSE leftover
     /\ wire' = IF leftover # <<>> THEN wire ELSE Tail(wire)
     /\ CASE f.size > MaxFrame       -> reader' = "ended" /\ UNCHANGED <<frag, inq, outq>>
          [] f.op = "ping"           -> Queue(Item("pong", 0)) /\ UNCHANGED <<frag, inq, reader>>
          [] f.op = "close"          -> Queue(Item("close", 0)) /\ reader' = "ended" /\ UNCHANGED <<frag, inq>>
          [] f.op = "continuation" /\ f.size <= MaxFrame -> OnContinuation(f) /\ UNCHANGED outq
          [] f.op = "data" /\ f.size <= MaxFrame         -> OnData(f) /\ UNCHANGED outq
  /\ UNCHANGED <<role, writer, sent, owner, peer, pmsg, said, got, replies, pinged>>

(* read_frame fails: the transport ended.                                    *)
ReadEnds ==
  /\ reader = "running"
  /\ leftover = <<>> /\ wire = <<>> /\ peer = "gone"
  /\ reader' = "ended"
  /\ UNCHANGED <<role, wire, leftover, frag, inq, outq, writer, sent, owner, peer,
                 pmsg, said, got, replies, pinged>>

(* write_loop: the next item; Close is the last one, and a write to a peer   *)
(* that is gone may fail.  What is left in the queue is dropped with it.     *)
WriteNext ==
  /\ writer = "running"
  /\ outq # <<>>
  /\ \/ /\ sent' = Append(sent, Head(outq))
        /\ IF Head(outq).kind = "close"
           THEN writer' = "ended" /\ outq' = <<>>
           ELSE writer' = "running" /\ outq' = Tail(outq)
     \/ /\ peer = "gone"
        /\ writer' = "ended" /\ outq' = <<>> /\ UNCHANGED sent
  /\ UNCHANGED <<role, wire, leftover, reader, frag, inq, owner, peer,
                 pmsg, said, got, replies, pinged>>

-----------------------------------------------------------------------------
(* serve_conn's loop: each message goes to the handler, which may reply; a   *)
(* failed send ends the loop.                                                *)
ServerHandles ==
  /\ role = "server" /\ owner = "open"
  /\ inq # <<>>
  /\ inq' = Tail(inq)
  /\ got' = Append(got, Head(inq))
  /\ \/ UNCHANGED <<outq, replies, owner>>
     \/ /\ Queue(Item("msg", Head(inq).id))
        /\ replies' = IF writer = "running" THEN Append(replies, Head(inq).id) ELSE replies
        /\ owner' = IF writer = "running" THEN "open" ELSE "closing"
  /\ UNCHANGED <<role, wire, leftover, reader, frag, writer, sent, peer, pmsg, said, pinged>>

(* MUTANT: the server does not stop when the reader has ended.               *)
ServerClosesOnlyOnError ==
  /\ role = "server" /\ owner = "open"
  /\ inq = <<>> /\ reader = "ended" /\ writer = "ended"
  /\ owner' = "closing"
  /\ UNCHANGED <<role, wire, leftover, reader, frag, inq, outq, writer, sent, peer,
                 pmsg, said, got, replies, pinged>>

(* recv() returned None: every message was handled and the reader is gone.   *)
ServerCloses ==
  /\ role = "server" /\ owner = "open"
  /\ inq = <<>> /\ reader = "ended"
  /\ owner' = "closing"
  /\ UNCHANGED <<role, wire, leftover, reader, frag, inq, outq, writer, sent, peer,
                 pmsg, said, got, replies, pinged>>

(* Leaving: queue a Close, abort the reader, await the writer.               *)
ServerLeaves ==
  /\ role = "server" /\ owner = "closing"
  /\ Queue(Item("close", 0))
  /\ reader' = "ended" /\ owner' = "flushing"
  /\ UNCHANGED <<role, wire, leftover, frag, inq, writer, sent, peer,
                 pmsg, said, got, replies, pinged>>

(* The owner of a WsClient: recv, send and close.                            *)
ClientRecv ==
  /\ role = "client" /\ owner = "open"
  /\ inq # <<>>
  /\ inq' = Tail(inq)
  /\ got' = Append(got, Head(inq))
  /\ UNCHANGED <<role, wire, leftover, reader, frag, outq, writer, sent, owner, peer,
                 pmsg, said, replies, pinged>>

ClientSend ==
  /\ role = "client" /\ owner = "open"
  /\ Len(replies) < MaxSends
  /\ Queue(Item("msg", Len(replies) + 1))
  /\ replies' = IF writer = "running" THEN Append(replies, Len(replies) + 1) ELSE replies
  /\ UNCHANGED <<role, wire, leftover, reader, frag, inq, writer, sent, owner, peer,
                 pmsg, said, got, pinged>>

ClientCloses ==
  /\ role = "client" /\ owner = "open"
  /\ Queue(Item("close", 0))
  /\ owner' = "flushing"
  /\ UNCHANGED <<role, wire, leftover, reader, frag, inq, writer, sent, peer,
                 pmsg, said, got, replies, pinged>>

(* The client is dropped without close(): both tasks are aborted.            *)
ClientDrops ==
  /\ role = "client" /\ owner = "open"
  /\ owner' = "done" /\ reader' = "ended" /\ writer' = "ended" /\ outq' = <<>>
  /\ UNCHANGED <<role, wire, leftover, frag, inq, sent, peer, pmsg, said, got, replies, pinged>>

(* The awaited writer has ended: serve_conn returns, or the client is        *)
(* dropped, which aborts the reader.                                         *)
Flushed ==
  /\ owner = "flushing" /\ writer = "ended"
  /\ owner' = "done" /\ reader' = "ended"
  /\ UNCHANGED <<role, wire, leftover, frag, inq, outq, writer, sent, peer,
                 pmsg, said, got, replies, pinged>>

WsStep == Upgrade \/ ReadFrame \/ ReadEnds \/ WriteNext \/ ServerHandles \/ ServerCloses
            \/ ServerLeaves \/ Flushed

WsNext == WsStep \/ ClientRecv \/ ClientSend \/ ClientCloses \/ ClientDrops
            \/ PeerData \/ PeerPings \/ PeerEnds

WsSpec == WsInit /\ [][WsNext]_wsVars /\ WF_wsVars(WsStep)

-----------------------------------------------------------------------------
(* read_loop: the owner is handed exactly the messages the peer finished, in *)
(* order and whole, whatever the fragmentation, the pings between fragments  *)
(* and the bytes read ahead by the handshake.                                *)
DeliveredInOrder == IsPrefix(got \o inq, said)

(* No message over max_message_size reaches the owner, and what is collected *)
(* for one never exceeds the larger cap.                                     *)
WithinCaps ==
  /\ \A i \in 1..Len(got \o inq) : (got \o inq)[i].size <= MaxMessage
  /\ frag.size <= MaxMessage \/ frag.size <= MaxFrame

(* write_loop: a Close frame is the last one sent, and messages go out in    *)
(* the order they were queued.                                               *)
ClosedLast ==
  /\ \A i \in 1..Len(sent) : sent[i].kind = "close" => i = Len(sent)
  /\ IsPrefix([i \in 1..Len(SelectSeq(sent, LAMBDA x : x.kind = "msg")) |->
                 SelectSeq(sent, LAMBDA x : x.kind = "msg")[i].id], replies)

(* What one connection hands over, in both directions: whole messages in      *)
(* order and within the caps, nothing after a Close (ws/conn.rs).             *)
MessagesWhole == DeliveredInOrder /\ WithinCaps /\ ClosedLast

(* serve_conn returns (and gives its permit back) once the peer has closed   *)
(* or gone: neither loop waits for the other for ever.                       *)
ServerTaskEnds == (role = "server" /\ peer # "up") ~> owner = "done"

-----------------------------------------------------------------------------
(***************************************************************************)
(* The WebSocket server as a lifecycle Component: start binds and spawns the*)
(* accept loop, stop signals it and awaits it.  A connection task is only   *)
(* its beginning and its end (the machine above has the rest).              *)
(***************************************************************************)

CONSTANTS Peers,           \* clients that may connect
          MaxConnections   \* MAX_CONNECTIONS

ASSUME WsServerAssumption == MaxConnections \in Nat \ {0}

VARIABLES
  loop,       \* accept_loop: "off", "permit", "select" or "returned"
  signalled,  \* the oneshot of Running has been sent (or dropped)
  running,    \* self.running holds a Running
  stopper,    \* the caller of stop(): "none", "joining" or "returned"
  free,       \* free permits of the semaphore
  link        \* link[p]: "away", "queued", "served" or "over"

srvVars == <<loop, signalled, running, stopper, free, link>>

SrvInit ==
  /\ loop = "off" /\ signalled = FALSE /\ running = FALSE /\ stopper = "none"
  /\ free = MaxConnections
  /\ link = [p \in Peers |-> "away"]

(* WsServer::start: bind, spawn accept_loop, keep the handle.                *)
Start ==
  /\ loop = "off"
  /\ loop' = "permit" /\ running' = TRUE
  /\ UNCHANGED <<signalled, stopper, free, link>>

Dial(p) ==
  /\ link[p] = "away" /\ loop \in {"permit", "select"}
  /\ link' = [link EXCEPT ![p] = "queued"]
  /\ UNCHANGED <<loop, signalled, running, stopper, free>>

(* acquire_owned().await, before and outside the select.                     *)
Permit ==
  /\ loop = "permit" /\ free > 0
  /\ free' = free - 1 /\ loop' = "select"
  /\ UNCHANGED <<signalled, running, stopper, link>>

(* The select: a connection, a failed accept, or the shutdown.               *)
Serve(p) ==
  /\ loop = "select" /\ link[p] = "queued"
  /\ link' = [link EXCEPT ![p] = "served"] /\ loop' = "permit"
  /\ UNCHANGED <<signalled, running, stopper, free>>

AcceptError ==
  /\ loop = "select"
  /\ free' = free + 1 /\ loop' = "permit"
  /\ UNCHANGED <<signalled, running, stopper, link>>

LoopReturns ==
  /\ loop = "select" /\ signalled
  /\ free' = free + 1 /\ loop' = "returned"
  /\ link' = [p \in Peers |-> IF link[p] = "queued" THEN "over" ELSE link[p]]
  /\ UNCHANGED <<signalled, running, stopper>>

(* serve_conn returns and its permit is dropped.                             *)
ConnEnds(p) ==
  /\ link[p] = "served"
  /\ link' = [link EXCEPT ![p] = "over"] /\ free' = free + 1
  /\ UNCHANGED <<loop, signalled, running, stopper>>

(* WsServer::stop: take the handle, send the signal, await the join handle.  *)
Stop ==
  /\ stopper = "none" /\ loop # "off"
  /\ running' = FALSE
  /\ signalled' = (signalled \/ running)
  /\ stopper' = IF running THEN "joining" ELSE "returned"
  /\ UNCHANGED <<loop, free, link>>

Joined ==
  /\ stopper = "joining" /\ loop = "returned"
  /\ stopper' = "returned"
  /\ UNCHANGED <<loop, signalled, running, free, link>>

SrvNext ==
  \/ Start \/ Stop \/ Permit \/ AcceptError \/ LoopReturns \/ Joined
  \/ \E p \in Peers : Dial(p) \/ Serve(p) \/ ConnEnds(p)

(* The accept loop and the joining caller are scheduled; a select with both  *)
(* branches ready picks the shutdown sometimes.  Peers may stay for ever.    *)
SrvFairness == WF_srvVars(Permit) /\ SF_srvVars(LoopReturns) /\ WF_srvVars(Joined)

SrvSpec == SrvInit /\ [][SrvNext]_srvVars /\ SrvFairness

-----------------------------------------------------------------------------
(* No permit is lost or given back twice, through accept errors, ended       *)
(* connections and the shutdown, so MAX_CONNECTIONS stays the bound.         *)
WsPermitsExact ==
  free + (IF loop = "select" THEN 1 ELSE 0) + Cardinality({p \in Peers : link[p] = "served"})
    = MaxConnections

(* After stop() has returned no connection is accepted any more.             *)
StopStopsAccepting ==
  [][stopper = "returned" => \A p \in Peers : link'[p] = "served" => link[p] = "served"]_srvVars

(* stop() returns as soon as connections end: the loop gets a permit, and    *)
(* its select sees the shutdown.                                             *)
StopReturnsOncePeersLeave ==
  (\A p \in Peers : WF_srvVars(ConnEnds(p)))
    => (stopper = "joining" ~> stopper = "returned")

(* The server can always be stopped and stays stopped: tasks end with their   *)
(* peers, every permit comes back, stop() returns, and nothing is accepted    *)
(* after it (ws/server.rs:99).                                                *)
ListenerStops ==
  []WsPermitsExact /\ ServerTaskEnds /\ StopStopsAccepting /\ StopReturnsOncePeersLeave

-----------------------------------------------------------------------------
(* The two together: a behaviour is one connection in detail, or the server  *)
(* with its connections in outline.                                          *)
VARIABLE focus

Init == focus \in {"connection", "server"} /\ WsInit /\ SrvInit

Next ==
  \/ focus = "connection" /\ WsNext /\ UNCHANGED <<focus, srvVars>>
  \/ focus = "server" /\ role = "server" /\ SrvNext /\ UNCHANGED <<focus, wsVars>>

vars == <<focus, wsVars, srvVars>>

Conn(A) == focus = "connection" /\ A /\ UNCHANGED <<focus, srvVars>>
Srv(A) == focus = "server" /\ A /\ UNCHANGED <<focus, wsVars>>

Spec == Init /\ [][Next]_vars /\ WF_vars(Conn(WsStep))
          /\ WF_vars(Srv(Permit)) /\ SF_vars(Srv(LoopReturns)) /\ WF_vars(Srv(Joined))
=============================================================================
