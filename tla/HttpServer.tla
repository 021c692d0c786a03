----------------------------- MODULE HttpServer -----------------------------
(***************************************************************************)
(* http::server: the accept loop and its connection permits, one task per   *)
(* accepted connection, and the drain on shutdown.                          *)
(***************************************************************************)
EXTENDS HttpWire

CONSTANTS MaxConnections,        \* ServerConfig::max_connections
          MaxKeepAliveRequests,  \* ServerConfig::max_keep_alive_requests
          Tls                    \* serve_tls: a handshake comes first

VARIABLES
  cur,          \* cur[c]: the request being served
  out,          \* out[c]: items of its response still to be written
  served,       \* served[c]: requests read on c so far
  permits,      \* free permits of the connection semaphore
  accepting,    \* the accept loop: "acquire", "accept" or "stopped"
  phase,        \* serve_inner: "serving", "draining", "drained" or "gave up"
  handled       \* handled[r]: how often the handler has been run for r

serverVars == <<cur, out, served, permits, accepting, phase, handled>>

ServerInit ==
  /\ cur = [c \in Connections |-> NoOne]
  /\ out = [c \in Connections |-> <<>>]
  /\ served = [c \in Connections |-> 0]
  /\ permits = MaxConnections
  /\ accepting = "acquire"
  /\ phase = "serving"
  /\ handled = [r \in Requests |-> 0]

Active(c) == srv[c] \in {"handshake", "top", "idle", "body", "handle", "write"}
ClientGone(c) == held[c] = "gone"

(* accept_loop: a permit first, then a socket; a failed accept gives the     *)
(* permit back (and, not modelled, waits 50 ms).                             *)
Acquire ==
  /\ accepting = "acquire"
  /\ permits > 0
  /\ permits' = permits - 1
  /\ accepting' = "accept"
  /\ UNCHANGED <<srv, up, down, held, cur, out, served, phase, handled>>

Accept(c) ==
  /\ accepting = "accept"
  /\ srv[c] = "backlog"
  /\ srv' = [srv EXCEPT ![c] = IF Tls THEN "handshake" ELSE "top"]
  /\ accepting' = "acquire"
  /\ UNCHANGED <<permits, up, down, held, cur, out, served, phase, handled>>

AcceptFails ==
  /\ accepting = "accept"
  /\ permits' = permits + 1
  /\ accepting' = "acquire"
  /\ UNCHANGED <<srv, up, down, held, cur, out, served, phase, handled>>

(* The connection task ends: its socket closes (what it had not read is lost)*)
(* and its permit is released.                                               *)
Ends(c) ==
  /\ srv' = [srv EXCEPT ![c] = "closed"]
  /\ permits' = permits + 1
  /\ up' = [up EXCEPT ![c] = <<>>]
  /\ out' = [out EXCEPT ![c] = <<>>]
  /\ cur' = [cur EXCEPT ![c] = NoOne]
  /\ served' = [served EXCEPT ![c] = 0]

Close(c) == Ends(c) /\ UNCHANGED <<down, held, accepting, phase, handled>>

Goto(c, s) ==
  /\ srv' = [srv EXCEPT ![c] = s]
  /\ UNCHANGED <<up, down, held, cur, out, served, permits, accepting, phase, handled>>

(* accept_tls under head_timeout: it succeeds, or the task ends.             *)
Handshake(c) ==
  /\ srv[c] = "handshake"
  /\ \/ ~ClientGone(c) /\ Goto(c, "top")
     \/ Close(c)

(* serve_conn's loop: drain is looked at before each head.                   *)
LoopTop(c) ==
  /\ srv[c] = "top"
  /\ IF phase = "serving" THEN Goto(c, "idle") ELSE Close(c)

(* MUTANT: an idle connection waits out its idle timeout during the drain.   *)
DrainIdleNever(c) ==
  /\ srv[c] = "idle"
  /\ phase = "gave up"
  /\ Close(c)

(* drain.changed() wins the select against the next head.                    *)
DrainIdle(c) ==
  /\ srv[c] = "idle"
  /\ phase # "serving"
  /\ Close(c)

(* head_timeout, an EOF or a read error between requests.                    *)
IdleTimeout(c) ==
  /\ srv[c] = "idle"
  /\ Close(c)

(* read_request_head, then handle_one up to the body: a refusal is written   *)
(* at once, 100 Continue comes before the size check.                        *)
ReadRequest(c) ==
  /\ srv[c] = "idle"
  /\ up[c] # <<>>
  /\ LET r == Head(up[c]).req
         continue == IF ExpectsContinue(r) /\ RefusalStatus(r) # 400
                     THEN <<ContinueLine(r)>> ELSE <<>>
     IN /\ up' = [up EXCEPT ![c] = Tail(@)]
        /\ cur' = [cur EXCEPT ![c] = r]
        /\ served' = [served EXCEPT ![c] = @ + 1]
        /\ IF RefusalStatus(r) # 0
           THEN /\ srv' = [srv EXCEPT ![c] = "write"]
                /\ out' = [out EXCEPT ![c] = continue \o Refusal(r, RefusalStatus(r))]
                /\ down' = down
           ELSE /\ srv' = [srv EXCEPT ![c] = IF req[r].body THEN "body" ELSE "handle"]
                /\ down' = [down EXCEPT ![c] = IF ClientGone(c) THEN @ ELSE @ \o continue]
                /\ out' = out
  /\ UNCHANGED <<held, permits, accepting, phase, handled>>

(* read_exact / read_chunked_body.                                           *)
ReadBody(c) ==
  /\ srv[c] = "body"
  /\ up[c] # <<>>
  /\ up' = [up EXCEPT ![c] = Tail(@)]
  /\ srv' = [srv EXCEPT ![c] = "handle"]
  /\ UNCHANGED <<down, held, cur, out, served, permits, accepting, phase, handled>>

(* body_timeout, or an EOF inside the body: the handler never runs.          *)
BodyTimeout(c) ==
  /\ srv[c] = "body"
  /\ up[c] = <<>>
  /\ Close(c)

KeepAlive(c) == ~req[cur[c]].close /\ served[c] < MaxKeepAliveRequests

(* handler.handle(req).await, and the response it returns.                   *)
Handle(c) ==
  /\ srv[c] = "handle"
  /\ handled' = [handled EXCEPT ![cur[c]] = @ + 1]
  /\ srv' = [srv EXCEPT ![c] = "write"]
  /\ \E resp \in Responses :
        out' = [out EXCEPT ![c] = WriteResponse(cur[c], resp, KeepAlive(c))]
  /\ UNCHANGED <<up, down, held, cur, served, permits, accepting, phase>>

(* The handler panics after its effects: the task unwinds, the socket and    *)
(* the permit are dropped.                                                   *)
HandlerPanics(c) ==
  /\ srv[c] = "handle"
  /\ handled' = [handled EXCEPT ![cur[c]] = @ + 1]
  /\ Ends(c)
  /\ UNCHANGED <<down, held, accepting, phase>>

(* write_response, one item at a time; a client that is gone reads nothing.  *)
(* After the last item the loop goes on if the request and the cap allow it. *)
WriteItem(c) ==
  /\ srv[c] = "write"
  /\ down' = [down EXCEPT ![c] = IF ClientGone(c) THEN @ ELSE Append(@, Head(out[c]))]
  /\ CASE Len(out[c]) > 1 ->
            /\ out' = [out EXCEPT ![c] = Tail(@)]
            /\ UNCHANGED <<srv, permits, up, cur, served>>
       [] Len(out[c]) = 1 /\ KeepAlive(c) /\ RefusalStatus(cur[c]) = 0 ->
            /\ out' = [out EXCEPT ![c] = <<>>]
            /\ cur' = [cur EXCEPT ![c] = NoOne]
            /\ srv' = [srv EXCEPT ![c] = "top"]
            /\ UNCHANGED <<permits, up, served>>
       [] OTHER -> Ends(c)
  /\ UNCHANGED <<held, accepting, phase, handled>>

(* An I/O error while writing propagates and ends the task.                  *)
WriteFails(c) ==
  /\ srv[c] = "write"
  /\ Close(c)

-----------------------------------------------------------------------------
(* serve_inner's select: shutdown drops the accept loop, the permit it may   *)
(* hold and the listener with its backlog, and signals the drain.            *)
Shutdown ==
  /\ phase = "serving"
  /\ phase' = "draining"
  /\ accepting' = "stopped"
  /\ permits' = permits + (IF accepting = "accept" THEN 1 ELSE 0)
  /\ srv' = [c \in DOMAIN srv |-> IF c = "listener" \/ srv[c] = "backlog"
                                  THEN "closed" ELSE srv[c]]
  /\ up' = [c \in Connections |-> IF srv[c] = "backlog" THEN <<>> ELSE up[c]]
  /\ UNCHANGED <<down, held, cur, out, served, handled>>

(* acquire_many(max_conns) succeeds, or drain_timeout fires first.           *)
Drained ==
  /\ phase = "draining"
  /\ permits = MaxConnections
  /\ phase' = "drained"
  /\ UNCHANGED <<up, down, held, srv, cur, out, served, permits, accepting, handled>>

DrainTimeout ==
  /\ phase = "draining"
  /\ phase' = "gave up"
  /\ UNCHANGED <<up, down, held, srv, cur, out, served, permits, accepting, handled>>

ConnStep(c) ==
  \/ Handshake(c) \/ LoopTop(c) \/ DrainIdle(c) \/ ReadRequest(c) \/ ReadBody(c)
  \/ BodyTimeout(c) \/ Handle(c) \/ WriteItem(c)

ServerNext ==
  \/ Acquire \/ AcceptFails
  \/ Shutdown \/ Drained \/ DrainTimeout
  \/ \E c \in Connections :
        ConnStep(c) \/ Accept(c) \/ IdleTimeout(c) \/ HandlerPanics(c) \/ WriteFails(c)
=============================================================================
