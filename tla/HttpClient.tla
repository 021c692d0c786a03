----------------------------- MODULE HttpClient -----------------------------
(***************************************************************************)
(* http::Client: one task per request, the idle pool they share, and the    *)
(* streaming response bodies that give connections back to it.              *)
(***************************************************************************)
EXTENDS HttpWire

CONSTANT MaxIdlePerHost       \* MAX_IDLE_PER_HOST (one host is modelled)

VARIABLES
  idle,         \* the pool: a queue of idle connections
  task,         \* task[r]: where request r is in Client::send and its body
  conn,         \* conn[r]: the connection r is using, or NoOne
  pooled,       \* pooled[r]: that connection came from the pool
  body,         \* body[r]: Framing of the response being read
  reclaim,      \* reclaim[r]: the body gives its connection back when drained
  from          \* from[r]: the request whose response r was given, or NoOne

clientVars == <<idle, task, conn, pooled, body, reclaim, from>>

ClientInit ==
  /\ idle = <<>>
  /\ task = [r \in Requests |-> "new"]
  /\ conn = [r \in Requests |-> NoOne]
  /\ pooled = [r \in Requests |-> FALSE]
  /\ body = [r \in Requests |-> Done]
  /\ reclaim = [r \in Requests |-> FALSE]
  /\ from = [r \in Requests |-> NoOne]

Listening == srv["listener"] = "open"
Closed(c) == srv[c] = "closed"
AtEof(c) == Closed(c) /\ down[c] = <<>>

(* r's connection is dropped (its socket closes, what was still to be read   *)
(* from it is lost) and r goes on in state t.                                *)
DropAnd(r, t) ==
  /\ task' = [task EXCEPT ![r] = t]
  /\ held' = [c \in Connections |-> IF c = conn[r] THEN "gone" ELSE held[c]]
  /\ down' = [c \in Connections |-> IF c = conn[r] THEN <<>> ELSE down[c]]
  /\ conn' = [conn EXCEPT ![r] = NoOne]
  /\ body' = [body EXCEPT ![r] = Done]
  /\ reclaim' = [reclaim EXCEPT ![r] = FALSE]
  /\ pooled' = [pooled EXCEPT ![r] = FALSE]

(* send_inner begins: Pool::take, a connection if one is idle.               *)
Take(r) ==
  /\ task[r] = "new"
  /\ IF idle = <<>>
     THEN /\ task' = [task EXCEPT ![r] = "dial"]
          /\ UNCHANGED <<idle, conn, pooled, held>>
     ELSE /\ task' = [task EXCEPT ![r] = "write head"]
          /\ idle' = Tail(idle)
          /\ conn' = [conn EXCEPT ![r] = Head(idle)]
          /\ pooled' = [pooled EXCEPT ![r] = TRUE]
          /\ held' = [held EXCEPT ![Head(idle)] = r]
  /\ UNCHANGED <<up, down, srv, body, reclaim, from>>

(* transport::connect: refused once the listener is gone.                    *)
Connect(r) ==
  /\ task[r] = "dial"
  /\ IF Listening
     THEN LET c == CHOOSE x \in Connections : held[x] = "unused" IN   \* a new socket
            /\ held' = [held EXCEPT ![c] = r]
            /\ srv' = [srv EXCEPT ![c] = "backlog"]
            /\ conn' = [conn EXCEPT ![r] = c]
            /\ pooled' = [pooled EXCEPT ![r] = FALSE]
            /\ task' = [task EXCEPT ![r] = "write head"]
     ELSE /\ task' = [task EXCEPT ![r] = "failed"]
          /\ UNCHANGED <<held, srv, conn, pooled>>
  /\ UNCHANGED <<up, down, idle, body, reclaim, from>>

(* exchange returned Err: fall back to a fresh connection if the failed one  *)
(* was pooled, give up otherwise.                                            *)
ExchangeFails(r) ==
  /\ DropAnd(r, IF pooled[r] THEN "dial" ELSE "failed")
  /\ UNCHANGED <<up, srv, idle, from>>

(* write_request: one step for the head, one for the body; writing to a      *)
(* connection the server has closed may be noticed or not.                   *)
Write(r) ==
  /\ task[r] \in {"write head", "write body"}
  /\ \/ /\ Closed(conn[r])
        /\ ExchangeFails(r)
     \/ LET items == RequestItems(r)
            now   == IF task[r] = "write head" THEN items[1] ELSE items[2]
        IN /\ up' = [up EXCEPT ![conn[r]] = IF Closed(conn[r]) THEN @ ELSE Append(@, now)]
           /\ task' = [task EXCEPT ![r] =
                         IF now.item = "head" /\ Len(items) = 2
                         THEN "write body" ELSE "await head"]
           /\ UNCHANGED <<down, srv, held, idle, conn, pooled, body, reclaim, from>>

(* read_response_head wants a status line.                                   *)
IsResponseHead(i) == i.item = "head"

(* response_keep_alive, and the framing must end by itself.                  *)
Reusable(h, framing) == h.keep /\ framing[1] # "eof"

(* read_response_head: an EOF or anything but a status line is an error; a   *)
(* head makes a Response whose body is reusable or not.                      *)
ReadHead(r) ==
  /\ task[r] = "await head"
  /\ LET c == conn[r] IN
     \/ /\ AtEof(c)
        /\ ExchangeFails(r)
     \/ /\ down[c] # <<>>
        /\ LET h == Head(down[c]) IN
           IF ~IsResponseHead(h)
           THEN ExchangeFails(r)
           ELSE LET f == ResponseFraming(h) IN
                /\ down' = [down EXCEPT ![c] = Tail(@)]
                /\ body' = [body EXCEPT ![r] = f]
                /\ reclaim' = [reclaim EXCEPT ![r] = Reusable(h, f)]
                /\ from' = [from EXCEPT ![r] = h.req]
                /\ task' = [task EXCEPT ![r] = "read body"]
                /\ UNCHANGED <<up, srv, held, idle, conn, pooled>>

(* Body::reclaim, on a self-delimited end: Pool::put keeps the connection    *)
(* unless the idle cap is reached.  Without reclaim the socket is closed     *)
(* when the finished Response is dropped.                                    *)
Finish(r) ==
  IF reclaim[r] /\ Len(idle) < MaxIdlePerHost
  THEN /\ task' = [task EXCEPT ![r] = "done"]
       /\ idle' = Append(idle, conn[r])
       /\ held' = [held EXCEPT ![conn[r]] = "pool"]
       /\ conn' = [conn EXCEPT ![r] = NoOne]
       /\ body' = [body EXCEPT ![r] = Done]
       /\ reclaim' = [reclaim EXCEPT ![r] = FALSE]
       /\ pooled' = [pooled EXCEPT ![r] = FALSE]
  ELSE DropAnd(r, "done") /\ UNCHANGED idle

(* The body ended early: the connection is dropped, never pooled.            *)
Truncated(r) == DropAnd(r, "done") /\ UNCHANGED idle

(* Body::next_chunk.  An EOF inside a body ends it without pooling; in a     *)
(* chunked body it is also an error, the connection is dropped all the same. *)
NextChunk(r) ==
  /\ task[r] = "read body"
  /\ LET c == conn[r]
         f == body[r]
         ended == f \in {Done, Length(0)} \/ (f = Chunked /\ down[c] # <<>> /\ Head(down[c]).item = "last")
     IN \/ /\ ended
           /\ Finish(r)
           /\ down' = [down EXCEPT ![c] = IF f = Chunked THEN Tail(@) ELSE @]
        \/ /\ ~ended
           /\ AtEof(c)
           /\ Truncated(r)
        \/ /\ ~ended
           /\ down[c] # <<>>
           /\ down' = [down EXCEPT ![c] = Tail(@)]
           /\ body' = [body EXCEPT ![r] = IF f[1] = "length" THEN Length(f[2] - 1) ELSE f]
           /\ UNCHANGED <<task, conn, held, idle, pooled, reclaim>>
  /\ UNCHANGED <<up, srv, from>>

(* MUTANT: a timeout on a pooled connection also falls back to a fresh one.  *)
SendTimeoutRedials(r) ==
  /\ task[r] \in {"dial", "write head", "write body", "await head"}
  /\ DropAnd(r, IF pooled[r] THEN "dial" ELSE "failed")
  /\ UNCHANGED <<up, srv, idle, from>>

(* The timeout around send_inner fires: its future, and the connection it    *)
(* owns, are dropped.  Reading the body is not under this timeout.           *)
SendTimeout(r) ==
  /\ task[r] \in {"dial", "write head", "write body", "await head"}
  /\ DropAnd(r, "failed")
  /\ UNCHANGED <<up, srv, idle, from>>

(* The caller drops a Response before its body is drained.                   *)
Abandon(r) ==
  /\ task[r] = "read body"
  /\ DropAnd(r, "done")
  /\ UNCHANGED <<up, srv, idle, from>>

ClientStep(r) == Take(r) \/ Connect(r) \/ Write(r) \/ ReadHead(r) \/ NextChunk(r)

ClientNext == \E r \in Requests : ClientStep(r) \/ SendTimeout(r) \/ Abandon(r)
=============================================================================
