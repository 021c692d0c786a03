-------------------------------- MODULE Http --------------------------------
(***************************************************************************)
(* The HTTP client and server joined by their connections.                  *)
(***************************************************************************)
EXTENDS HttpClient, HttpServer

vars == <<req, up, down, held, srv, clientVars, serverVars>>

Init == WireInit /\ ClientInit /\ ServerInit

Next ==
  \/ ClientNext /\ UNCHANGED <<req, serverVars>>
  \/ ServerNext /\ UNCHANGED <<req, clientVars>>

(* What the runtime's scheduling gives: a client task or a connection task   *)
(* that can go on does (handlers return, sockets deliver), and the drain     *)
(* notices its permits.  Timeouts, accept errors and I/O errors are not      *)
(* promised to happen.                                                       *)
Fairness ==
  /\ \A r \in Requests : WF_vars(ClientStep(r) /\ UNCHANGED <<req, serverVars>>)
  /\ \A c \in Connections : WF_vars(ConnStep(c) /\ UNCHANGED <<req, clientVars>>)
  /\ WF_vars(Drained /\ UNCHANGED <<req, clientVars>>)

Spec == Init /\ [][Next]_vars /\ Fairness

-----------------------------------------------------------------------------
(* Type invariant of the joined system.                                      *)
TypeOK ==
  /\ held \in [Connections -> Requests \cup {"unused", "pool", "gone"}]
  /\ \A c \in Connections :
        srv[c] \in {"none", "backlog", "handshake", "top", "idle", "body", "handle",
                    "write", "closed"}
  /\ conn \in [Requests -> Connections \cup {NoOne}]
  /\ task \in [Requests -> {"new", "dial", "write head", "write body", "await head",
                            "read body", "done", "failed"}]
  /\ permits \in 0..MaxConnections
  /\ served \in [Connections -> 0..MaxKeepAliveRequests]

(* pool.rs: what goes back to the pool is drained.  No item of an earlier    *)
(* exchange is on the wire of an idle connection, and its server is not      *)
(* about to write one: client and server agree on where every response ends. *)
PoolDrained ==
  \A i \in 1..Len(idle) :
    LET c == idle[i] IN
    /\ up[c] = <<>> /\ down[c] = <<>>
    /\ srv[c] \in {"top", "idle", "closed"}

(* The pool never exceeds its cap, and a connection has one owner: it is in  *)
(* the pool once, or one request holds it.                                   *)
OneOwner ==
  /\ Len(idle) <= MaxIdlePerHost
  /\ \A i, j \in 1..Len(idle) : idle[i] = idle[j] => i = j
  /\ \A i \in 1..Len(idle) : held[idle[i]] = "pool"
  /\ \A r \in Requests : conn[r] # NoOne => held[conn[r]] = r

(* A caller is given the response to its own request, also over reused       *)
(* connections, retries and timeouts.                                        *)
OwnResponse == \A r \in Requests : from[r] \in {NoOne, r}

(* accept_loop and the connection tasks: no permit is lost or released       *)
(* twice, whatever fails, so max_connections stays the bound.                *)
PermitsExact ==
  permits + (IF accepting = "accept" THEN 1 ELSE 0)
          + Cardinality({c \in Connections : Active(c)}) = MaxConnections

(* serve_inner: when the drain was not cut short, every in-flight request    *)
(* has been answered and no connection task is left.                         *)
DrainedIsQuiet == phase = "drained" => \A c \in Connections : ~Active(c)

(* Client, wire and server agree on where every exchange ends: a pooled       *)
(* connection is clean and has one owner, a caller gets its own response,     *)
(* permits count the connections, and a completed drain leaves none (pool.rs, *)
(* message.rs:129, server.rs:257).                                            *)
ExchangesSeparate ==
  /\ TypeOK /\ PoolDrained /\ OneOwner /\ OwnResponse
  /\ PermitsExact /\ DrainedIsQuiet

(* Shutdown ends every connection without waiting for an idle timeout: once  *)
(* draining, all connection tasks finish.                                    *)
DrainFinishes == phase = "draining" ~> \A c \in Connections : ~Active(c)

(* A caller that reads a body to its end is not left waiting, provided the   *)
(* server's idle timeout fires: a HEAD response announces a length and no    *)
(* body follows, so only the close of the idle connection ends that read.    *)
BodyEnds ==
  (\A c \in Connections : WF_vars(IdleTimeout(c) /\ UNCHANGED <<req, clientVars>>))
    => \A r \in Requests : task[r] = "read body" ~> task[r] = "done"

(* Neither side waits for ever for the other: a shutdown drains and a body    *)
(* that is read ends (server.rs:257, message.rs:129).                         *)
ExchangesEnd == DrainFinishes /\ BodyEnds

(* Client and server implement the promise of HttpService.                   *)
Service == INSTANCE HttpService WITH
  runs      <- handled,
  refusable <- {r \in Requests : RefusalStatus(r) # 0},
  settled   <- [r \in Requests |-> CASE task[r] \in {"read body", "done"} -> "answered"
                                     [] task[r] = "failed"                -> "failed"
                                     [] OTHER                             -> "open"]

(* client.rs: a request's handler runs at most twice, never once the caller  *)
(* has its answer, and every answer belongs to a request that was served.    *)
ImplementsService == Service!SSpec

(* client.rs:62-65: re-sending cannot double-process a request.              *)
ProcessedOnce == \A r \in Requests : handled[r] <= 1
=============================================================================
