------------------------------ MODULE HttpWire ------------------------------
(***************************************************************************)
(* The wire between the HTTP client and server: what each side writes for a *)
(* message and how the other side decides where it ends.  A message is a    *)
(* head and some body parts; bytes, header names and line limits are left   *)
(* out, the headers the code branches on are fields.                        *)
(***************************************************************************)
EXTENDS Naturals, Sequences, FiniteSets

CONSTANTS Requests,      \* one per call of Client::send
          Connections,   \* the sockets a behaviour can open
          Traffic,       \* the requests a behaviour may consist of: a set of
                         \* functions from Requests to RequestKind
          Responses,     \* what a handler may return: [status, parts, stream, close]
          NoOne          \* neither a request nor a connection

RequestKind ==
  [method : {"GET", "POST", "HEAD"}, body : BOOLEAN, close : BOOLEAN,
   framing : {"plain", "conflicting", "too large"}, expect : BOOLEAN]

ASSUME WireAssumption ==
  /\ NoOne \notin Requests \cup Connections
  /\ Traffic \subseteq [Requests -> RequestKind]

VARIABLES
  req,        \* req[r]: the request being sent, fixed from the start
  up, down,   \* up[c], down[c]: items written and not yet read, each way
  held,       \* the client's end of c: a request, "pool", "gone" or "unused"
  srv         \* the server's end of c: where its task is, and the listener's state

WireInit ==
  /\ req \in Traffic
  /\ up = [c \in Connections |-> <<>>]
  /\ down = [c \in Connections |-> <<>>]
  /\ held = [c \in Connections |-> "unused"]
  /\ srv = [c \in Connections \cup {"listener"} |-> IF c = "listener" THEN "open" ELSE "none"]

-----------------------------------------------------------------------------
(* Items on the wire. *)

HeadItem(r, status, framing, keep) ==
  [item |-> "head", req |-> r, status |-> status, framing |-> framing, keep |-> keep]
Data(r) == [item |-> "data", req |-> r]
LastChunk(r) == [item |-> "last", req |-> r]

Length(n) == <<"length", n>>
Chunked == <<"chunked", 0>>
Absent == <<"absent", 0>>     \* neither Content-Length nor Transfer-Encoding
Done == <<"done", 0>>         \* Framing::Done: no (more) body

(* write_request: the head, then the body when there is one. *)
RequestItems(r) ==
  <<[item |-> "head", req |-> r]>> \o IF req[r].body THEN <<Data(r)>> ELSE <<>>

(* write_response: HEAD and 204/304 carry no body; a stream is chunked, any  *)
(* other body has a Content-Length; the handler's own Connection header wins.*)
WriteResponse(r, resp, keep) ==
  LET noContent == resp.status \in {204, 304}
      bodyless  == req[r].method = "HEAD" \/ noContent
      streaming == resp.stream /\ ~bodyless
      framing   == IF streaming THEN Chunked
                   ELSE IF noContent THEN Absent
                   ELSE Length(IF resp.stream THEN 0 ELSE resp.parts)
      data      == [i \in 1..resp.parts |-> Data(r)]
  IN <<HeadItem(r, resp.status, framing, keep /\ ~resp.close)>>
       \o IF bodyless THEN <<>>
          ELSE IF streaming THEN Append(data, LastChunk(r)) ELSE data

(* A refusal: HttpResponse::text with the connection to be closed.           *)
Refusal(r, status) ==
  WriteResponse(r, [status |-> status, parts |-> 1, stream |-> FALSE, close |-> FALSE], FALSE)

(* HTTP/1.1 100 Continue, before the body of a request that expects it.      *)
ContinueLine(r) == HeadItem(r, 100, Absent, TRUE)

(* MUTANT: response_framing reads a chunked body as if it were empty.        *)
ResponseFramingChunkedDone(h) ==
  IF h.status \in {204, 304} \cup 100..199 \/ h.framing = Chunked THEN Done
  ELSE IF h.framing = Absent THEN <<"eof", 0>> ELSE h.framing

(* response_framing: how the client will find the end of this response.      *)
ResponseFraming(h) ==
  IF h.status \in {204, 304} \cup 100..199 THEN Done
  ELSE IF h.framing = Absent THEN <<"eof", 0>> ELSE h.framing

(* handle_one's early returns: the status it refuses r with, or 0.           *)
RefusalStatus(r) ==
  CASE req[r].framing = "conflicting" -> 400
    [] req[r].framing = "too large"   -> 413
    [] OTHER                          -> 0

ExpectsContinue(r) == req[r].body /\ req[r].expect
=============================================================================
