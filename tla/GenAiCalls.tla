----------------------------- MODULE GenAiCalls -----------------------------
(* The streaming task of the providers and the embedding router.              *)
EXTENDS Naturals, Sequences, SequencesExt, FiniteSets, FiniteSetsExt

(* genai/providers/sse.rs: pump() and LineBuffer, the task behind             *)
(* complete_stream() of every provider. The response body is a sequence of    *)
(* bytes cut into chunks anywhere; a byte is a letter, a newline or half of a *)
(* two-byte character.                                                        *)

CONSTANTS
  Bodies,        \* response bodies: sequences of "a", "n" (newline), "h1", "h2"
  Capacity,      \* the channel's capacity (64 in the code)
  MaxBuffered    \* MAX_BUFFERED_BYTES

VARIABLES
  wire,       \* bytes the server has not sent yet
  fails,      \* whether the body breaks off with an error
  buf,        \* LineBuffer.buf, as characters
  lines,      \* lines drained but not forwarded yet
  channel,    \* chunks in the mpsc channel
  received,   \* what the consumer has got
  pump,       \* "idle", "reading", "sending", "last" or "ended"
  open,       \* whether the consumer still holds the receiver
  body        \* history: the whole body

streamVars == <<wire, fails, buf, lines, channel, received, pump, open, body>>

(* String::from_utf8_lossy of one chunk: a character cut in two becomes two   *)
(* replacement characters "?".                                                *)
RECURSIVE Lossy(_)
Lossy(b) ==
  IF b = <<>> THEN <<>>
  ELSE IF Len(b) > 1 /\ b[1] = "h1" /\ b[2] = "h2" THEN <<"x">> \o Lossy(SubSeq(b, 3, Len(b)))
  ELSE <<IF b[1] \in {"h1", "h2"} THEN "?" ELSE b[1]>> \o Lossy(Tail(b))

RECURSIVE LinesOf(_), RestOf(_)
LinesOf(s) == IF "n" \notin Range(s) THEN <<>>
              ELSE LET p == CHOOSE i \in 1..Len(s) : s[i] = "n" /\ \A j \in 1..(i - 1) : s[j] # "n"
                   IN <<SubSeq(s, 1, p - 1)>> \o LinesOf(SubSeq(s, p + 1, Len(s)))
RestOf(s) == IF "n" \notin Range(s) THEN s
             ELSE LET p == CHOOSE i \in 1..Len(s) : s[i] = "n" /\ \A j \in 1..(i - 1) : s[j] # "n"
                  IN RestOf(SubSeq(s, p + 1, Len(s)))

(* parse() skips lines that are blank. *)
Parsed(ls) == SelectSeq(ls, LAMBDA l : l # <<>>)

StreamInit ==
  /\ body \in Bodies /\ fails \in BOOLEAN
  /\ wire = body /\ buf = <<>> /\ lines = <<>> /\ channel = <<>> /\ received = <<>>
  /\ pump = "idle" /\ open = TRUE

(* complete_stream() spawns the task and returns the receiver. *)
Spawn == /\ pump = "idle" /\ pump' = "reading"
         /\ UNCHANGED <<wire, fails, buf, lines, channel, received, open, body>>

(* LineBuffer::push: an unterminated line longer than the limit is dropped. *)
Push(s) == LET b == buf \o Lossy(s)
           IN IF Len(b) > MaxBuffered /\ "n" \notin Range(b) THEN <<>> ELSE b

(* Ok(Some(bytes)): push, then drain_lines. *)
ReadChunk(n) ==
  /\ pump = "reading" /\ n \in 1..Len(wire)
  /\ LET b == Push(SubSeq(wire, 1, n))
     IN /\ lines' = Parsed(LinesOf(b)) /\ buf' = RestOf(b)
        /\ pump' = IF Parsed(LinesOf(b)) = <<>> THEN "reading" ELSE "sending"
  /\ wire' = SubSeq(wire, n + 1, Len(wire))
  /\ UNCHANGED <<fails, channel, received, open, body>>

(* Ok(None) or Err(e): the remainder or the error is the last thing sent. *)
ReadEnd ==
  /\ pump = "reading" /\ wire = <<>>
  /\ lines' = IF fails THEN <<<<"error">>>> ELSE Parsed(<<buf>>)
  /\ buf' = <<>>
  /\ pump' = IF lines' = <<>> THEN "ended" ELSE "last"
  /\ UNCHANGED <<wire, fails, channel, received, open, body>>

(* tx.send(chunk).await waits for room. *)
Forward ==
  /\ pump \in {"sending", "last"} /\ open /\ Len(channel) < Capacity
  /\ channel' = Append(channel, Head(lines)) /\ lines' = Tail(lines)
  /\ pump' = IF Len(lines) > 1 THEN pump ELSE IF pump = "last" THEN "ended" ELSE "reading"
  /\ UNCHANGED <<wire, fails, buf, received, open, body>>

(* MUTANT: the send error is ignored and the pump goes on to wait. *)
SendErrIgnored ==
  /\ pump \in {"sending", "last"} /\ ~open
  /\ UNCHANGED streamVars

(* send() fails because the receiver is gone: the task returns. *)
SendErr ==
  /\ pump \in {"sending", "last"} /\ ~open
  /\ pump' = "ended" /\ lines' = <<>>
  /\ UNCHANGED <<wire, fails, buf, channel, received, open, body>>

Receive ==
  /\ open /\ channel # <<>>
  /\ received' = Append(received, Head(channel)) /\ channel' = Tail(channel)
  /\ UNCHANGED <<wire, fails, buf, lines, pump, open, body>>

(* The consumer drops the stream. *)
DropStream ==
  /\ open /\ pump # "idle" /\ open' = FALSE /\ channel' = <<>>
  /\ UNCHANGED <<wire, fails, buf, lines, received, pump, body>>

PumpStep == ReadEnd \/ Forward \/ SendErr \/ \E n \in 1..Len(wire) : ReadChunk(n)

StreamNext == \/ Spawn \/ ReadEnd \/ Forward \/ SendErr \/ Receive \/ DropStream
              \/ \E n \in 1..Len(wire) : ReadChunk(n)

-----------------------------------------------------------------------------
Plain == /\ Range(body) \subseteq {"a", "n"}
         /\ \A l \in Range(LinesOf(body)) \cup {RestOf(body)} : Len(l) <= MaxBuffered
Complete == Parsed(LinesOf(Lossy(body))) \o IF fails THEN <<<<"error">>>> ELSE Parsed(<<RestOf(Lossy(body))>>)

(* The consumer gets the body's lines in order, none lost, doubled or cut,    *)
(* however the network cuts the bytes; stated for bodies of single-byte       *)
(* characters whose lines fit the buffer (sse.rs:19, 30, 66).                 *)
LinesWhole == Plain => IsPrefix(received \o channel, Complete)

(* The pump always ends, also when the consumer leaves while it waits for     *)
(* room; a consumer that stays has then got everything, an error included     *)
(* (sse.rs:69, 84).                                                           *)
StreamEnds ==
  (pump = "reading") ~> (pump = "ended" /\ (open => channel = <<>> /\ (Plain => received = Complete)))

(* The pump hands over every line of the body and always ends (sse.rs:19-84). *)
StreamWhole == []LinesWhole /\ StreamEnds

-----------------------------------------------------------------------------
(* genai/router/embedding_router.rs: one embed() call while the registry is   *)
(* replaced. Models are ranked by their number; a provider serves one model.  *)

CONSTANTS
  EmbedModels,      \* models, naturals: the ranking prefers the smaller
  FallbackDepth,            \* fallback_depth
  MaxReloads        \* bound on reload()

VARIABLES
  embedders,     \* models whose provider has an Embedder
  offered,       \* the registry: models that advertise Embeddings
  plan,          \* attempts left of the route
  embedAt,       \* "idle", "trying" or "done"
  tried,         \* the models called, in order
  failed,        \* whether last_err is set
  reply,           \* what embed() returned
  reloads,       \* history: reload() calls
  route          \* history: the plan as resolved

embedVars == <<embedders, offered, plan, embedAt, tried, failed, reply, reloads, route>>

EmbedInit ==
  /\ embedders \in SUBSET EmbedModels /\ offered \in SUBSET EmbedModels
  /\ plan = <<>> /\ embedAt = "idle" /\ tried = <<>> /\ failed = FALSE
  /\ reply = [kind |-> "none", attempts |-> 0] /\ reloads = 0 /\ route = <<>>

(* The capability strategy: Embeddings is among the required capabilities. *)
Ranked == SetToSortSeq(offered, LAMBDA a, b : a < b)

Returns(kind, n) == /\ embedAt' = "done" /\ reply' = [kind |-> kind, attempts |-> n]

(* resolve(), when embed() is called: the best model and fallback_depth more. *)
Resolve ==
  /\ embedAt = "idle"
  /\ plan' = SubSeq(Ranked, 1, Min({Len(Ranked), 1 + FallbackDepth})) /\ route' = plan'
  /\ IF Ranked = <<>> THEN Returns("NoRoute", 0) ELSE embedAt' = "trying" /\ UNCHANGED reply
  /\ UNCHANGED <<embedders, offered, tried, failed, reloads>>

Reload(models) ==
  /\ reloads < MaxReloads /\ reloads' = reloads + 1
  /\ offered' = models
  /\ UNCHANGED <<embedders, plan, embedAt, tried, failed, reply, route>>

SkipMissing ==
  /\ embedAt = "trying" /\ plan # <<>> /\ Head(plan) \notin embedders
  /\ plan' = Tail(plan)
  /\ UNCHANGED <<embedders, offered, embedAt, tried, failed, reply, reloads, route>>

(* embedder.embed(req).await: success, a transient error or a permanent one. *)
Embed(result) ==
  /\ embedAt = "trying" /\ plan # <<>> /\ Head(plan) \in embedders
  /\ tried' = Append(tried, Head(plan)) /\ plan' = Tail(plan)
  /\ CASE result = "ok" -> Returns("ok", Len(tried) + 1) /\ UNCHANGED failed
       [] result = "permanent" -> Returns("GenAi", Len(tried) + 1) /\ failed' = TRUE
       [] result = "transient" -> failed' = TRUE /\ UNCHANGED <<embedAt, reply>>
  /\ UNCHANGED <<embedders, offered, reloads, route>>

(* MUTANT: models without an embedder are counted as attempts. *)
ExhaustedCountsRoute ==
  /\ embedAt = "trying" /\ plan = <<>>
  /\ IF failed THEN Returns("AllRoutesFailed", Len(route)) ELSE Returns("NoRoute", 0)
  /\ UNCHANGED <<embedders, offered, plan, tried, failed, reloads, route>>

Exhausted ==
  /\ embedAt = "trying" /\ plan = <<>>
  /\ IF failed THEN Returns("AllRoutesFailed", Len(tried)) ELSE Returns("NoRoute", 0)
  /\ UNCHANGED <<embedders, offered, plan, tried, failed, reloads, route>>

EmbedNext ==
  \/ Resolve \/ SkipMissing \/ Exhausted
  \/ \E models \in SUBSET EmbedModels : Reload(models)
  \/ \E r \in {"ok", "transient", "permanent"} : Embed(r)

-----------------------------------------------------------------------------
(* A call gives up as AllRoutesFailed or NoRoute only after every model of    *)
(* the route it resolved, up to fallback_depth behind the best, was called or *)
(* had no embedder; a reload meanwhile changes nothing                        *)
(* (embedding_router.rs:81, 105).                                             *)
GaveUpHonest ==
  reply.kind \in {"AllRoutesFailed", "NoRoute"} =>
    /\ Range(tried) = Range(route) \cap embedders
    /\ reply.attempts = Len(tried)
    /\ Len(tried) > 0 <=> reply.kind = "AllRoutesFailed"

(* The models called are a part of the ranking the registry gave when embed() *)
(* was called, in its order and at most once each; a model that has an        *)
(* embedder is passed over only for a better one (embedding_router.rs:86).    *)
EmbedsInRankOrder ==
  /\ IsPrefix(tried, SelectSeq(route, LAMBDA m : m \in embedders))
  /\ reply.kind # "none" /\ reloads = 0 => Len(route) = Min({1 + FallbackDepth, Cardinality(offered)})

(* An embed() call tries the models of its route in order and says truthfully *)
(* why it gave up (embedding_router.rs:81-105).                               *)
EmbedsHonest == GaveUpHonest /\ EmbedsInRankOrder
=============================================================================
