------------------------------- MODULE MCHttp -------------------------------
(* Instances of Http for TLC: two concurrent requests of several kinds.      *)
EXTENDS Http

CONSTANTS r1, r2

Get     == [method |-> "GET", body |-> FALSE, framing |-> "plain", close |-> FALSE, expect |-> FALSE]
Post    == [Get EXCEPT !.method = "POST", !.body = TRUE]
HeadReq == [Get EXCEPT !.method = "HEAD"]
Pair(a, b) == [r \in {r1, r2} |-> IF r = r1 THEN a ELSE b]

MCTraffic ==
  {Pair(Post, Get), Pair(HeadReq, Get), Pair(Get, [Post EXCEPT !.framing = "conflicting"]),
   Pair([Post EXCEPT !.framing = "too large"], Get), Pair([Get EXCEPT !.close = TRUE], Post)}

(* One pair, for the run about re-sending.                                   *)
MCPostAfterGet == {Pair(Get, Post)}

MCResponses ==
  {[status |-> 200, parts |-> 1, stream |-> FALSE, close |-> FALSE],
   [status |-> 200, parts |-> 1, stream |-> TRUE,  close |-> FALSE],
   [status |-> 204, parts |-> 0, stream |-> FALSE, close |-> FALSE]}
=============================================================================
