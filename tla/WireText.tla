------------------------------ MODULE WireText ------------------------------
(* The text of requests, responses and event streams on the wire.             *)
EXTENDS TurboRouter, TLC, Text

(* The text of a request, from the REST client's builder to the handler of a  *)
(* Turbo route: ${name} substitution, the query string, Uri::parse, the head  *)
(* that write_request writes and read_request_head reads, split_target,       *)
(* match_path and query_param. Text is a sequence of characters; a scheme and *)
(* a port number are one character each, and a byte outside Unreserved has    *)
(* the two hexadecimal digits of HexOf.                                       *)

(* str::split_once, and str::replace of every occurrence (external). *)
FindText(s, pat) ==
  LET at == {i \in 1..Len(s) : Len(pat) <= Len(s) - i + 1 /\ SubSeq(s, i, i + Len(pat) - 1) = pat}
  IN IF at = {} THEN 0 ELSE CHOOSE i \in at : \A j \in at : i <= j

RECURSIVE Replace(_, _, _)
Replace(s, pat, v) ==
  LET i == FindText(s, pat)
  IN IF i = 0 THEN s
     ELSE SubSeq(s, 1, i - 1) \o v \o Replace(SubSeq(s, i + Len(pat), Len(s)), pat, v)

-----------------------------------------------------------------------------
HexOf == (" " :> <<"2", "0">>) @@ ("/" :> <<"2", "F">>) @@ ("&" :> <<"2", "6">>)
         @@ ("=" :> <<"3", "D">>) @@ ("%" :> <<"2", "5">>) @@ ("+" :> <<"2", "B">>)
         @@ ("?" :> <<"3", "F">>) @@ (":" :> <<"3", "A">>) @@ ("$" :> <<"2", "4">>)
         @@ ("{" :> <<"7", "B">>) @@ ("}" :> <<"7", "D">>)
Unreserved == {"a", "b", "k", "q", "2", "5", "0"}

(* MUTANT: a percent sign is taken for an unreserved byte. *)
UrlEncodeKeepsPercent(s) ==
  FlattenSeq([i \in 1..Len(s) |->
    IF s[i] \in Unreserved \cup {"%"} THEN <<s[i]>> ELSE <<"%">> \o HexOf[s[i]]])

(* url_encode *)
UrlEncode(s) ==
  FlattenSeq([i \in 1..Len(s) |->
    IF s[i] \in Unreserved THEN <<s[i]>> ELSE <<"%">> \o HexOf[s[i]]])

(* append_query *)
AppendQuery(url, query) ==
  IF query = <<>> THEN url
  ELSE url \o <<IF Contains(url, "?") THEN "&" ELSE "?">>
       \o Join([i \in 1..Len(query) |-> UrlEncode(query[i][1]) \o <<"=">> \o UrlEncode(query[i][2])],
               <<"&">>)

Placeholder(k) == <<"$", "{">> \o k \o <<"}">>

(* substitute_path: one parameter after the other over the whole text. *)
SubstitutePath(url, params) ==
  LET out == FoldLeft(LAMBDA u, p : Replace(u, Placeholder(p[1]), p[2]), url, params)
  IN IF FindText(out, <<"$", "{">>) # 0 THEN Fail ELSE [ok |-> TRUE, url |-> out]

-----------------------------------------------------------------------------
(* split_target *)
SplitTarget(target) ==
  LET i == Find(target, "?")
      path == IF i = 0 THEN target ELSE Before(target, i)
  IN [path |-> IF path = <<>> THEN <<"/">> ELSE path,
      query |-> IF i = 0 THEN None ELSE Some(After(target, i))]

DefaultPort == ("http" :> 80) @@ ("ws" :> 80) @@ ("https" :> 443) @@ ("wss" :> 443)
PortOf == ("80" :> 80) @@ ("443" :> 443) @@ ("8" :> 8)
PortText(n) == CHOOSE t \in DOMAIN PortOf : PortOf[t] = n

(* Uri::parse *)
UriParse(url) ==
  LET i == FindText(url, <<":", "/", "/">>)
      rest == SubSeq(url, i + 3, Len(url))
      cut == SelectInSeq(rest, LAMBDA c : c \in {"/", "?"})
      end == IF cut = 0 THEN Len(rest) + 1 ELSE cut
      authority == Before(rest, end)
      colon == FindLast(authority, ":")
      portText == After(authority, colon)
      host == IF colon = 0 THEN authority ELSE Before(authority, colon)
      st == SplitTarget(SubSeq(rest, end, Len(rest)))
  IN IF \/ i # 2 \/ url[1] \notin DOMAIN DefaultPort
        \/ colon # 0 /\ ~(Len(portText) = 1 /\ portText[1] \in DOMAIN PortOf)
        \/ host = <<>>
     THEN Fail
     ELSE [ok |-> TRUE, scheme |-> url[1], host |-> host,
           port |-> IF colon = 0 THEN DefaultPort[url[1]] ELSE PortOf[portText[1]],
           path |-> st.path, query |-> st.query]

(* Uri::is_tls, authority and request_target *)
IsTls(uri) == uri.scheme \in {"https", "wss"}
Authority(uri) ==
  IF uri.port = (IF IsTls(uri) THEN 443 ELSE 80) THEN uri.host
  ELSE uri.host \o <<":", PortText(uri.port)>>
RequestTarget(uri) == IF uri.query = None THEN uri.path ELSE uri.path \o <<"?">> \o uri.query[2]

-----------------------------------------------------------------------------
(* strip_crlf, HeaderMap::set, append, get and content_length_checked. The    *)
(* names "L" and "l" are Content-Length in two spellings; a value is a number *)
(* or Junk, which does not parse.                                             *)
StripCrLf(s) == SelectSeq(s, LAMBDA c : c \notin {"\r", "\n"})
SameName(a, b) == LET low(n) == [i \in 1..Len(n) |-> IF n[i] = "L" THEN "l" ELSE n[i]] IN low(a) = low(b)

HeaderAppend(headers, name, v) == Append(headers, <<StripCrLf(name), StripCrLf(v)>>)
HeaderSet(headers, name, v) ==
  HeaderAppend(SelectSeq(headers, LAMBDA h : ~SameName(h[1], StripCrLf(name))), name, v)
HeaderGet(headers, name) ==
  LET i == SelectInSeq(headers, LAMBDA h : SameName(h[1], name))
  IN IF i = 0 THEN None ELSE Some(headers[i][2])

LengthOf(v) == IF Trim(v, {" "}) = <<"1">> THEN Some(1) ELSE IF Trim(v, {" "}) = <<"2">> THEN Some(2) ELSE None
ContentLength(headers) == LET v == HeaderGet(headers, <<"l">>) IN IF v = None THEN None ELSE LengthOf(v[2])

(* Some(None) is Ok(None), Some(Some(n)) is Ok(Some(n)), None is an error. *)
ContentLengthChecked(headers) ==
  LET mine == SelectSeq(headers, LAMBDA h : SameName(h[1], <<"l">>))
      values == {LengthOf(mine[i][2]) : i \in 1..Len(mine)}
  IN CASE mine = <<>> -> Some(None)
       [] None \in values \/ Cardinality(values) > 1 -> None
       [] OTHER -> Some(CHOOSE n \in values : TRUE)

(* write_request's header lines, and read_headers of those lines. *)
HeaderLines(headers) ==
  [i \in 1..Len(headers) |-> headers[i][1] \o <<":", " ">> \o headers[i][2] \o <<"\r", "\n">>]

ReadHeaders(lines) ==
  FoldLeft(LAMBDA hs, line :
             LET t == TrimEnd(line, {"\r", "\n"})
                 i == Find(t, ":")
             IN IF i = 0 THEN hs
                ELSE HeaderAppend(hs, Trim(Before(t, i), {" "}), Trim(After(t, i), {" "})),
           <<>>, lines)

(* read_request_head: the second word of the request line. *)
ReadTarget(target) == Split(target, " ")[1]

-----------------------------------------------------------------------------
(* percent_decode: a percent sign that no two hexadecimal digits follow stays.*)
RECURSIVE PercentDecode(_)
PercentDecode(s) ==
  LET hex == {c \in DOMAIN HexOf : Len(s) >= 3 /\ HexOf[c] = <<s[2], s[3]>>}
  IN CASE s = <<>> -> <<>>
       [] s # <<>> /\ s[1] = "+" -> <<" ">> \o PercentDecode(Tail(s))
       [] s # <<>> /\ s[1] = "%" /\ hex # {} ->
            <<CHOOSE c \in hex : TRUE>> \o PercentDecode(SubSeq(s, 4, Len(s)))
       [] OTHER -> <<s[1]>> \o PercentDecode(Tail(s))

(* Ctx::query_param: the key is compared as it was sent, the value decoded. *)
QueryParam(query, name) ==
  LET pairs == IF query = None THEN <<>> ELSE Split(query[2], "&")
      keyOf(p) == IF Find(p, "=") = 0 THEN p ELSE Before(p, Find(p, "="))
      i == SelectInSeq(pairs, LAMBDA p : keyOf(p) = name)
  IN IF i = 0 THEN None
     ELSE Some(IF Find(pairs[i], "=") = 0 THEN <<>> ELSE PercentDecode(After(pairs[i], Find(pairs[i], "="))))

(* What the handler of a route sees of a request built with these parts. *)
Received(base, route, params, query) ==
  LET sub == SubstitutePath(base \o route, params)
      uri == IF sub.ok THEN UriParse(AppendQuery(sub.url, query)) ELSE Fail
      st == SplitTarget(ReadTarget(RequestTarget(uri)))
  IN IF ~uri.ok THEN Fail
     ELSE [ok |-> TRUE, host |-> Authority(uri), path |-> st.path, query |-> st.query]

-----------------------------------------------------------------------------
(* http/sse.rs: the frame of a server-sent event and the incremental decoder. *)
(* A field name is one character; a retry time is the character "7".          *)

Event(data, event, id, retry, comment) ==
  [data |-> data, event |-> event, id |-> id, retry |-> retry, comment |-> comment]
NoEvent == Event(<<>>, None, None, None, None)

Line(name, text) == name \o <<":", " ">> \o text \o <<"\n">>
LinesOf(name, text) == FlattenSeq([i \in 1..Len(Split(text, "\n")) |-> Line(name, Split(text, "\n")[i])])

(* Event::to_frame *)
ToFrame(e) ==
  LET field(name, v) == IF v = None THEN <<>> ELSE Line(name, v[2])
  IN (IF e.comment = None THEN <<>> ELSE LinesOf(<<>>, e.comment[2]))
     \o field(<<"event">>, e.event) \o field(<<"id">>, e.id) \o field(<<"retry">>, e.retry)
     \o (IF e.data # <<>> \/ (e.comment = None /\ e.event = None) THEN LinesOf(<<"data">>, e.data) ELSE <<>>)
     \o <<"\n">>

-----------------------------------------------------------------------------
NewDecoder == [buf |-> <<>>, cur |-> NoEvent, dirty |-> FALSE]

StripSpace(s) == IF s # <<>> /\ s[1] = " " THEN Tail(s) ELSE s

(* SseDecoder::field, of a line that is not empty. *)
Field(cur, line) ==
  LET colon == Find(line, ":")
      name == IF colon = 0 THEN line ELSE Before(line, colon)
      value == IF colon = 0 THEN <<>> ELSE StripSpace(After(line, colon))
      before == IF cur.comment \in {None, Some(<<>>)} THEN <<>> ELSE Append(cur.comment[2], "\n")
  IN CASE colon = 1 -> [cur EXCEPT !.comment = Some(before \o StripSpace(Tail(line)))]
       [] colon # 1 /\ name = <<"data">> -> [cur EXCEPT !.data = Append(@ \o value, "\n")]
       [] colon # 1 /\ name = <<"event">> -> [cur EXCEPT !.event = Some(value)]
       [] colon # 1 /\ name = <<"id">> -> [cur EXCEPT !.id = Some(value)]
       [] colon # 1 /\ name = <<"retry">> /\ value = <<"7">> -> [cur EXCEPT !.retry = Some(value)]
       [] OTHER -> cur

(* One turn of push's loop: dec without its first line, and the event that    *)
(* an empty line completes.                                                   *)
TakeLine(dec) ==
  LET nl == Find(dec.buf, "\n")
      raw == Before(dec.buf, nl)
      line == IF raw # <<>> /\ Last(raw) = "\r" THEN Front(raw) ELSE raw
      rest == [dec EXCEPT !.buf = After(@, nl)]
      data == dec.cur.data
      whole == IF data # <<>> /\ Last(data) = "\n" THEN Front(data) ELSE data
  IN CASE line # <<>> -> [dec |-> [rest EXCEPT !.cur = Field(@, line), !.dirty = TRUE], events |-> <<>>]
       [] line = <<>> /\ dec.dirty ->
            [dec |-> [rest EXCEPT !.cur = NoEvent, !.dirty = FALSE],
             events |-> <<[dec.cur EXCEPT !.data = whole]>>]
       [] OTHER -> [dec |-> rest, events |-> <<>>]

(* MUTANT: what the buffer holds of an unfinished line is lost. *)
PushForgets(dec, bytes) ==
  LET RECURSIVE Drain(_, _)
      Drain(d, events) ==
        IF Find(d.buf, "\n") = 0 THEN [dec |-> d, events |-> events]
        ELSE LET r == TakeLine(d) IN Drain(r.dec, events \o r.events)
  IN Drain([dec EXCEPT !.buf = bytes], <<>>)

(* SseDecoder::push *)
Push(dec, bytes) ==
  LET RECURSIVE Drain(_, _)
      Drain(d, events) ==
        IF Find(d.buf, "\n") = 0 THEN [dec |-> d, events |-> events]
        ELSE LET r == TakeLine(d) IN Drain(r.dec, events \o r.events)
  IN Drain([dec EXCEPT !.buf = @ \o bytes], <<>>)
=============================================================================
