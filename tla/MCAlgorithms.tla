---------------------------- MODULE MCAlgorithms ----------------------------
(* The pure algorithms of the repository over every small input. A state is   *)
(* one algorithm, topic, and one input to it, subject; a step makes the input *)
(* one symbol longer. What each algorithm computes is compared with what it   *)
(* is for, on the first inputs and on the one each step arrives at.           *)
EXTENDS WireText, TextFormats, Providers

VARIABLES topic, subject

vars == <<topic, subject>>

ScaledI64 == -4..3
ScaledU64 == 0..7

(* The symbols of each growing input, and how long it may get. *)
UrlSymbols == {"a", "%", "2", "5", " ", "+", "&", "/", "?", "$", "{"}
HeaderSymbols ==
  {"set", "append"} \X {<<"l">>, <<"L">>, <<"x", "\n">>}
                    \X {<<"1">>, <<" ", "1">>, <<"2">>, <<"a", ":", "\r", "\n", "1">>}
JsonSymbols == {Tok(c) : c \in {"{", "}", "[", "]", ":", ",", "null"}}
               \cup {Num(FALSE, 10), StrV("a"), StrV("b")}
CharSymbols == {"a", "\"", "\\", "\n", "n", "/", "u", "^", "@"}
XmlSymbols == {"<", ">", "/", "?", "!--", "--", "a"}
SettingKeys == {<<"a">>, <<"a", "b">>, <<"b">>, <<"a", "">>}
SettingSymbols == {<<"env", k>> : k \in SettingKeys} \cup {<<"line", k>> : k \in SettingKeys \cup {<<>>}}
                  \cup ({"eq", "sep", "bare"} \X SettingKeys) \cup {<<"word">>}
LineSymbols == ({"eq", "sep", "short", "attached"} \X {<<>>, <<"a">>, <<"-", "-">>, <<"-", "h">>, <<"=", "a">>})
               \cup {<<"cluster", <<"a">>>>, <<"quiet", <<"quiet">>>>, <<"quiet", <<>>>>, <<"req", <<"2">>>>, <<"sub">>, <<"end">>}
               \cup {<<"pos", t>> : t \in {<<"a">>, <<"s">>, <<"-">>, <<"-", "h">>, <<"-", "-">>}}
               \cup {<<"env", v>> : v \in {"R", "D"}}
ChatSymbols == {Message("system", <<TextPart(<<"s">>)>>), Message("user", <<TextPart(<<"a">>), TextPart(<<"b">>)>>),
                Message("user", <<TextPart(<<"a">>), Image("i"), TextPart(<<"b">>)>>), Message("user", <<FileRef(<<"f">>)>>),
                Message("assistant", <<TextPart(<<"c">>), ToolCall("1", "n", Null)>>),
                Message("tool", <<ToolResult("1", Null)>>), Message("system", <<>>)}
AnswerSymbols == {<<"text", t>> : t \in {<<>>, <<"a">>, <<"b", "a">>}} \cup {<<"call", v>> : v \in {Null, IntV(1), ObjV(<<>>)}}
                 \cup {<<"finish", f>> : f \in {"stop", "length"}} \cup {<<"usage", 1, 2>>, <<"usage", 2, 3>>}
AcceptSymbols == JsonTypes \cup XmlTypes \cup YamlTypes \cup TomlTypes
                 \cup {<<"*", "*">>, <<"application", "*">>, <<"text", "*">>, <<"text", "html">>, <<"application", "a+json">>}
TemplateSymbols == {"{", "}", "a", ".", " "}
Symbols == [url |-> UrlSymbols, header |-> HeaderSymbols, json |-> JsonSymbols, object |-> JsonSymbols,
            chars |-> CharSymbols, xml |-> XmlSymbols, settings |-> SettingSymbols, line |-> LineSymbols,
            chat |-> ChatSymbols, answer |-> AnswerSymbols, accept |-> AcceptSymbols, template |-> TemplateSymbols]
Longest == [url |-> 4, header |-> 3, json |-> 5, object |-> 8, chars |-> 4, xml |-> 5, settings |-> 4, line |-> 3,
            chat |-> 4, answer |-> 4, accept |-> 3, template |-> 7]
Seed(w) == IF w = "object" THEN <<Tok("{"), StrV("a"), Tok(":")>> ELSE <<>>

Grow ==
  /\ topic \in DOMAIN Symbols /\ Len(subject) < Longest[topic]
  /\ \E c \in Symbols[topic] : subject' = Append(subject, c)
  /\ UNCHANGED topic

(* Routers of up to two routes, with and without a filtered group. *)
Paths == {<<"/", "a">>, <<"/", "a", "/">>, <<"/", ":", "k">>, <<"/", "a", "/", ":", "k">>}
SomeRoutes == {Register(p, m) : p \in Paths, m \in {<<"GET">>, <<"POST", "GET">>}}
Routers ==
  {[routes |-> r, strict |-> s, auth |-> a, filters |-> f] :
     r \in {<<x>> : x \in SomeRoutes} \cup (SomeRoutes \X SomeRoutes), s \in BOOLEAN, a \in BOOLEAN,
     f \in {<<>>, <<GroupFilter(<<"/", "a", "/">>, "g"), RouterFilter("f")>>}}

GrowPath ==
  /\ topic = "route" /\ Len(subject.req.path) < 4
  /\ \E c \in {"/", "a", "b"} : subject' = [subject EXCEPT !.req.path = Append(@, c)]
  /\ UNCHANGED topic

Scalars == {Null, NaN, BoolV(TRUE), IntV(-4), IntV(3), UIntV(3), UIntV(7), FloatV(15), FloatV(20), StrV("a")}
Lists(S) == {<<>>} \cup {<<x>> : x \in S} \cup (S \X S)
Entries(S) == {"a", "b"} \X S
Flat == Scalars \cup {ArrV(a) : a \in Lists(Scalars)} \cup {ObjV(o) : o \in Lists(Entries(Scalars))}
Nested == Flat \cup {ArrV(<<v>>) : v \in Flat} \cup {ObjV(<<<<"a", v>>>>) : v \in Flat}
               \cup {ArrV(<<ArrV(<<ObjV(<<>>)>>), v>>) : v \in Scalars}

(* Values whose strings a text format could take for something else. *)
Words == {<<>>, <<"a">>, <<"null">>, <<"1">>, <<"-", "1">>, <<"-">>, <<"#">>, <<" ", "a">>, <<"a", ":">>,
          <<":", " ", "a">>, <<"\"">>, <<"'", "'">>, <<"\\", "\"">>, <<"a", "\n">>, <<"[", "]">>, <<"~">>,
          <<"<", "a">>, <<"&", "lt", ";">>}
Leaves == {Null, NaN, BoolV(TRUE), IntV(-4), UIntV(3), UIntV(7), FloatV(-5), FloatV(20)} \cup {StrV(w) : w \in Words}
Keys == {<<"a">>, <<"b">>}
OddKeys == {<<>>, <<"1">>, <<"#">>, <<"-">>, <<"a", ":">>, <<"\"">>, <<" ">>}
Trees1 == Leaves \cup {ArrV(a) : a \in Lists(Leaves)} \cup {ObjV(o) : o \in Lists(Keys \X Leaves)}
Small1 == {ArrV(a) : a \in Lists({Null, StrV(<<"a">>)})} \cup {ObjV(o) : o \in Lists(Keys \X {IntV(1), StrV(<<>>)})}
Trees2 == {ArrV(<<x, y>>) : x \in Small1, y \in Small1} \cup {ObjV(<<<<<<"a">>, x>>, <<<<"b">>, y>>>>) : x \in Small1, y \in Small1}
          \cup {ObjV(<<<<<<"a">>, x>>, <<<<"a">>, y>>>>) : x \in Small1, y \in Small1}
Trees == Trees1 \cup Trees2 \cup {ObjV(<<<<k, x>>>>) : k \in OddKeys, x \in Small1 \cup {Null}}
         \cup {ArrV(<<ObjV(<<<<<<"a">>, ArrV(<<x, Null>>)>>>>)>>) : x \in Small1}

(* Schemas of two keywords, for a value and what is below it. *)
Keywords == {<<"type", StrV(t)>> : t \in {"integer", "array", "object"}}
            \cup {<<"minimum", IntV(1)>>, <<"maximum", FloatV(15)>>, <<"minItems", IntV(1)>>, <<"maxItems", IntV(1)>>,
                  <<"const", IntV(3)>>, <<"enum", ArrV(<<IntV(1), Null>>)>>, <<"required", ArrV(<<StrV("a"), StrV("b")>>)>>}
Below1 == {<<"items", ObjV(<<k>>)>> : k \in Keywords} \cup {<<"properties", ObjV(<<<<"a", ObjV(<<k>>)>>>>)>> : k \in Keywords}
Schemas == {ObjV(<<>>)} \cup {ObjV(<<k>>) : k \in Keywords \cup Below1} \cup {ObjV(<<j, k>>) : j \in Keywords, k \in Keywords \cup Below1}
Numbers == {Null, IntV(-4), IntV(1), IntV(3), UIntV(7), FloatV(15)}
SchemaData == Numbers \cup {ArrV(a) : a \in Lists(Numbers)} \cup {ObjV(o) : o \in Lists({"a", "b"} \X {Null, IntV(1), IntV(3)})}

(* Events of every shape; the bytes of their frames arrive in any chunks. *)
Texts == {<<>>, <<"a">>, <<"\n">>, <<"a", "\n">>, <<"\n", "a">>, <<" ", ":">>, <<"a", "\r">>, <<"\r", "\n", "a">>}
SomeEvents ==
  {Event(d, None, None, None, c) : d \in Texts, c \in {None} \cup {Some(t) : t \in Texts}}
  \cup {Event(d, e, i, r, None) : d \in Texts, e \in {None, Some(<<" ", "a">>)},
        i \in {None, Some(<<>>)}, r \in {None, Some(<<"7">>)}}

Arrive ==
  /\ topic = "events" /\ subject.left # <<>>
  /\ \E n \in 1..Len(subject.left) :
       LET r == Push(subject.dec, SubSeq(subject.left, 1, n))
       IN subject' = [subject EXCEPT !.dec = r.dec, !.got = @ \o r.events,
                                   !.left = SubSeq(@, n + 1, Len(@))]
  /\ UNCHANGED topic

Init ==
  \/ topic \in DOMAIN Symbols /\ subject = Seed(topic)
  \/ /\ topic = "route"
     /\ \E r \in Routers, q \in BOOLEAN, by \in SUBSET {"f", "g"} :
          subject = [router |-> r,
                     req |-> [method |-> "GET", path |-> <<"/">>, authed |-> q, rejectedBy |-> by]]
  \/ topic = "value" /\ subject \in Nested
  \/ topic = "tree" /\ subject \in Trees
  \/ topic = "schema" /\ subject \in Schemas \X SchemaData
  \/ /\ topic = "events"
     /\ \E sent \in {<<x>> : x \in SomeEvents} \cup (SomeEvents \X {Event(<<"a">>, None, None, None, None)}) :
          subject = [sent |-> sent, dec |-> NewDecoder, got |-> <<>>,
                     left |-> FlattenSeq([i \in 1..Len(sent) |-> ToFrame(sent[i])])]

Next == Grow \/ GrowPath \/ Arrive

Spec == Init /\ [][Next]_vars

-----------------------------------------------------------------------------
Base == <<"http", ":", "/", "/", "a">>

(* A query value of any bytes, and a path value that is one segment, reach    *)
(* the handler as the caller gave them, whatever the client encodes and the   *)
(* server decodes on the way; the host stays the one of the base URL          *)
(* (rest/client/request.rs:130 and 176, http/core.rs:250, turbo/mod.rs:76).   *)
ParametersArrive(input) ==
  LET q == Received(Base, <<>>, <<>>, <<<<<<"b">>, <<"2">>>>, <<<<"q">>, input>>, <<<<"q">>, <<>>>>>>)
      p == Received(Base, <<"/">> \o Placeholder(<<"k">>), <<<<<<"k">>, input>>>>, <<<<<<"q">>, <<"a">>>>>>)
      m == MatchPath(ParsePattern(<<"/", ":", "k">>), p.path)
      segment == input # <<>> /\ Range(input) \cap {"/", "?", " "} = {} /\ FindText(input, <<"$", "{">>) = 0
  IN /\ q.ok /\ q.host = <<"a">> /\ q.path = <<"/">>
     /\ QueryParam(q.query, <<"q">>) = Some(input) /\ QueryParam(q.query, <<"b">>) = Some(<<"2">>)
     /\ segment => /\ p.ok /\ p.host = <<"a">> /\ m.ok
                   /\ m.params[<<"k">>] = input /\ QueryParam(p.query, <<"q">>) = Some(<<"a">>)

HeadersOf(ops) ==
  FoldLeft(LAMBDA hs, op : IF op[1] = "set" THEN HeaderSet(hs, op[2], op[3]) ELSE HeaderAppend(hs, op[2], op[3]),
           <<>>, ops)

(* However a header map was filled, the lines written from it read back as    *)
(* the same names and trimmed values, one header for each entry; and a length *)
(* the server accepts is the one length that every Content-Length line gives  *)
(* (http/core.rs:151 and 189, http/io.rs:61 and 122).                         *)
HeadersSurvive(input) ==
  LET hs == HeadersOf(input)
      read == ReadHeaders(HeaderLines(hs))
      len == ContentLengthChecked(read)
  IN /\ read = [i \in 1..Len(hs) |-> <<hs[i][1], Trim(hs[i][2], {" "})>>]
     /\ len # None /\ len # Some(None) =>
          /\ ContentLength(read) = len[2]
          /\ \A i \in 1..Len(hs) : SameName(hs[i][1], <<"l">>) => LengthOf(hs[i][2]) = len[2]

(* Of the routes that match a request the first registered answers, as        *)
(* DispatchesFirst says, over all small routers (turbo/mod.rs:766).           *)
RoutesFirst(input) == DispatchesFirst(input.router, input.req)

(* The authenticator and a group's filters come before the handlers they      *)
(* guard, as Guarded says, over all small routers (turbo/mod.rs:755, 689).    *)
GroupsGuarded(input) == Guarded(input.router, input.req, <<"/", "a">>)

RequestsReachHandlersFor(kind, input) ==
  /\ kind = "url" => ParametersArrive(input)
  /\ kind = "header" => HeadersSurvive(input)
  /\ kind = "route" => RoutesFirst(input)
  /\ kind = "route" => GroupsGuarded(input)

(* From the caller's parameters to the handler: what was asked for arrives,   *)
(* and it arrives at the route and behind the guards that were registered for *)
(* it.                                                                        *)
RequestsReachHandlers ==
  RequestsReachHandlersFor(topic, subject) /\ [][RequestsReachHandlersFor(topic', subject')]_vars

-----------------------------------------------------------------------------
DecodeTypes ==
  {<<"i8">>, <<"Vec", <<"u8">>>>, <<"Option", <<"Vec", <<"i8">>>>>>, <<"Map", <<"Option", <<"u8">>>>>>,
   <<"Struct", <<<<"a", <<"Option", <<"i8">>>>>>>>>>,
   <<"Struct", <<<<"a", <<"Vec", <<"bool">>>>>>, <<"b", <<"String">>>>>>>>}

(* Where the lenient decoding from a tree would accept what JSON may not say. *)
RECURSIVE ArraysWhereVec(_, _)
ArraysWhereVec(T, v) ==
  LET field(i) == FieldOf(T[2], v[2][i][1])
      known == {i \in 1..Len(v[2]) : field(i) # 0}
      parts == CASE T[1] = "Vec" /\ Tag(v) = "arr" -> {<<T[2], v[2][i]>> : i \in 1..Len(v[2])}
                 [] T[1] = "Option" /\ Tag(v) # "null" -> {<<T[2], v>>}
                 [] T[1] = "Map" /\ Tag(v) = "obj" -> {<<T[2], v[2][i][2]>> : i \in 1..Len(v[2])}
                 [] T[1] = "Struct" /\ Tag(v) = "obj" -> {<<T[2][field(i)][2], v[2][i][2]>> : i \in known}
                 [] OTHER -> {}
  IN /\ T[1] = "Vec" => Tag(v) = "arr"
     /\ T[1] \in {"Map", "Struct"} => Tag(v) = "obj"
     /\ \A part \in parts : ArraysWhereVec(part[1], part[2])

(* Decoding a type straight from the text and decoding it from the parsed     *)
(* tree are two separate parsers: they accept the same texts, but for a Vec   *)
(* that is no array, and build the same value (codec/json.rs:30, 54, 509).    *)
StreamingAgrees(input) ==
  LET tree == FromStr(input)
  IN \A T \in DecodeTypes :
       LET stream == DecodeText(T, input)
       IN /\ stream.ok => tree.ok /\ Decode(T, tree.v) = stream
          /\ tree.ok => ~ArraysWhereVec(T, tree.v) \/ Decode(T, tree.v) = stream

(* A value of a type survives being encoded and decoded, also the tolerant    *)
(* way through a tree that formats without arrays need, in which null is no   *)
(* item and anything else one (codec/traits.rs:319, codec/json.rs:30).        *)
TypedRoundTrip(input) ==
  \A T \in DecodeTypes :
    LET x == Decode(T, input)
        text == Emit(Encode(T, x.v))
    IN x.ok => DecodeText(T, text) = x /\ FromStr(text).ok /\ Decode(T, FromStr(text).v) = x

RECURSIVE DepthOf(_), AsRead(_)
DepthOf(v) ==
  CASE Tag(v) = "arr" -> 1 + Max({0} \cup {DepthOf(v[2][i]) : i \in 1..Len(v[2])})
    [] Tag(v) = "obj" -> 1 + Max({0} \cup {DepthOf(v[2][i][2]) : i \in 1..Len(v[2])})
    [] OTHER -> 0
AsRead(v) ==
  CASE Tag(v) = "uint" /\ v[2] \in I64 -> IntV(v[2])
    [] Tag(v) = "nan" -> Null
    [] Tag(v) = "arr" -> ArrV([i \in 1..Len(v[2]) |-> AsRead(v[2][i])])
    [] Tag(v) = "obj" -> ObjV([i \in 1..Len(v[2]) |-> <<v[2][i][1], AsRead(v[2][i][2])>>])
    [] OTHER -> v

(* A Value nested no deeper than MAX_DEPTH reads back from its own text, but  *)
(* for the sign of a small integer and a NaN; a deeper one is refused         *)
(* (codec/json.rs:47 and 54; tests/codec_fuzz.rs:4).                          *)
JsonRoundTrip(input) ==
  FromStr(Emit(input)) = IF DepthOf(input) <= MaxDepth THEN Done(AsRead(input)) ELSE Fail

(* Every string reads back from its literal, and a literal ends at its own    *)
(* closing quote, whatever follows it (codec/json.rs:159 and 351).            *)
StringsRoundTrip(input) ==
  \A rest \in {<<>>, <<"\"">>, <<"\\", "\"">>} :
    ParseString(WriteString(input) \o rest) = Ok(Len(WriteString(input)) + 1, input)

JsonFaithfulFor(kind, input) ==
  /\ kind \in {"json", "object"} => StreamingAgrees(input)
  /\ kind = "value" => TypedRoundTrip(input)
  /\ kind = "value" => JsonRoundTrip(input)
  /\ kind = "chars" => StringsRoundTrip(input)

(* JSON in and out: the two parsers and the writer agree, over trees, typed   *)
(* values and strings (codec/json.rs).                                        *)
JsonFaithful ==
  JsonFaithfulFor(topic, subject) /\ [][JsonFaithfulFor(topic', subject')]_vars

RECURSIVE BlockDepth(_), AsYaml(_), ColonsApart(_)
BlockDepth(v) ==
  CASE Tag(v) = "arr" /\ IsBlock(v) -> 1 + Max({BlockDepth(v[2][i]) : i \in 1..Len(v[2])})
    [] Tag(v) = "obj" /\ IsBlock(v) -> 1 + Max({BlockDepth(v[2][i][2]) : i \in 1..Len(v[2])})
    [] OTHER -> 0
AsYaml(v) ==
  CASE Tag(v) = "float" /\ v[2] % 10 = 0 -> ParseNumber(Num(FALSE, v[2]))
    [] Tag(v) = "arr" -> ArrV([i \in 1..Len(v[2]) |-> AsYaml(v[2][i])])
    [] Tag(v) = "obj" -> ObjV([i \in 1..Len(v[2]) |-> <<v[2][i][1], AsYaml(v[2][i][2])>>])
    [] OTHER -> AsRead(v)
(* Only the value of a mapping entry may hold a colon and a space. *)
HasColon(s) == FindText(s, <<":", " ">>) # 0
ColonsApart(v) ==
  CASE Tag(v) = "str" -> ~HasColon(v[2])
    [] Tag(v) = "arr" -> \A i \in 1..Len(v[2]) : ColonsApart(v[2][i])
    [] Tag(v) = "obj" -> \A i \in 1..Len(v[2]) :
                           ~HasColon(v[2][i][1]) /\ (Tag(v[2][i][2]) = "str" \/ ColonsApart(v[2][i][2]))
    [] OTHER -> TRUE

(* A Value reads back from its YAML text, whatever its strings look like, but *)
(* for the kind of a number and an empty document; only a colon and a space   *)
(* in a key or in an item of a sequence is taken for a mapping, quoted or     *)
(* not, and a document that is one negative number for a sequence             *)
(* (codec/yaml.rs:55, 145, 212, 222, 254 and 292).                            *)
YamlRoundTrip(input) ==
  ColonsApart(input) /\ ~(Tag(input) \in {"int", "float"} /\ input[2] < 0) =>
    YamlFromStr(WriteBlock(input, 0)) =
      IF BlockDepth(input) > MaxDepth + 1 THEN Fail
      ELSE Done(IF Tag(input) \in {"arr", "obj"} /\ ~IsBlock(input) THEN Null ELSE AsYaml(input))

(* The elements an entry is written as: one for each item of an array. *)
RECURSIVE ElementsOf(_, _), XmlDepth(_), AsXml(_)
ElementsOf(tag, v) ==
  IF Tag(v) = "arr" /\ v[2] # <<>> THEN FlattenSeq([i \in 1..Len(v[2]) |-> ElementsOf(tag, v[2][i])])
  ELSE <<<<tag, v>>>>
ChildrenOf(v) ==
  CASE Tag(v) = "obj" -> FlattenSeq([i \in 1..Len(v[2]) |-> ElementsOf(v[2][i][1], v[2][i][2])])
    [] Tag(v) = "arr" -> FlattenSeq([i \in 1..Len(v[2]) |-> ElementsOf(<<"item">>, v[2][i])])
    [] OTHER -> <<>>
XmlDepth(v) == Max({0} \cup {1 + XmlDepth(ChildrenOf(v)[i][2]) : i \in 1..Len(ChildrenOf(v))})
AsXml(v) ==
  LET kids == IF Tag(v) = "arr" /\ v[2] = <<>> THEN <<>> ELSE ChildrenOf(v)
      tags == FoldLeft(LAMBDA acc, k : IF Contains(acc, k[1]) THEN acc ELSE Append(acc, k[1]), <<>>, kids)
      of(tag) == LET same == SelectSeq(kids, LAMBDA k : k[1] = tag)
                 IN IF Len(same) = 1 THEN AsXml(same[1][2]) ELSE ArrV([i \in 1..Len(same) |-> AsXml(same[i][2])])
      text == CASE Tag(v) = "str" -> Trim(v[2], {" ", "\n"})
                [] Tag(v) \in {"null", "arr", "obj"} -> <<>>
                [] OTHER -> PlainText(v)
  IN CASE kids # <<>> -> ObjV([i \in 1..Len(tags) |-> <<tags[i], of(tags[i])>>])
       [] kids = <<>> /\ text = <<>> -> Null
       [] OTHER -> StrV(text)
NamesOnly(v) == Tag(v) = "obj" => \A i \in 1..Len(v[2]) : v[2][i][1] \in Keys

(* A Value with element names for keys reads back from its XML text as the    *)
(* scalars' texts, with every item of every array under the array's key, in   *)
(* order; one nested deeper than MAX_DEPTH is refused (codec/xml.rs:74, 249,  *)
(* 365).                                                                      *)
XmlRoundTrip(input) ==
  NamesOnly(input) =>
    XmlFromStr(XmlEncode(input)) = IF XmlDepth(input) > MaxDepth THEN Fail ELSE Done(AsXml(input))

(* Every declaration and comment is closed. *)
MarksClosed(t) ==
  \A i \in 1..Len(t) :
    /\ Starts(t, i, <<"<", "?">>) => \E j \in i..Len(t) : Starts(t, j, <<"?", ">">>)
    /\ Starts(t, i, <<"<", "!--">>) => \E j \in (i + 2)..Len(t) : Starts(t, j, <<"--", ">">>)

(* The XML parser returns Ok or Err on any text whose marks are closed. After *)
(* one that is not, skip_prolog leaves the position past the end of the input *)
(* that starts_with then slices (codec/xml.rs:185, 203, 217).                 *)
XmlParserReturns(input) == MarksClosed(input) => "ok" \in DOMAIN XmlFromStr(input)

(* The assignments an input makes, with the place of each for its value. *)
Layer(items, kinds) ==
  SelectSeq([i \in 1..Len(items) |-> <<items[i][1], items[i][2], IF items[i][1] = "bare" THEN StrV("true") ELSE StrV(ToString(i))>>],
            LAMBDA x : x[1] \in kinds)
SettingItems(items) == [i \in 1..Len(items) |-> IF items[i] = <<"word">> THEN <<"word", <<>>>> ELSE items[i]]
Related(k, l) == IsPrefix(k, l) \/ IsPrefix(l, k)
Surviving(layer) ==
  LET last(i) == ~\E j \in (i + 1)..Len(layer) : Related(layer[i][2], layer[j][2])
  IN SelectSeq([i \in 1..Len(layer) |-> <<last(i), layer[i][2], layer[i][3]>>], LAMBDA x : x[1])
ArgTokens(items) ==
  FlattenSeq([i \in 1..Len(items) |->
    CASE items[i][1] = "eq" -> <<<<"flag", items[i][2], Some(StrV(ToString(i)))>>>>
      [] items[i][1] = "sep" -> <<<<"flag", items[i][2], None>>, <<"word", ToString(i)>>>>
      [] items[i][1] = "bare" -> <<<<"flag", items[i][2], None>>>>
      [] items[i][1] = "word" -> <<<<"word", "x">>>>
      [] OTHER -> <<>>])
RECURSIVE LeavesOf(_)
LeavesOf(v) ==
  IF Tag(v) # "obj" THEN {<<<<>>, v>>}
  ELSE UNION {{<<<<v[2][i][1]>> \o l[1], l[2]>> : l \in LeavesOf(v[2][i][2])} : i \in 1..Len(v[2])}

(* A setting has the value of the last layer that says anything of its key:   *)
(* arguments over the file over the environment, and within a layer the later *)
(* over the earlier; a value replaces what was nested below its key, a nested *)
(* key the value above it, and no other key is touched (config.rs:142, 255,   *)
(* 275 and 301).                                                              *)
LayersOverride(input) ==
  LET items == SettingItems(input)
      envs == Layer(items, {"env"})
      lines == Layer(items, {"line"})
      args == Layer(items, {"eq", "sep", "bare"})
      given(layer) == SelectSeq(layer, LAMBDA x : x[2] # <<>> /\ NoEmpty(x[2]))
      sorted == SelectSeq(envs, LAMBDA x : Len(x[2]) = 1) \o SelectSeq(envs, LAMBDA x : Len(x[2]) = 2)
      oneEach == \A i, j \in 1..Len(envs) : i # j => envs[i][2] # envs[j][2]
      strays == \E i, j \in 1..Len(items) : /\ i < j /\ items[i][1] = "bare" /\ items[j][1] = "word"
                                            /\ \A k \in (i + 1)..(j - 1) : items[k][1] \notin {"eq", "sep", "bare"}
      config == BuildConfig({<<envs[i][2], envs[i][3]>> : i \in 1..Len(envs)},
                            [i \in 1..Len(lines) |-> IF lines[i][2] = <<>> THEN <<>> ELSE Tail(lines[i])],
                            ArgTokens(items))
      all == Surviving(Surviving(sorted) \o Surviving(given(lines)) \o Surviving(given(args)))
  IN oneEach /\ ~strays =>
       /\ LeavesOf(config) = {Tail(all[i]) : i \in 1..Len(all)}
       /\ \A i \in 1..Len(all) : NoEmpty(all[i][2]) => Navigate(config, all[i][2]) = Some(all[i][3])

-----------------------------------------------------------------------------
OptArg == Arg("o", Some("o"), Some(<<"opt">>), FALSE, Some(<<"1">>), "D", FALSE)
QuietArg == Arg("q", Some("q"), Some(<<"quiet">>), FALSE, None, "", TRUE)
ReqArg == Arg("r", None, Some(<<"req">>), TRUE, None, "R", FALSE)
Child == [flags |-> <<OptArg, QuietArg>>, positionals |-> <<>>, subcommands |-> <<>>]
Parent == [flags |-> <<ReqArg, OptArg, QuietArg>>, positionals |-> <<[name |-> "p", required |-> TRUE]>>,
           subcommands |-> (<<"s">> :> Child)]

TokensOf(item) ==
  CASE item[1] = "eq" -> <<<<"-", "-", "opt", "=">> \o item[2]>>
    [] item[1] = "sep" -> <<<<"-", "-", "opt">>, item[2]>>
    [] item[1] = "short" -> <<<<"-", "o">>, item[2]>>
    [] item[1] = "attached" -> <<<<"-", "o">> \o item[2]>>
    [] item[1] = "cluster" -> <<<<"-", "q", "o">> \o item[2]>>
    [] item[1] = "quiet" -> <<IF item[2] = <<>> THEN <<"-", "q">> ELSE <<"-", "-">> \o item[2]>>
    [] item[1] = "req" -> <<<<"-", "-", "req", "=">> \o item[2]>>
    [] item[1] = "sub" -> <<<<"s">>>>
    [] item[1] = "end" -> <<<<"-", "-">>>>
    [] item[1] = "pos" -> <<item[2]>>
    [] item[1] = "env" -> <<>>

(* What a command line says, item by item. *)
RECURSIVE MeaningOf(_, _, _)
MeaningOf(items, env, parent) ==
  LET sub == SelectInSeq(items, LAMBDA x : x[1] = "sub")
      own == IF sub = 0 THEN items ELSE Before(items, sub)
      opts == SelectSeq(own, LAMBDA x : x[1] \in {"eq", "sep", "short", "attached", "cluster"})
      reqs == SelectSeq(own, LAMBDA x : x[1] = "req")
      pos == SelectSeq(own, LAMBDA x : x[1] = "pos")
      o == IF opts # <<>> THEN Last(opts)[2] ELSE IF "D" \in DOMAIN env THEN env["D"] ELSE <<"1">>
      r == IF reqs # <<>> THEN Last(reqs)[2] ELSE env["R"]
      child == MeaningOf(After(items, sub), env, FALSE)
  IN IF parent /\ ((reqs = <<>> /\ "R" \notin DOMAIN env) \/ (sub = 0 /\ pos = <<>>)) THEN Refuse("required")
     ELSE Done([values |-> IF parent THEN ("o" :> o) @@ ("r" :> r) ELSE "o" :> o,
                bools |-> {"q" : x \in {y \in Range(own) : y[1] \in {"quiet", "cluster"}}},
                positionals |-> [i \in 1..Len(pos) |-> pos[i][2]],
                sub |-> IF sub = 0 THEN None ELSE Some(<<<<"s">>, child.v>>)])

Written(items) ==
  LET end == SelectInSeq(items, LAMBDA x : x[1] = "end")
      sub == SelectInSeq(items, LAMBDA x : x[1] = "sub")
  IN \A i \in 1..Len(items) :
       LET kind == items[i][1]
           first == ~\E j \in 1..(i - 1) : items[j][1] = "pos"
       IN /\ end # 0 /\ i > end => kind \in {"pos", "env"}
          /\ kind = "pos" /\ (end = 0 \/ i < end) =>
               items[i][2] \in {<<"a">>, <<"-">>} \/ (items[i][2] = <<"s">> /\ ~first)
          /\ kind = "sub" => first /\ i = sub
          /\ kind = "req" => sub = 0 \/ i < sub
          /\ kind = "attached" => items[i][2] # <<>>

(* However options, switches, positionals and a subcommand are spelled and    *)
(* ordered, the parser reads what they say: a value may look like a flag, all *)
(* after -- is positional, the last of a repeated option counts, then the     *)
(* environment, then the default; nothing but a missing required argument is  *)
(* refused (cli/mod.rs:242).                                                  *)
CommandLineMeans(input) ==
  Written(input) =>
    LET env == [v \in {x[2] : x \in {y \in Range(input) : y[1] = "env"}} |-> <<"e">>]
        argv == FlattenSeq([i \in 1..Len(input) |-> TokensOf(input[i])])
    IN ParseSlice(Parent, env, argv) = MeaningOf(input, env, TRUE)

SettingsMeanFor(kind, input) ==
  /\ kind = "settings" => LayersOverride(input)
  /\ kind = "line" => CommandLineMeans(input)

(* Where a program's settings come from is what its operator wrote            *)
(* (config.rs, cli/mod.rs).                                                   *)
SettingsMean ==
  SettingsMeanFor(topic, subject) /\ [][SettingsMeanFor(topic', subject')]_vars

Vendors == {"openai", "claude", "ollama"}
TextsOf(content) == FlattenSeq([i \in 1..Len(content) |-> IF content[i].type = "text" THEN content[i].text ELSE <<>>])

(* Whichever provider a request is routed to, every message reaches it once,  *)
(* in order, with all its text, and nothing is said twice: the system's words *)
(* in the place the vendor reads them from, given instructions before those   *)
(* of the conversation. Claude is also told every call and every result, in   *)
(* the order they happened (genai/providers/openai.rs:244, claude.rs:163,     *)
(* ollama.rs:225).                                                            *)
PromptReaches(input) ==
  \A vendor \in Vendors, given \in {None, Some(<<"g">>)} :
    LET body == Body(vendor, [messages |-> input, system |-> given, maxTokens |-> None])
        inline == vendor # "claude"
        sent == IF inline THEN input ELSE SelectSeq(input, LAMBDA m : m.role # "system")
        skip == IF inline /\ given # None THEN 1 ELSE 0
        got == SubSeq(body.messages, skip + 1, Len(body.messages))
        file(m) == FlattenSeq([i \in 1..Len(m.parts) |-> IF m.parts[i].kind = "file" /\ ~inline THEN m.parts[i].uri ELSE <<>>])
        tools(m) == SelectSeq(m.parts, LAMBDA p : p.kind \in {"call", "result"})
        wired(m) == SelectSeq(m.content, LAMBDA b : b.type \in {"tool_use", "tool_result"})
        system == FlattenSeq([i \in 1..Len(input) |-> IF input[i].role = "system" THEN TextContent(input[i]) ELSE <<>>])
    IN /\ Len(got) = Len(sent)
       /\ \A i \in 1..Len(sent) : TextsOf(got[i].content) = TextContent(sent[i]) \o file(sent[i])
       /\ skip = 1 => TextsOf(body.messages[1].content) = given[2]
       /\ inline => \A i \in 1..Len(sent) : got[i].role = sent[i].role
       /\ ~inline => /\ \A i \in 1..Len(sent) :
                          LET had == tools(sent[i])
                          IN [j \in 1..Len(had) |-> had[j].id] = [j \in 1..Len(wired(got[i])) |-> wired(got[i])[j].id]
                     /\ CASE given # None -> body.system = given
                          [] given = None /\ system = <<>> -> body.system = None \/ Range(body.system[2]) = {"\n"}
                          [] OTHER -> SelectSeq(body.system[2], LAMBDA c : c # "\n") = system
                     /\ body.maxTokens # None

-----------------------------------------------------------------------------
(* One answer as each vendor writes it, whole and as the lines of a stream. *)
Put(k, v) == <<<<k, v>>>>
TextsIn(items) == SelectSeq(items, LAMBDA x : x[1] = "text")
CallsIn(items) == SelectSeq(items, LAMBDA x : x[1] = "call")
AllText(items) == LET ts == TextsIn(items) IN FlattenSeq([i \in 1..Len(ts) |-> ts[i][2]])
FinishOf(items) == LET fs == SelectSeq(items, LAMBDA x : x[1] = "finish") IN IF fs = <<>> THEN None ELSE Some(Last(fs)[2])
UsageOf(items) == LET us == SelectSeq(items, LAMBDA x : x[1] = "usage") IN IF us = <<>> THEN None ELSE Some(Tail(Last(us)))
OptField(k, opt) == IF opt = None THEN <<>> ELSE Put(k, StrV(opt[2]))

Whole(vendor, items) ==
  LET calls == CallsIn(items)
      use == UsageOf(items)
      f == FinishOf(items)
      blocks == SelectSeq(items, LAMBDA x : x[1] \in {"text", "call"})
      fn(c) == ObjV(Put("id", StrV("1")) \o Put("function", ObjV(Put("name", StrV("n")) \o Put("arguments", StrV(Emit(c[2]))))))
      block(b) == IF b[1] = "text" THEN ObjV(Put("type", StrV("text")) \o Put("text", StrV(b[2])))
                  ELSE ObjV(Put("type", StrV("tool_use")) \o Put("id", StrV("1")) \o Put("name", StrV("n")) \o Put("input", b[2]))
  IN CASE vendor = "openai" ->
            ObjV(Put("choices", ArrV(<<ObjV(Put("message", ObjV(
                   (IF TextsIn(items) = <<>> THEN Put("content", Null) ELSE Put("content", StrV(AllText(items))))
                   \o (IF calls = <<>> THEN <<>> ELSE Put("tool_calls", ArrV([i \in 1..Len(calls) |-> fn(calls[i])])))))
                   \o OptField("finish_reason", f))>>))
                 \o (IF use = None THEN <<>>
                     ELSE Put("usage", ObjV(Put("prompt_tokens", IntV(use[2][1])) \o Put("completion_tokens", IntV(use[2][2]))
                                              \o Put("total_tokens", IntV(use[2][1] + use[2][2]))))))
       [] vendor = "claude" ->
            ObjV(Put("content", ArrV([i \in 1..Len(blocks) |-> block(blocks[i])])) \o OptField("stop_reason", f)
                 \o (IF use = None THEN <<>>
                     ELSE Put("usage", ObjV(Put("input_tokens", IntV(use[2][1])) \o Put("output_tokens", IntV(use[2][2]))))))
       [] vendor = "ollama" ->
            ObjV(Put("message", ObjV(Put("content", StrV(AllText(items))))) \o Put("done", BoolV(f # None)) \o OptField("done_reason", f)
                 \o (IF use = None THEN <<>> ELSE Put("prompt_eval_count", IntV(use[2][1])) \o Put("eval_count", IntV(use[2][2]))))

(* The last text comes with the reason to stop where the vendor may do so. *)
StreamOf(vendor, items) ==
  LET ts == TextsIn(items)
      f == FinishOf(items)
      ends(i) == i = Len(ts)
      openai(i) == ObjV(Put("choices", ArrV(<<ObjV(Put("delta", ObjV(Put("content", StrV(ts[i][2]))))
                                                     \o (IF ends(i) THEN OptField("finish_reason", f) ELSE <<>>))>>)))
      claude(i) == ObjV(Put("type", StrV("content_block_delta")) \o Put("delta", ObjV(Put("text", StrV(ts[i][2])))))
      ollama(i) == ObjV(Put("message", ObjV(Put("content", StrV(ts[i][2])))) \o Put("done", BoolV(ends(i) /\ f # None)))
  IN CASE vendor = "openai" ->
            [i \in 1..Len(ts) |-> Some(openai(i))] \o <<Some(ObjV(Put("choices", ArrV(<<>>)))), None>>
       [] vendor = "claude" ->
            <<Some(ObjV(Put("type", StrV("message_start"))))>> \o [i \in 1..Len(ts) |-> Some(claude(i))]
            \o <<Some(ObjV(Put("type", StrV("message_delta")) \o Put("delta", ObjV(OptField("stop_reason", f)))))>>
       [] vendor = "ollama" -> [i \in 1..Len(ts) |-> Some(ollama(i))]

Heard(vendor, items) ==
  LET chunks == SelectSeq([i \in 1..Len(StreamOf(vendor, items)) |-> ParseLine(vendor, StreamOf(vendor, items)[i])],
                          LAMBDA c : c # None)
      last == SelectLastInSeq(chunks, LAMBDA c : c[2].finish # None)
  IN [text |-> FlattenSeq([i \in 1..Len(chunks) |-> chunks[i][2].delta]),
      finish |-> IF last = 0 THEN None ELSE chunks[last][2].finish]

(* The same answer reads the same from every vendor: its text, its tool calls *)
(* with the arguments the model wrote, in order, why it stopped, and the      *)
(* tokens it took, whose total is their sum where it fits (openai.rs:370,     *)
(* claude.rs:287, ollama.rs:268; Ollama's answers carry no calls).            *)
AnswersNormalised(input) ==
  \A vendor \in Vendors :
    LET r == Complete(vendor, [broken |-> FALSE, status |-> 200, body |-> Some(Whole(vendor, input))])
        calls == SelectSeq(r.v.parts, LAMBDA p : p.kind = "call")
        said == CallsIn(input)
        use == UsageOf(input)
    IN /\ r.ok /\ TextContent(r.v) = AllText(input) /\ r.v.finish = FinishOf(input)
       /\ vendor # "ollama" => /\ [i \in 1..Len(calls) |-> calls[i].arguments] = [i \in 1..Len(said) |-> said[i][2]]
                               /\ (r.v.usage = None) = (use = None)
       /\ use # None => /\ r.v.usage[2].prompt = Some(use[2][1]) /\ r.v.usage[2].completion = Some(use[2][2])
                        /\ vendor # "ollama" /\ use[2][1] + use[2][2] < U32 =>
                             r.v.usage[2].total = Some(use[2][1] + use[2][2])

(* A streamed answer adds up to the text of the whole one, and ends for the   *)
(* same reason, but that Ollama's stream always says stop (openai.rs:449,     *)
(* claude.rs:359, ollama.rs:317).                                             *)
StreamSaysTheSame(input) ==
  \A vendor \in Vendors :
    LET heard == Heard(vendor, input)
        r == ParseResponse(vendor, Whole(vendor, input)).v
    IN /\ heard.text = TextContent(r)
       /\ TextsIn(input) # <<>> => IF vendor = "ollama" THEN (heard.finish = None) = (r.finish = None) ELSE heard.finish = r.finish

(* An embedding is returned as the vendor sent it or not at all: no row is    *)
(* shortened by a value that is no number (openai.rs:196, ollama.rs:189).     *)
EmbeddingsWhole(input) ==
  Tag(input) = "arr" =>
    \A vendor \in {"openai", "ollama"} :
      LET row(v) == IF vendor = "openai" THEN ObjV(Put("embedding", v)) ELSE v
          sent == ObjV(Put(IF vendor = "openai" THEN "data" ELSE "embeddings", ArrV(<<row(input), row(ArrV(<<>>))>>)))
          r == ParseEmbeddings(vendor, sent)
      IN /\ r.ok = \A i \in 1..Len(input[2]) : Tag(input[2][i]) \in {"int", "uint", "float"}
         /\ r.ok => /\ Len(r.v) = 2 /\ Len(r.v[1]) = Len(input[2])
                    /\ \A i \in 1..Len(input[2]) : Some(r.v[1][i]) = NumOf(input[2][i])

-----------------------------------------------------------------------------
(* A response is in a format its own content type names, so that the client's *)
(* decode picks the codec the server used; it is one the client asked for,    *)
(* and the server refuses only what it could not write (turbo/mod.rs:143 and  *)
(* 843, codec/registry.rs:25, rest/client/response.rs:52).                    *)
FormatsAgree(input) ==
  LET r == Respond(input)
      asks(ct, f) == ct = <<"*", "*">> \/ (ct = <<"application", "*">> /\ f = "json") \/ FromContentType(ct) = Some(f)
      listed == JsonTypes \cup XmlTypes \cup YamlTypes \cup TomlTypes \cup {<<"*", "*">>, <<"application", "*">>}
  IN /\ r[1] # 500
     /\ r[1] = 200 => LET f == FromContentType(r[2][2])
                      IN f # None /\ (input = <<>> \/ \E i \in 1..Len(input) : asks(input[i], f[2]))
     /\ r[1] = 406 => Range(input) \cap listed = {}

(* What a schema says, keyword by keyword. *)
RECURSIVE Satisfies(_, _)
KeywordHolds(k, s, v) ==
  LET size == IF Tag(v) = "arr" THEN 10 * Len(v[2]) ELSE 0
  IN CASE k = "type" -> TypeMatches(s[2], v)
       [] k = "const" -> v = s
       [] k = "enum" -> \E i \in 1..Len(s[2]) : s[2][i] = v
       [] k = "minimum" -> NumOf(v) = None \/ NumOf(v)[2] >= NumOf(s)[2]
       [] k = "maximum" -> NumOf(v) = None \/ NumOf(v)[2] <= NumOf(s)[2]
       [] k = "minItems" -> Tag(v) # "arr" \/ size >= NumOf(s)[2]
       [] k = "maxItems" -> Tag(v) # "arr" \/ size <= NumOf(s)[2]
       [] k = "required" -> Tag(v) # "obj" \/ \A i \in 1..Len(s[2]) : \E e \in Range(v[2]) : e[1] = s[2][i][2]
       [] k = "items" -> Tag(v) # "arr" \/ \A i \in 1..Len(v[2]) : Satisfies(s, v[2][i])
       [] k = "properties" -> Tag(v) # "obj" \/ \A i \in 1..Len(s[2]) :
                                LET x == ValueGet(v, s[2][i][1]) IN x = None \/ Satisfies(s[2][i][2], x[2])
Satisfies(schema, v) ==
  \A k \in {schema[2][i][1] : i \in 1..Len(schema[2])} : KeywordHolds(k, ValueGet(schema, k)[2], v)
RECURSIVE Leads(_, _)
Leads(path, v) ==
  \/ path = <<>>
  \/ LET step == path[1]
     IN IF step[1] = "at" THEN Tag(v) = "arr" /\ step[2] \in 1..Len(v[2]) /\ Leads(Tail(path), v[2][step[2]])
        ELSE ValueGet(v, step[2]) # None /\ Leads(Tail(path), ValueGet(v, step[2])[2])

(* A value passes validation exactly when every keyword of its schema, and of *)
(* the schemas of its parts, holds of it; each violation is at a path that    *)
(* exists in the value (codec/schema.rs:59 and 95).                           *)
SchemasMean(input) ==
  LET bad == Validate(input[1], input[2])
  IN (bad = <<>>) = Satisfies(input[1], input[2]) /\ \A i \in 1..Len(bad) : Leads(bad[i], input[2])

FormatsFaithfulFor(kind, input) ==
  /\ kind = "tree" => YamlRoundTrip(input)
  /\ kind = "tree" => XmlRoundTrip(input)
  /\ kind = "xml" => XmlParserReturns(input)
  /\ kind = "accept" => FormatsAgree(input)
  /\ kind = "schema" => SchemasMean(input)

(* The other formats: a value survives its text, the parsers return, both     *)
(* sides choose the same format, and validation means what the schema says    *)
(* (codec/yaml.rs, xml.rs, registry.rs, schema.rs).                           *)
FormatsFaithful ==
  FormatsFaithfulFor(topic, subject) /\ [][FormatsFaithfulFor(topic', subject')]_vars

(* Rendering replaces each placeholder once: a text without any is left as it *)
(* is, what a variable holds is not rendered again, and a template rendered   *)
(* to its own placeholders is rendered for good (genai/template.rs:19).       *)
TemplatesRender(input) ==
  LET whole == <<"{", "{", "}", "}">>
      self == (<<<<"a">>>> :> <<"{", "{", "a", "}", "}">>) @@ (<<>> :> whole)
      plain == (<<<<"a">>>> :> <<"A">>) @@ (<<>> :> <<"J">>)
      tricky == (<<<<"a">>>> :> whole) @@ (<<>> :> <<"J">>)
      once == RenderValue(input, self)
  IN /\ FindText(input, <<"{", "{">>) = 0 => once = Done(input)
     /\ once.ok => /\ RenderValue(once.v, self) = once
                   /\ RenderValue(input, tricky) = Done(Replace(RenderValue(input, plain).v, <<"A">>, whole))

VendorsAgreeFor(kind, input) ==
  /\ kind = "chat" => PromptReaches(input)
  /\ kind = "answer" => AnswersNormalised(input)
  /\ kind = "answer" => StreamSaysTheSame(input)
  /\ kind = "value" => EmbeddingsWhole(input)
  /\ kind = "template" => TemplatesRender(input)

(* Vendors are interchangeable: prompts, answers, streams and embeddings mean *)
(* the same through each of them (genai/providers, genai/template.rs).        *)
VendorsAgree ==
  VendorsAgreeFor(topic, subject) /\ [][VendorsAgreeFor(topic', subject')]_vars

(* What a line may lose: a carriage return at its end. *)
LinesKept(t) ==
  LET lines == Split(t, "\n")
  IN Join([i \in 1..Len(lines) |-> IF lines[i] # <<>> /\ Last(lines[i]) = "\r" THEN Front(lines[i]) ELSE lines[i]],
          <<"\n">>)
AsDecoded(e) ==
  [e EXCEPT !.data = LinesKept(@), !.comment = IF @ = None THEN None ELSE Some(TrimStart(LinesKept(@[2]), {"\n"}))]

EventsWhole(input) ==
  /\ IsPrefix(input.got, [i \in 1..Len(input.sent) |-> AsDecoded(input.sent[i])])
  /\ input.left = <<>> => Len(input.got) = Len(input.sent) /\ input.dec = NewDecoder

(* Whatever the chunks, the decoder yields the events that were sent, in      *)
(* order and whole; none is missing once every byte has arrived, and nothing  *)
(* of one event is left for the next (http/sse.rs:87 and 144).                *)
EventsArrive ==
  /\ topic = "events" => EventsWhole(subject)
  /\ [][topic' = "events" => EventsWhole(subject')]_vars
=============================================================================
