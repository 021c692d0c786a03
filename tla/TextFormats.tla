----------------------------- MODULE TextFormats ----------------------------
(* codec/yaml.rs and codec/xml.rs over the values of JsonCodec; the choice of *)
(* a format in codec/registry.rs and turbo/mod.rs; and codec/schema.rs. In    *)
(* YAML and XML a string is a sequence of characters, in which the words null *)
(* and true and the digits of a number are one character each. A media type   *)
(* is <<type, subtype>> without its parameters.                               *)
EXTENDS JsonCodec, TLC

Digits == {"0", "1", "2", "3", "4", "5", "6", "7", "8", "9"}
DigitOf(c) == CHOOSE n \in 0..9 : ToString(n) = c
Abs(n) == IF n < 0 THEN -n ELSE n
Sign(n) == IF n < 0 THEN <<"-">> ELSE <<>>

(* codec/fmt.rs: write_i64, write_u64 and write_f64 of at most one digit. *)
IntText(n) == Sign(n) \o <<ToString(Abs(n))>>
FloatText(x) ==
  Sign(x) \o <<ToString(Abs(x) \div 10)>>
  \o (IF x % 10 = 0 THEN <<>> ELSE <<".", ToString(Abs(x) % 10)>>)

(* str::parse as i64, then u64, then f64 (external). *)
NumberOf(t) ==
  LET neg == t # <<>> /\ t[1] = "-"
      body == IF neg THEN Tail(t) ELSE t
      sign(n) == IF neg THEN -n ELSE n
  IN CASE Len(body) = 1 /\ body[1] \in Digits -> Some(ParseNumber(Num(FALSE, 10 * sign(DigitOf(body[1])))))
       [] Len(body) = 3 /\ body[1] \in Digits /\ body[2] = "." /\ body[3] \in Digits ->
            Some(FloatV(sign(10 * DigitOf(body[1]) + DigitOf(body[3]))))
       [] OTHER -> None

(* What a scalar that is no string is written as, in both formats. *)
PlainText(v) ==
  CASE Tag(v) \in {"null", "nan"} -> <<"null">>
    [] Tag(v) = "bool" -> <<IF v[2] THEN "true" ELSE "false">>
    [] Tag(v) \in {"int", "uint"} -> IntText(v[2])
    [] Tag(v) = "float" -> FloatText(v[2])

-----------------------------------------------------------------------------
(* yaml: needs_quote, write_quoted, unquote *)
NeedsQuote(s) ==
  \/ s = <<>> \/ Trim(s, {" ", "\n"}) # s
  \/ ToSet(s) \cap {":", "#", "\n", "\"", "'"} # {}
  \/ s[1] \in {"-", "[", "]", "{", "}"}
  \/ s \in {<<"null">>, <<"~">>, <<"true">>, <<"false">>} \/ NumberOf(s) # None

WriteQuoted(s) ==
  <<"\"">> \o FlattenSeq([i \in 1..Len(s) |-> IF s[i] \in DOMAIN Escape THEN <<"\\", Escape[s[i]]>> ELSE <<s[i]>>])
  \o <<"\"">>

(* MUTANT: a string is quoted only when it is empty or padded. *)
WriteTextBare(s) == IF s = <<>> \/ Trim(s, {" ", "\n"}) # s THEN WriteQuoted(s) ELSE s

WriteText(s) == IF NeedsQuote(s) THEN WriteQuoted(s) ELSE s
YamlScalar(v) ==
  CASE Tag(v) = "str" -> WriteText(v[2])
    [] Tag(v) \in {"arr", "obj"} -> <<"null">>
    [] OTHER -> PlainText(v)

Unescaped(s) ==
  FoldLeft(LAMBDA acc, c :
             CASE acc.esc -> [out |-> Append(acc.out, IF c = "n" THEN "\n" ELSE c), esc |-> FALSE]
               [] ~acc.esc /\ c = "\\" -> [acc EXCEPT !.esc = TRUE]
               [] OTHER -> [acc EXCEPT !.out = Append(@, c)],
           [out |-> <<>>, esc |-> FALSE], s).out
Quoted(t, q) == Len(t) >= 2 /\ t[1] = q /\ Last(t) = q
Unquote(s) ==
  LET t == Trim(s, {" "})
      inner == SubSeq(t, 2, Len(t) - 1)
  IN IF Quoted(t, "\"") THEN Unescaped(inner) ELSE IF Quoted(t, "'") THEN inner ELSE t

(* write_block and write_after_marker: the lines, each with its indentation. *)
IsBlock(v) == Tag(v) \in {"arr", "obj"} /\ v[2] # <<>>

RECURSIVE WriteBlock(_, _)
WriteBlock(v, n) ==
  LET after(marker, x) ==
        IF IsBlock(x) THEN <<<<n, marker>>>> \o WriteBlock(x, n + 2)
        ELSE LET text == CASE Tag(x) = "obj" -> <<"{", "}">>
                           [] Tag(x) = "arr" -> <<"[", "]">>
                           [] OTHER -> YamlScalar(x)
             IN <<<<n, marker \o <<" ">> \o text>>>>
  IN CASE Tag(v) = "obj" /\ IsBlock(v) ->
            FlattenSeq([i \in 1..Len(v[2]) |-> after(WriteText(v[2][i][1]) \o <<":">>, v[2][i][2])])
       [] Tag(v) = "arr" /\ IsBlock(v) -> FlattenSeq([i \in 1..Len(v[2]) |-> after(<<"-">>, v[2][i])])
       [] OTHER -> <<<<n, YamlScalar(v)>>>>

(* preprocess *)
Preprocess(lines) ==
  LET content(l) == TrimStart(l[2], {" "})
      kept(l) == content(l) # <<>> /\ content(l)[1] # "#" /\ content(l) # <<"-", "-", "-">>
      strip(l) == <<l[1] + Len(l[2]) - Len(content(l)), TrimEnd(content(l), {" "})>>
      significant == SelectSeq(lines, kept)
  IN [i \in 1..Len(significant) |-> strip(significant[i])]

(* mapping_key: a colon before a space or the end, inside quotes or not. *)
MappingKey(s) ==
  LET at == {i \in 1..Len(s) : s[i] = ":" /\ (i = Len(s) \/ s[i + 1] = " ")}
      i == CHOOSE j \in at : \A k \in at : j <= k
  IN IF at = {} THEN None ELSE Some(<<Unquote(Before(s, i)), Trim(After(s, i), {" "})>>)

(* parse_scalar *)
YamlValue(s) ==
  LET t == Trim(s, {" "})
  IN CASE Quoted(t, "\"") \/ Quoted(t, "'") -> StrV(Unquote(t))
       [] t \in {<<>>, <<"null">>, <<"~">>} -> Null
       [] t = <<"[", "]">> -> ArrV(<<>>)
       [] t = <<"{", "}">> -> ObjV(<<>>)
       [] t \in {<<"true">>, <<"false">>} -> BoolV(t = <<"true">>)
       [] OTHER -> IF NumberOf(t) # None THEN NumberOf(t)[2] ELSE StrV(t)

RECURSIVE ParseBlock(_, _, _, _), ParseMapping(_, _, _, _, _), ParseSequence(_, _, _, _, _)
IsDash(s) == s # <<>> /\ s[1] = "-"

ParseBlock(lines, i, indent, depth) ==
  CASE depth > MaxDepth -> Fail
    [] depth <= MaxDepth /\ IsDash(lines[i][2]) -> ParseSequence(lines, i, indent, depth, <<>>)
    [] depth <= MaxDepth /\ ~IsDash(lines[i][2]) /\ MappingKey(lines[i][2]) # None ->
         ParseMapping(lines, i, indent, depth, <<>>)
    [] OTHER -> Ok(i + 1, YamlValue(lines[i][2]))

(* The value below a marker that ends its line. *)
Below(lines, i, indent, depth) ==
  IF i <= Len(lines) /\ lines[i][1] > indent THEN ParseBlock(lines, i, lines[i][1], depth + 1) ELSE Ok(i, Null)

ParseMapping(lines, i, indent, depth, entries) ==
  IF i > Len(lines) \/ lines[i][1] < indent \/ IsDash(lines[i][2]) THEN Ok(i, ObjV(entries))
  ELSE LET kv == MappingKey(lines[i][2])
           r == IF kv[2][2] # <<>> THEN Ok(i + 1, YamlValue(kv[2][2])) ELSE Below(lines, i + 1, indent, depth)
       IN IF lines[i][1] > indent \/ kv = None \/ ~r.ok THEN Fail
          ELSE ParseMapping(lines, r.p, indent, depth, Append(entries, <<kv[2][1], r.v>>))

ParseSequence(lines, i, indent, depth, items) ==
  IF i > Len(lines) \/ lines[i][1] < indent \/ ~IsDash(lines[i][2]) THEN Ok(i, ArrV(items))
  ELSE LET after == TrimStart(Tail(lines[i][2]), {" "})
           kv == MappingKey(after)
           r == CASE after = <<>> -> Below(lines, i + 1, indent, depth)
                  [] after # <<>> /\ kv # None -> Ok(i + 1, ObjV(<<<<kv[2][1], YamlValue(kv[2][2])>>>>))
                  [] OTHER -> Ok(i + 1, YamlValue(after))
       IN IF lines[i][1] > indent \/ ~r.ok THEN Fail
          ELSE ParseSequence(lines, r.p, indent, depth, Append(items, r.v))

(* yaml::from_str: what follows the first block is not looked at. *)
YamlFromStr(text) ==
  LET lines == Preprocess(text)
      r == ParseBlock(lines, 1, lines[1][1], 0)
  IN IF lines = <<>> THEN Done(Null) ELSE IF r.ok THEN Done(r.v) ELSE Fail

-----------------------------------------------------------------------------
(* xml: write_element, write_children, write_scalar and escape_text. The marks *)
(* <!-- and --> are two characters each, "<" "!--" and "--" ">".               *)
OpenTag(tag) == <<"<">> \o tag \o <<">">>
CloseTag(tag) == <<"<", "/">> \o tag \o <<">">>
EntityOf == [c \in {"<", ">", "&"} |-> CASE c = "<" -> "lt" [] c = ">" -> "gt" [] c = "&" -> "amp"]
EscapeText(s) ==
  FlattenSeq([i \in 1..Len(s) |-> IF s[i] \in DOMAIN EntityOf THEN <<"&", EntityOf[s[i]], ";">> ELSE <<s[i]>>])
XmlScalar(v) ==
  CASE Tag(v) = "str" -> EscapeText(v[2])
    [] Tag(v) \in {"null", "arr", "obj"} -> <<>>
    [] OTHER -> PlainText(v)

RECURSIVE WriteElement(_, _)
WriteChildren(v) ==
  CASE Tag(v) = "obj" -> FlattenSeq([i \in 1..Len(v[2]) |-> WriteElement(v[2][i][1], v[2][i][2])])
    [] Tag(v) = "arr" -> FlattenSeq([i \in 1..Len(v[2]) |-> WriteElement(<<"item">>, v[2][i])])
    [] OTHER -> XmlScalar(v)
WriteElement(tag, v) ==
  CASE Tag(v) = "arr" /\ v[2] # <<>> -> FlattenSeq([i \in 1..Len(v[2]) |-> WriteElement(tag, v[2][i])])
    [] Tag(v) = "obj" -> OpenTag(tag) \o WriteChildren(v) \o CloseTag(tag)
    [] OTHER -> OpenTag(tag) \o XmlScalar(v) \o CloseTag(tag)
XmlEncode(v) == OpenTag(<<"root">>) \o WriteChildren(v) \o CloseTag(<<"root">>)

(* peek, starts_with, skip_ws and read_name. A position may pass the end by   *)
(* the length of a mark that is not there.                                    *)
At(t, p) == IF p <= Len(t) THEN t[p] ELSE "eof"
Starts(t, p, mark) == At(t, p) = mark[1] /\ At(t, p + 1) = mark[2]
FirstFrom(t, p, Test(_)) ==
  LET found == {q \in p..Len(t) : Test(q)}
  IN IF found = {} THEN (IF p > Len(t) THEN p ELSE Len(t) + 1) ELSE CHOOSE q \in found : \A r \in found : q <= r
XmlSkipWs(t, p) == FirstFrom(t, p, LAMBDA q : t[q] # " ")
NameEnd(t, p) == FirstFrom(t, p, LAMBDA q : t[q] \in {"<", ">", "/", "?", "!--", " ", "&", ";", "#"})
ReadName(t, p) ==
  LET e == NameEnd(t, p) IN IF e = p THEN Fail ELSE Ok(e, SubSeq(t, p, e - 1))

SkipComment(t, p) == FirstFrom(t, p + 2, LAMBDA q : Starts(t, q, <<"--", ">">>)) + 2

(* skip_prolog; starts_with slices the input, and past its end it panics. *)
RECURSIVE SkipProlog(_, _)
SkipProlog(t, p) ==
  LET q == XmlSkipWs(t, p)
  IN CASE q > Len(t) + 1 -> [panic |-> TRUE]
       [] q <= Len(t) + 1 /\ Starts(t, q, <<"<", "?">>) ->
            SkipProlog(t, FirstFrom(t, q, LAMBDA r : Starts(t, r, <<"?", ">">>)) + 2)
       [] q <= Len(t) + 1 /\ Starts(t, q, <<"<", "!--">>) -> SkipProlog(t, SkipComment(t, q))
       [] OTHER -> [panic |-> FALSE, p |-> q]

(* read_entity, after the ampersand. *)
Entities == [e \in {<<"lt">>, <<"gt">>, <<"amp">>, <<"#", "97">>} |->
               CASE e = <<"lt">> -> "<" [] e = <<"gt">> -> ">" [] e = <<"amp">> -> "&" [] OTHER -> "a"]
ReadEntity(t, p) ==
  LET e == FirstFrom(t, p, LAMBDA q : t[q] = ";")
      ent == SubSeq(t, p, e - 1)
  IN IF ent \in DOMAIN Entities THEN Ok(IF At(t, e) = ";" THEN e + 1 ELSE e, Entities[ent]) ELSE Fail

(* push_child *)
PushChild(children, tag, v) ==
  LET i == SelectInSeq(children, LAMBDA c : c[1] = tag)
      old == children[i][2]
  IN IF i = 0 THEN Append(children, <<tag, v>>)
     ELSE [children EXCEPT ![i] = <<tag, IF Tag(old) = "arr" THEN ArrV(Append(old[2], v)) ELSE ArrV(<<old, v>>)>>]

RECURSIVE ParseElement(_, _, _), ParseContent(_, _, _, _, _, _)
(* parse_element: attributes are skipped. *)
ParseElement(t, p, d) ==
  LET q == XmlSkipWs(t, p)
      name == ReadName(t, q + 1)
      e == FirstFrom(t, name.p, LAMBDA r : t[r] = ">" \/ Starts(t, r, <<"/", ">">>))
      c == ParseContent(t, e + 1, name.v, d, <<>>, <<>>)
  IN CASE At(t, q) # "<" \/ ~name.ok -> Fail
       [] Starts(t, e, <<"/", ">">>) -> Ok(e + 2, <<name.v, Null>>)
       [] At(t, e) = ">" -> IF c.ok THEN Ok(c.p, <<name.v, c.v>>) ELSE Fail
       [] OTHER -> Fail

(* parse_content up to the closing tag, which must be tag's. *)
ParseContent(t, p, tag, d, children, text) ==
  LET close == ReadName(t, p + 2)
      end == XmlSkipWs(t, close.p)
      child == ParseElement(t, p, d + 1)
      entity == ReadEntity(t, p + 1)
      trimmed == Trim(text, {" ", "\n"})
  IN CASE At(t, p) = "eof" -> Fail
       [] Starts(t, p, <<"<", "!--">>) -> ParseContent(t, SkipComment(t, p), tag, d, children, text)
       [] Starts(t, p, <<"<", "/">>) ->
            IF ~close.ok \/ At(t, end) # ">" \/ close.v # tag THEN Fail
            ELSE Ok(end + 1, CASE children # <<>> -> ObjV(children)
                               [] children = <<>> /\ trimmed = <<>> -> Null
                               [] OTHER -> StrV(trimmed))
       [] At(t, p) = "<" /\ At(t, p + 1) \notin {"!--", "/"} ->
            IF d + 1 > MaxDepth \/ ~child.ok THEN Fail
            ELSE ParseContent(t, child.p, tag, d, PushChild(children, child.v[1], child.v[2]), text)
       [] At(t, p) = "&" -> IF entity.ok THEN ParseContent(t, entity.p, tag, d, children, Append(text, entity.v)) ELSE Fail
       [] OTHER -> ParseContent(t, p + 1, tag, d, children, Append(text, t[p]))

XmlFromStr(t) ==
  LET start == SkipProlog(t, 1)
      r == ParseElement(t, start.p, 0)
  IN IF start.panic THEN start ELSE IF r.ok THEN Done(r.v[2]) ELSE Fail

-----------------------------------------------------------------------------
(* Format::from_content_type: listed types, then the suffix of the subtype. *)
JsonTypes == {"application", "text"} \X {"json"}
XmlTypes == {"application", "text"} \X {"xml"}
YamlTypes == {"application", "text"} \X {"yaml", "x-yaml", "yml"}
TomlTypes == {<<"application", "toml">>, <<"text", "toml">>, <<"application", "x-toml">>}
Lower(ct) == IF ct = <<"APPLICATION", "JSON">> THEN <<"application", "json">> ELSE ct
FromContentType(type) ==
  LET ct == Lower(type)
  IN CASE ct \in JsonTypes \/ ct[2] = "a+json" -> Some("json")
       [] ct \in XmlTypes \/ ct[2] = "a+xml" -> Some("xml")
       [] ct \in YamlTypes \/ ct[2] = "a+yaml" -> Some("yaml")
       [] ct \in TomlTypes \/ ct[2] = "a+toml" -> Some("toml")
       [] OTHER -> None

(* negotiate_content_type: the first type of the list the server can write. *)
Negotiate(accept) ==
  LET offer(ct) ==
        CASE ct \in JsonTypes \cup {<<"*", "*">>, <<"application", "*">>} -> Some(<<"application", "json">>)
          [] ct \in XmlTypes -> Some(<<"application", "xml">>)
          [] ct \in YamlTypes -> Some(<<"application", "yaml">>)
          [] ct \in TomlTypes -> Some(<<"application", "toml">>)
          [] OTHER -> None
      i == SelectInSeq(accept, LAMBDA ct : offer(ct) # None)
  IN IF accept = <<>> THEN Some(<<"application", "json">>) ELSE IF i = 0 THEN None ELSE offer(accept[i])

(* Ctx::respond: the status and the content type of the answer. *)
Respond(accept) ==
  LET ct == Negotiate(accept)
  IN CASE ct = None -> <<406, None>>
       [] ct # None /\ FromContentType(ct[2]) = None -> <<500, None>>
       [] OTHER -> <<200, ct>>

-----------------------------------------------------------------------------
(* schema: check, the paths of the violations. A schema is a Value. *)
NumOf(v) ==
  CASE Tag(v) \in {"int", "uint"} -> Some(10 * v[2])
    [] Tag(v) = "float" -> Some(v[2])
    [] OTHER -> None
TypeMatches(ty, v) ==
  CASE ty = "string" -> Tag(v) = "str"
    [] ty = "integer" -> Tag(v) \in {"int", "uint"}
    [] ty = "number" -> Tag(v) \in {"int", "uint", "float"}
    [] ty = "boolean" -> Tag(v) = "bool"
    [] ty = "object" -> Tag(v) = "obj"
    [] ty = "array" -> Tag(v) = "arr"
    [] ty = "null" -> Tag(v) = "null"
    [] OTHER -> TRUE
Limit(schema, key) ==
  LET f == ValueGet(schema, key) IN IF f = None THEN None ELSE NumOf(f[2])
(* A tenths value outside the limits of two keywords, once for each. *)
OutOf(schema, low, high, x) ==
  (IF Limit(schema, low) # None /\ x < Limit(schema, low)[2] THEN 1 ELSE 0)
  + (IF Limit(schema, high) # None /\ x > Limit(schema, high)[2] THEN 1 ELSE 0)

(* The items the schema of "items" is applied to. *)
CheckedItems(v) == 1..Len(v[2])

RECURSIVE Check(_, _, _)
Check(schema, v, path) ==
  LET ty == StrAt(schema, <<"type">>)
      n == NumOf(v)
      const == ValueGet(schema, "const")
      enum == Typed(schema, <<"enum">>, "arr")
      items == ValueGet(schema, "items")
      required == ItemsAt(schema, <<"required">>)
      props == OrElse(Typed(schema, <<"properties">>, "obj"), <<>>)
      here(k) == [i \in 1..k |-> path]
      own == (IF const # None /\ const[2] # v THEN 1 ELSE 0)
             + (IF enum # None /\ ~Contains(enum[2], v) THEN 1 ELSE 0)
             + (IF n # None THEN OutOf(schema, "minimum", "maximum", n[2]) ELSE 0)
             + (IF Tag(v) = "str" THEN OutOf(schema, "minLength", "maxLength", 10 * Len(v[2])) ELSE 0)
             + (IF Tag(v) = "arr" THEN OutOf(schema, "minItems", "maxItems", 10 * Len(v[2])) ELSE 0)
             + (IF Tag(v) = "obj" THEN Len(SelectSeq(required, LAMBDA k : Tag(k) = "str" /\ ValueGet(v, k[2]) = None)) ELSE 0)
      below == CASE Tag(v) = "arr" /\ items # None ->
                      FlattenSeq([i \in 1..Len(v[2]) |->
                        IF i \in CheckedItems(v) THEN Check(items[2], v[2][i], Append(path, <<"at", i>>)) ELSE <<>>])
                 [] Tag(v) = "obj" ->
                      FlattenSeq([i \in 1..Len(props) |->
                        LET x == ValueGet(v, props[i][1])
                        IN IF x = None THEN <<>> ELSE Check(props[i][2], x[2], Append(path, <<"key", props[i][1]>>))])
                 [] OTHER -> <<>>
  IN IF ty # None /\ ~TypeMatches(ty[2], v) THEN <<path>> ELSE here(own) \o below
Validate(schema, v) == Check(schema, v, <<>>)
=============================================================================
