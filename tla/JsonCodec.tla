------------------------------ MODULE JsonCodec -----------------------------
(* codec/value.rs, codec/json.rs and codec/traits.rs, with the code that       *)
(* #[derive(Decode, Encode)] generates. A Value is a tagged tuple; a JSON text *)
(* is a sequence of tokens, each a tuple: <<"{">>, <<"null">>, <<"str", s>> or *)
(* <<"num", dotted, x>> for a number of x tenths written with or without a     *)
(* point. i64 and u64 are scaled to I64 and U64, MAX_DEPTH to MaxDepth. What   *)
(* is inside a string literal is modelled apart, by WriteString and            *)
(* ParseString over characters.                                               *)
EXTENDS Text

CONSTANTS MaxDepth, I64, U64

Null == <<"null">>
BoolV(b) == <<"bool", b>>
IntV(i) == <<"int", i>>
UIntV(u) == <<"uint", u>>
FloatV(x) == <<"float", x>>      \* x tenths
NaN == <<"nan">>
StrV(s) == <<"str", s>>
ArrV(a) == <<"arr", a>>
ObjV(o) == <<"obj", o>>          \* a sequence of <<key, value>>
Tag(v) == v[1]

Tok(c) == <<c>>
Num(dotted, x) == <<"num", dotted, x>>
Ok(p, v) == [ok |-> TRUE, p |-> p, v |-> v]
Done(v) == [ok |-> TRUE, v |-> v]

-----------------------------------------------------------------------------
(* emit_value over JsonEncoder: sep writes a comma before all but the first.  *)
RECURSIVE Emit(_)
Emit(v) ==
  CASE Tag(v) \in {"null", "nan"} -> <<Tok("null")>>
    [] Tag(v) = "bool" -> <<Tok(IF v[2] THEN "true" ELSE "false")>>
    [] Tag(v) \in {"int", "uint"} -> <<Num(FALSE, 10 * v[2])>>
    [] Tag(v) = "float" -> <<Num(TRUE, v[2])>>
    [] Tag(v) = "str" -> <<v>>
    [] Tag(v) = "arr" ->
         <<Tok("[")>> \o Join([i \in 1..Len(v[2]) |-> Emit(v[2][i])], <<Tok(",")>>) \o <<Tok("]")>>
    [] Tag(v) = "obj" ->
         <<Tok("{")>>
         \o Join([i \in 1..Len(v[2]) |-> <<StrV(v[2][i][1]), Tok(":")>> \o Emit(v[2][i][2])], <<Tok(",")>>)
         \o <<Tok("}")>>

-----------------------------------------------------------------------------
(* Parser: peek, skip_ws and parse_number. *)
Peek(t, p) == IF p <= Len(t) THEN t[p] ELSE Tok("eof")
SkipWs(t, p) ==
  LET stops == {q \in p..Len(t) : t[q] # Tok(" ")}
  IN IF stops = {} THEN Len(t) + 1 ELSE CHOOSE q \in stops : \A r \in stops : q <= r

ParseNumber(n) ==
  LET i == n[3] \div 10
  IN CASE n[2] -> FloatV(n[3])
       [] ~n[2] /\ i \in I64 -> IntV(i)
       [] ~n[2] /\ i \notin I64 /\ i \in U64 -> UIntV(i)
       [] OTHER -> FloatV(n[3])

(* enter: the depth it returns must not pass MAX_DEPTH. *)
Enter(d) == [ok |-> d + 1 <= MaxDepth, d |-> d + 1]

RECURSIVE ParseValue(_, _, _), ParseItems(_, _, _, _), ParseEntries(_, _, _, _)

(* parse_value, with parse_array and parse_object at their opening bracket. *)
ParseValue(t, p, d) ==
  LET q == SkipWs(t, p)
      c == Peek(t, q)
      s == SkipWs(t, q + 1)
  IN CASE c \in {Tok("{"), Tok("[")} /\ ~Enter(d).ok -> Fail
       [] c = Tok("{") /\ Enter(d).ok ->
            IF Peek(t, s) = Tok("}") THEN Ok(s + 1, ObjV(<<>>)) ELSE ParseEntries(t, s, Enter(d).d, <<>>)
       [] c = Tok("[") /\ Enter(d).ok ->
            IF Peek(t, s) = Tok("]") THEN Ok(s + 1, ArrV(<<>>)) ELSE ParseItems(t, s, Enter(d).d, <<>>)
       [] Tag(c) = "str" -> Ok(q + 1, c)
       [] Tag(c) = "num" -> Ok(q + 1, ParseNumber(c))
       [] c \in {Tok("true"), Tok("false")} -> Ok(q + 1, BoolV(c = Tok("true")))
       [] c = Tok("null") -> Ok(q + 1, Null)
       [] OTHER -> Fail

ParseItems(t, p, d, items) ==
  LET r == ParseValue(t, p, d)
      q == SkipWs(t, r.p)
  IN CASE ~r.ok -> Fail
       [] r.ok /\ Peek(t, q) = Tok(",") -> ParseItems(t, q + 1, d, Append(items, r.v))
       [] r.ok /\ Peek(t, q) = Tok("]") -> Ok(q + 1, ArrV(Append(items, r.v)))
       [] OTHER -> Fail

ParseEntries(t, p, d, entries) ==
  LET k == SkipWs(t, p)
      colon == SkipWs(t, k + 1)
      r == IF Tag(Peek(t, k)) = "str" /\ Peek(t, colon) = Tok(":") THEN ParseValue(t, colon + 1, d) ELSE Fail
      q == SkipWs(t, r.p)
      all == Append(entries, <<t[k][2], r.v>>)
  IN CASE ~r.ok -> Fail
       [] r.ok /\ Peek(t, q) = Tok(",") -> ParseEntries(t, q + 1, d, all)
       [] r.ok /\ Peek(t, q) = Tok("}") -> Ok(q + 1, ObjV(all))
       [] OTHER -> Fail

(* Nothing but white space may follow. *)
WholeText(t, r) == IF r.ok /\ SkipWs(t, r.p) = Len(t) + 1 THEN Done(r.v) ELSE Fail
FromStr(t) == LET r == ParseValue(t, SkipWs(t, 1), 0) IN WholeText(t, r)

-----------------------------------------------------------------------------
(* Decode for the types a program derives: <<"i8">>, <<"u8">>, <<"bool">>,     *)
(* <<"String">>, <<"Option", T>>, <<"Vec", T>>, <<"Map", T>> and               *)
(* <<"Struct", fields>> with fields a sequence of <<key, T>>. I8 and U8 are a   *)
(* narrower type than i64; of the strings only "1" parses as a number.        *)
I8 == {i \in I64 : i - 1 \in I64 /\ i + 1 \in I64}
U8 == I8 \cap Nat

Toward0(x) == IF x >= 0 THEN x \div 10 ELSE -((-x) \div 10)
(* `as i64`: the fraction is cut and the rest saturates. *)
AsI64(x) ==
  LET i == Toward0(x)
  IN IF i \in I64 THEN i ELSE CHOOSE m \in I64 : \A n \in I64 : IF i > 0 THEN m >= n ELSE m <= n

(* impl_signed and impl_unsigned, for a type of the given range. *)
DecodeInt(v, range) ==
  LET signed == ~(range \subseteq Nat)
      n == CASE Tag(v) \in {"int", "uint"} -> v[2]
             [] Tag(v) = "float" -> AsI64(v[2])
             [] Tag(v) = "str" -> 1
             [] OTHER -> 0
  IN IF \/ Tag(v) \notin {"int", "uint", "float", "str", "nan"}
        \/ Tag(v) = "str" /\ v[2] # "1"
        \/ Tag(v) = "float" /\ v[2] < 0 /\ ~signed
        \/ Tag(v) = "nan" /\ ~signed
        \/ n \notin range
     THEN Fail ELSE Done(n)

DecodeBool(v) ==
  CASE Tag(v) = "bool" -> Done(v[2])
    [] Tag(v) = "str" /\ v[2] \in {"true", "false"} -> Done(v[2] = "true")
    [] OTHER -> Fail

(* A slot per field, the last entry of a key wins; a field spelled Option may *)
(* be missing.                                                                *)
BuildStruct(fields, slots) ==
  IF \E i \in 1..Len(fields) : slots[i] = None /\ fields[i][2][1] # "Option" THEN Fail
  ELSE Done([i \in 1..Len(fields) |-> IF slots[i] = None THEN None ELSE slots[i][2]])
NoSlots(fields) == [i \in 1..Len(fields) |-> None]
FieldOf(fields, key) == SelectInSeq(fields, LAMBDA f : f[1] = key)

RECURSIVE Decode(_, _), DecodeAll(_, _), DecodeFields(_, _, _)

(* Decode::decode, from a Value. *)
Decode(T, v) ==
  CASE T[1] = "i8" -> DecodeInt(v, I8)
    [] T[1] = "u8" -> DecodeInt(v, U8)
    [] T[1] = "bool" -> DecodeBool(v)
    [] T[1] = "String" -> IF Tag(v) = "str" THEN Done(v[2]) ELSE Fail
    [] T[1] = "Option" ->
         IF Tag(v) = "null" THEN Done(None)
         ELSE LET r == Decode(T[2], v) IN IF r.ok THEN Done(Some(r.v)) ELSE Fail
    [] T[1] = "Vec" ->
         CASE Tag(v) = "null" -> Done(<<>>)
           [] Tag(v) = "arr" -> DecodeAll(T[2], v[2])
           [] OTHER -> DecodeAll(T[2], <<v>>)
    [] T[1] = "Map" ->
         IF Tag(v) # "obj" THEN Fail
         ELSE LET all == DecodeAll(T[2], [i \in 1..Len(v[2]) |-> v[2][i][2]])
                  keys == {v[2][i][1] : i \in 1..Len(v[2])}
              IN IF ~all.ok THEN Fail
                 ELSE Done([k \in keys |-> all.v[SelectLastInSeq(v[2], LAMBDA e : e[1] = k)]])
    [] T[1] = "Struct" ->
         IF Tag(v) # "obj" THEN Fail
         ELSE LET r == DecodeFields(T[2], v[2], NoSlots(T[2]))
              IN IF r.ok THEN BuildStruct(T[2], r.v) ELSE Fail

DecodeAll(T, items) ==
  LET rs == [i \in 1..Len(items) |-> Decode(T, items[i])]
  IN IF \A i \in 1..Len(items) : rs[i].ok THEN Done([i \in 1..Len(items) |-> rs[i].v]) ELSE Fail

DecodeFields(fields, entries, slots) ==
  IF entries = <<>> THEN Done(slots)
  ELSE LET f == FieldOf(fields, entries[1][1])
           r == Decode(fields[f][2], entries[1][2])
       IN CASE f = 0 -> DecodeFields(fields, Tail(entries), slots)
            [] f # 0 /\ r.ok -> DecodeFields(fields, Tail(entries), [slots EXCEPT ![f] = Some(r.v)])
            [] OTHER -> Fail

-----------------------------------------------------------------------------
(* Decode::decode_from, pulling from the parser. *)
RECURSIVE DecodeFrom(_, _, _, _), ReadSeq(_, _, _, _, _), ReadMap(_, _, _, _, _)

(* MUTANT: an unknown field is not skipped. *)
ReadEntryUnskipped(T, key, t, p, d) ==
  CASE T[1] = "Map" -> DecodeFrom(T[2], t, p, d)
    [] T[1] = "Struct" /\ FieldOf(T[2], key) # 0 -> DecodeFrom(T[2][FieldOf(T[2], key)][2], t, p, d)
    [] OTHER -> Ok(p, Null)

(* The value of one entry: the map's type, the field's, or skip_value. *)
ReadEntry(T, key, t, p, d) ==
  CASE T[1] = "Map" -> DecodeFrom(T[2], t, p, d)
    [] T[1] = "Struct" /\ FieldOf(T[2], key) # 0 -> DecodeFrom(T[2][FieldOf(T[2], key)][2], t, p, d)
    [] OTHER -> ParseValue(t, SkipWs(t, p), d)

DecodeFrom(T, t, p, d) ==
  LET q == SkipWs(t, p)
      s == SkipWs(t, q + 1)
      scalar == ParseValue(t, q, d)
      leaf == Decode(T, scalar.v)
      inner == DecodeFrom(T[2], t, q, d)
      map == ReadMap(T, t, s, Enter(d).d, <<>>)
      keys == {map.v[i][1] : i \in 1..Len(map.v)}
      lastOf(k) == map.v[SelectLastInSeq(map.v, LAMBDA e : e[1] = k)][2]
      built == BuildStruct(T[2], [i \in 1..Len(T[2]) |->
                 IF T[2][i][1] \in keys THEN Some(lastOf(T[2][i][1])) ELSE None])
  IN CASE T[1] \in {"i8", "u8", "bool"} -> IF scalar.ok /\ leaf.ok THEN Ok(scalar.p, leaf.v) ELSE Fail
       [] T[1] = "String" -> IF Tag(Peek(t, q)) = "str" THEN Ok(q + 1, t[q][2]) ELSE Fail
       [] T[1] = "Option" ->
            CASE Peek(t, q) = Tok("null") -> Ok(q + 1, None)
              [] Peek(t, q) # Tok("null") /\ inner.ok -> Ok(inner.p, Some(inner.v))
              [] OTHER -> Fail
       [] T[1] = "Vec" ->
            CASE Peek(t, q) # Tok("[") \/ ~Enter(d).ok -> Fail
              [] Peek(t, s) = Tok("]") -> Ok(s + 1, <<>>)
              [] OTHER -> ReadSeq(T[2], t, s, Enter(d).d, <<>>)
       [] T[1] \in {"Map", "Struct"} ->
            IF Peek(t, q) # Tok("{") \/ ~Enter(d).ok \/ ~map.ok THEN Fail
            ELSE IF T[1] = "Map" THEN Ok(map.p, [k \in keys |-> lastOf(k)])
            ELSE IF built.ok THEN Ok(map.p, built.v) ELSE Fail

(* read_seq *)
ReadSeq(T, t, p, d, items) ==
  LET r == DecodeFrom(T, t, p, d)
      q == SkipWs(t, r.p)
  IN CASE ~r.ok -> Fail
       [] r.ok /\ Peek(t, q) = Tok(",") -> ReadSeq(T, t, q + 1, d, Append(items, r.v))
       [] r.ok /\ Peek(t, q) = Tok("]") -> Ok(q + 1, Append(items, r.v))
       [] OTHER -> Fail

(* read_map: the list of entries its closure is called with, decoded. *)
ReadMap(T, t, p, d, entries) ==
  LET k == SkipWs(t, p)
      colon == SkipWs(t, k + 1)
      key == t[k][2]
      r == IF Tag(Peek(t, k)) = "str" /\ Peek(t, colon) = Tok(":") THEN ReadEntry(T, key, t, colon + 1, d) ELSE Fail
      q == SkipWs(t, r.p)
      all == Append(entries, <<key, r.v>>)
  IN CASE Peek(t, k) = Tok("}") /\ entries = <<>> -> Ok(k + 1, <<>>)
       [] ~r.ok -> Fail
       [] r.ok /\ Peek(t, q) = Tok(",") -> ReadMap(T, t, q + 1, d, all)
       [] r.ok /\ Peek(t, q) = Tok("}") -> Ok(q + 1, all)
       [] OTHER -> Fail

(* json::decode *)
DecodeText(T, t) == LET r == DecodeFrom(T, t, 1, 0) IN WholeText(t, r)

-----------------------------------------------------------------------------
RECURSIVE Encode(_, _)

(* Encode, of a value x of type T. *)
Encode(T, x) ==
  CASE T[1] = "i8" -> IntV(x)
    [] T[1] = "u8" -> UIntV(x)
    [] T[1] = "bool" -> BoolV(x)
    [] T[1] = "String" -> StrV(x)
    [] T[1] = "Option" -> IF x = None THEN Null ELSE Encode(T[2], x[2])
    [] T[1] = "Vec" -> ArrV([i \in 1..Len(x) |-> Encode(T[2], x[i])])
    [] T[1] = "Map" -> LET keys == SetToSeq(DOMAIN x)
                       IN ObjV([i \in 1..Len(keys) |-> <<keys[i], Encode(T[2], x[keys[i]])>>])
    [] T[1] = "Struct" -> ObjV([i \in 1..Len(T[2]) |-> <<T[2][i][1], Encode(T[2][i][2], x[i])>>])

-----------------------------------------------------------------------------
(* A string literal over characters: "^" is the control character U+0001, "@"  *)
(* one outside the basic plane; four hexadecimal digits are one character.     *)
Escape == [c \in {"\"", "\\", "\n"} |-> IF c = "\n" THEN "n" ELSE c]
Unescape == [c \in {"\"", "\\", "/", "n"} |-> IF c = "n" THEN "\n" ELSE c]
UnicodeOf == [h \in {"0001", "0061"} |-> IF h = "0001" THEN "^" ELSE "a"]
HighSurrogate == {"D83D"}
LowSurrogate == {"DE00"}

(* write_string *)
WriteString(s) ==
  <<"\"">> \o FlattenSeq([i \in 1..Len(s) |->
     CASE s[i] \in DOMAIN Escape -> <<"\\", Escape[s[i]]>>
       [] s[i] = "^" -> <<"\\", "u", "0001">>
       [] OTHER -> <<s[i]>>]) \o <<"\"">>

(* parse_unicode_escape, after the u. *)
ParseUnicodeEscape(t, p) ==
  LET at(i) == IF i <= Len(t) THEN t[i] ELSE "eof"
  IN CASE at(p) \in DOMAIN UnicodeOf -> Ok(p + 1, UnicodeOf[at(p)])
       [] at(p) \in HighSurrogate /\ at(p + 1) = "\\" /\ at(p + 2) = "u" /\ at(p + 3) \in LowSurrogate ->
            Ok(p + 4, "@")
       [] OTHER -> Fail

(* parse_string and parse_string_escaped, after the opening quote. *)
RECURSIVE ParseChars(_, _, _)
ParseChars(t, p, out) ==
  LET at(i) == IF i <= Len(t) THEN t[i] ELSE "eof"
      uni == ParseUnicodeEscape(t, p + 2)
  IN CASE at(p) = "eof" -> Fail
       [] at(p) = "\"" -> Ok(p + 1, out)
       [] at(p) = "\\" /\ at(p + 1) \in DOMAIN Unescape ->
            ParseChars(t, p + 2, Append(out, Unescape[at(p + 1)]))
       [] at(p) = "\\" /\ at(p + 1) = "u" -> IF uni.ok THEN ParseChars(t, uni.p, Append(out, uni.v)) ELSE Fail
       [] at(p) = "\\" /\ at(p + 1) \notin DOMAIN Unescape \cup {"u"} -> Fail
       [] OTHER -> ParseChars(t, p + 1, Append(out, at(p)))
ParseString(t) == IF t # <<>> /\ t[1] = "\"" THEN ParseChars(t, 2, <<>>) ELSE Fail

-----------------------------------------------------------------------------
(* Value::get: the last entry of a key. *)
ValueGet(v, key) ==
  LET i == IF Tag(v) = "obj" THEN SelectLastInSeq(v[2], LAMBDA e : e[1] = key) ELSE 0
  IN IF i = 0 THEN None ELSE Some(v[2][i][2])

(* Value::get, get_index, as_str, as_array and as_bool along a path;          *)
(* a step of a path is a key, or 0 for the first item.                        *)
GetPath(v, path) ==
  FoldLeft(LAMBDA cur, k :
             CASE cur = None -> None
               [] cur # None /\ k # "0" -> ValueGet(cur[2], k)
               [] OTHER -> IF Tag(cur[2]) = "arr" /\ cur[2][2] # <<>> THEN Some(cur[2][2][1]) ELSE None,
           Some(v), path)
Typed(v, path, tag) ==
  LET x == GetPath(v, path) IN IF x # None /\ Tag(x[2]) = tag THEN Some(x[2][2]) ELSE None
StrAt(v, path) == Typed(v, path, "str")
OrElse(opt, default) == IF opt = None THEN default ELSE opt[2]
ItemsAt(v, path) == OrElse(Typed(v, path, "arr"), <<>>)
=============================================================================
