------------------------------ MODULE Settings ------------------------------
(* config.rs, the layers of a configuration, and cli/mod.rs, the parser of a  *)
(* command line. A key is the sequence of its segments; the names of          *)
(* environment variables are in one case. A command-line token is a sequence  *)
(* of characters.                                                             *)
EXTENDS JsonCodec, TLC

(* insert_nested: what is in the way of a segment is replaced by an object. *)
RECURSIVE InsertNested(_, _, _)
InsertNested(entries, segs, v) ==
  LET i == SelectInSeq(entries, LAMBDA e : e[1] = segs[1])
      child == IF i # 0 /\ Tag(entries[i][2]) = "obj" THEN entries[i][2][2] ELSE <<>>
      new == <<segs[1], IF Len(segs) = 1 THEN v ELSE ObjV(InsertNested(child, Tail(segs), v))>>
  IN IF i = 0 THEN Append(entries, new) ELSE [entries EXCEPT ![i] = new]

(* MUTANT: objects are replaced as everything else. *)
MergeShallow(base, over) ==
  LET put(b, e) == LET i == SelectInSeq(b, LAMBDA x : x[1] = e[1])
                   IN IF i = 0 THEN Append(b, e) ELSE [b EXCEPT ![i] = e]
  IN IF Tag(base) = "obj" /\ Tag(over) = "obj" THEN ObjV(FoldLeft(put, base[2], over[2])) ELSE over

(* merge: objects deeply, everything else is replaced. *)
RECURSIVE Merge(_, _)
Merge(base, over) ==
  LET put(b, e) == LET i == SelectInSeq(b, LAMBDA x : x[1] = e[1])
                   IN IF i = 0 THEN Append(b, e) ELSE [b EXCEPT ![i] = <<e[1], Merge(@[2], e[2])>>]
  IN IF Tag(base) = "obj" /\ Tag(over) = "obj" THEN ObjV(FoldLeft(put, base[2], over[2])) ELSE over

NoEmpty(segs) == \A i \in 1..Len(segs) : segs[i] # ""
PutChecked(entries, segs, v) == IF NoEmpty(segs) THEN InsertNested(entries, segs, v) ELSE entries

(* parse_properties: a line is <<>> when it is blank, a comment or has no "=". *)
ParseProperties(lines) ==
  ObjV(FoldLeft(LAMBDA es, l : IF l = <<>> THEN es ELSE PutChecked(es, l[1], l[2]), <<>>, lines))

(* env_to_value, of a set of pairs of a key and a value, sorted by key: one    *)
(* that begins with another comes after it.                                   *)
EnvToValue(env) ==
  LET sorted == SetToSortSeq(env, LAMBDA x, y : Len(x[1]) < Len(y[1]))
  IN ObjV(FoldLeft(LAMBDA es, e : InsertNested(es, e[1], e[2]), <<>>, sorted))

(* merge_args: a token is <<"flag", key, inline value or None>> or a word. *)
RECURSIVE ArgEntries(_, _)
ArgEntries(entries, args) ==
  LET a == args[1]
      takes == a[3] = None /\ Len(args) > 1 /\ args[2][1] = "word"
      v == CASE a[3] # None -> a[3][2]
             [] takes -> StrV(args[2][2])
             [] OTHER -> StrV("true")
      rest == SubSeq(args, IF takes THEN 3 ELSE 2, Len(args))
  IN CASE args = <<>> -> entries
       [] args # <<>> /\ a[1] = "word" -> ArgEntries(entries, Tail(args))
       [] OTHER -> ArgEntries(PutChecked(entries, a[2], v), rest)

(* A builder that merges the environment, a file, and the arguments last. *)
BuildConfig(env, lines, args) ==
  Merge(Merge(Merge(ObjV(<<>>), EnvToValue(env)), ParseProperties(lines)), ObjV(ArgEntries(<<>>, args)))

(* navigate, empty segments left out. *)
Navigate(v, key) ==
  FoldLeft(LAMBDA cur, seg : IF seg = "" \/ cur = None THEN cur ELSE ValueGet(cur[2], seg), Some(v), key)

-----------------------------------------------------------------------------
(* Arg and Command: a command is a record of its flags, positionals and        *)
(* subcommands; env is what the environment holds.                            *)
Arg(name, short, long, required, default, env, boolean) ==
  [name |-> name, short |-> short, long |-> long, required |-> required, default |-> default, env |-> env,
   boolean |-> boolean]
NoMatches == [values |-> <<>>, bools |-> {}, positionals |-> <<>>, sub |-> None]
Refuse(why) == [ok |-> FALSE, why |-> why]
FindArg(cmd, form, key) ==
  LET i == SelectInSeq(cmd.flags, LAMBDA a : a[form] = Some(key)) IN IF i = 0 THEN None ELSE Some(cmd.flags[i])

IsPrefixOf(t, p) == Len(t) >= Len(p) /\ SubSeq(t, 1, Len(p)) = p
WithValue(m, name, v) == [m EXCEPT !.values = (name :> v) @@ @]

(* --long, --long value and --long=value, at argv[i]. *)
LongForm(cmd, argv, i, m) ==
  LET body == SubSeq(argv[i], 3, Len(argv[i]))
      eq == Find(body, "=")
      key == IF eq = 0 THEN body ELSE Before(body, eq)
      arg == FindArg(cmd, "long", key)
  IN CASE arg = None -> Refuse("unknown")
       [] arg # None /\ arg[2].boolean -> Ok(i + 1, [m EXCEPT !.bools = @ \cup {arg[2].name}])
       [] arg # None /\ ~arg[2].boolean /\ eq # 0 -> Ok(i + 1, WithValue(m, arg[2].name, After(body, eq)))
       [] arg # None /\ ~arg[2].boolean /\ eq = 0 ->
            IF i + 1 > Len(argv) THEN Refuse("value") ELSE Ok(i + 2, WithValue(m, arg[2].name, argv[i + 1]))

(* -a, -abc, -p value and -pvalue: from character j of argv[i]. *)
RECURSIVE ShortForm(_, _, _, _, _)
ShortForm(cmd, argv, i, j, m) ==
  LET tok == argv[i]
      arg == FindArg(cmd, "short", tok[j])
  IN CASE j > Len(tok) -> Ok(i + 1, m)
       [] j <= Len(tok) /\ arg = None -> Refuse("unknown")
       [] j <= Len(tok) /\ arg # None /\ arg[2].boolean ->
            ShortForm(cmd, argv, i, j + 1, [m EXCEPT !.bools = @ \cup {arg[2].name}])
       [] j < Len(tok) /\ arg # None /\ ~arg[2].boolean -> Ok(i + 1, WithValue(m, arg[2].name, After(tok, j)))
       [] OTHER -> IF i + 1 > Len(argv) THEN Refuse("value") ELSE Ok(i + 2, WithValue(m, arg[2].name, argv[i + 1]))

(* The command line before the environment before the default. *)
Resolve(cmd, env, m) ==
  LET open == {i \in 1..Len(cmd.flags) : ~cmd.flags[i].boolean /\ cmd.flags[i].name \notin DOMAIN m.values}
      found(a) == IF a.env \in DOMAIN env THEN Some(env[a.env]) ELSE a.default
      missing == \E i \in open : cmd.flags[i].required /\ found(cmd.flags[i]) = None
      filled == [n \in {cmd.flags[i].name : i \in {k \in open : found(cmd.flags[k]) # None}} |->
                   found(cmd.flags[CHOOSE i \in open : cmd.flags[i].name = n])[2]]
  IN IF missing THEN Refuse("required") ELSE Done([m EXCEPT !.values = @ @@ filled])

RECURSIVE ParseSlice(_, _, _), ParseFrom(_, _, _, _, _, _)

(* The loop of parse_slice; plain once -- has been seen. *)
ParseFrom(cmd, env, argv, i, plain, m) ==
  LET tok == argv[i]
      dispatches == ~plain /\ m.positionals = <<>> /\ tok \in DOMAIN cmd.subcommands
      child == ParseSlice(cmd.subcommands[tok], env, After(argv, i))
      r == IF IsPrefixOf(tok, <<"-", "-">>) THEN LongForm(cmd, argv, i, m) ELSE ShortForm(cmd, argv, i, 2, m)
  IN CASE i > Len(argv) -> Done(m)
       [] i <= Len(argv) /\ ~plain /\ tok = <<"-", "-">> -> ParseFrom(cmd, env, argv, i + 1, TRUE, m)
       [] i <= Len(argv) /\ ~plain /\ tok \in {<<"-", "-", "help">>, <<"-", "h">>} -> Refuse("help")
       [] i <= Len(argv) /\ ~plain /\ Len(tok) > 1 /\ tok[1] = "-" /\ tok \notin {<<"-", "-">>, <<"-", "-", "help">>, <<"-", "h">>} ->
            IF r.ok THEN ParseFrom(cmd, env, argv, r.p, plain, r.v) ELSE r
       [] i <= Len(argv) /\ dispatches ->
            IF child.ok THEN Done([m EXCEPT !.sub = Some(<<tok, child.v>>)]) ELSE child
       [] OTHER -> ParseFrom(cmd, env, argv, i + 1, plain, [m EXCEPT !.positionals = Append(@, tok)])

(* parse_slice: the tokens, the fallbacks, and the positionals that must be    *)
(* there when no subcommand took over.                                        *)
ParseSlice(cmd, env, argv) ==
  LET scanned == ParseFrom(cmd, env, argv, 1, FALSE, NoMatches)
      resolved == Resolve(cmd, env, scanned.v)
      short == \E i \in 1..Len(cmd.positionals) : cmd.positionals[i].required /\ i > Len(resolved.v.positionals)
  IN CASE ~scanned.ok -> scanned
       [] scanned.ok /\ ~resolved.ok -> resolved
       [] scanned.ok /\ resolved.ok /\ resolved.v.sub = None /\ short -> Refuse("required")
       [] OTHER -> resolved
=============================================================================
