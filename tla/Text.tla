-------------------------------- MODULE Text --------------------------------
(* Strings as sequences of characters, and the methods of std's str that the  *)
(* modelled code calls (external).                                            *)
EXTENDS Integers, Sequences, SequencesExt

Some(x) == <<"some", x>>
None == <<"none">>
Fail == [ok |-> FALSE]

(* str::split: always at least one part. *)
Split(s, c) ==
  FoldLeft(LAMBDA parts, x : IF x = c THEN Append(parts, <<>>)
                             ELSE [parts EXCEPT ![Len(parts)] = Append(@, x)],
           <<<<>>>>, s)

Join(parts, sep) ==
  FoldLeftDomain(LAMBDA acc, i : acc \o (IF i = 1 THEN <<>> ELSE sep) \o parts[i], <<>>, parts)

(* str::find of a character: its position, or 0. *)
Find(s, c) == SelectInSeq(s, LAMBDA x : x = c)
FindLast(s, c) == SelectLastInSeq(s, LAMBDA x : x = c)

Before(s, i) == SubSeq(s, 1, i - 1)
After(s, i) == SubSeq(s, i + 1, Len(s))

(* trim_end_matches and trim_start_matches of a set of characters. *)
TrimEnd(s, C) ==
  LET last == SelectLastInSeq(s, LAMBDA x : x \notin C) IN SubSeq(s, 1, last)
TrimStart(s, C) ==
  LET first == SelectInSeq(s, LAMBDA x : x \notin C)
  IN IF first = 0 THEN <<>> ELSE SubSeq(s, first, Len(s))
Trim(s, C) == TrimStart(TrimEnd(s, C), C)
=============================================================================
