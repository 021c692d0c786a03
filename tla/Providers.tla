------------------------------ MODULE Providers -----------------------------
(* genai/providers/{openai,claude,ollama}.rs: a conversation to a vendor's     *)
(* request body, and the vendor's answer, whole or streamed, to a response;    *)
(* and the prompt templates of genai/template.rs.                             *)
(* Texts are sequences; a body is a record of the fields the code sets, an     *)
(* answer is a Value. The numbers of a usage are u32, scaled to U32 values.    *)
EXTENDS Settings

U32 == 4

(* genai/message.rs *)
TextPart(t) == [kind |-> "text", text |-> t]
Image(data) == [kind |-> "image", data |-> data]
FileRef(uri) == [kind |-> "file", uri |-> uri]
ToolCall(id, name, arguments) == [kind |-> "call", id |-> id, name |-> name, arguments |-> arguments]
ToolResult(id, result) == [kind |-> "result", id |-> id, result |-> result]
Message(role, parts) == [role |-> role, parts |-> parts]
TextContent(m) ==
  FlattenSeq([i \in 1..Len(m.parts) |-> IF m.parts[i].kind = "text" THEN m.parts[i].text ELSE <<>>])

(* encode_message of the three. *)
OpenAiBlock(p) ==
  CASE p.kind = "text" -> <<[type |-> "text", text |-> p.text]>>
    [] p.kind = "image" -> <<[type |-> "image_url", data |-> p.data]>>
    [] p.kind = "file" -> <<[type |-> "image_url", data |-> p.uri]>>
    [] OTHER -> <<>>
OpenAiMessage(m) ==
  [role |-> m.role,
   content |-> IF \A i \in 1..Len(m.parts) : m.parts[i].kind = "text"
               THEN <<[type |-> "text", text |-> TextContent(m)]>>
               ELSE FlattenSeq([i \in 1..Len(m.parts) |-> OpenAiBlock(m.parts[i])])]
ClaudeBlock(p) ==
  CASE p.kind = "text" -> [type |-> "text", text |-> p.text]
    [] p.kind = "image" -> [type |-> "image", data |-> p.data]
    [] p.kind = "file" -> [type |-> "text", text |-> p.uri]
    [] p.kind = "call" -> [type |-> "tool_use", id |-> p.id, name |-> p.name, input |-> p.arguments]
    [] p.kind = "result" -> [type |-> "tool_result", id |-> p.id, content |-> p.result]
ClaudeMessage(m) ==
  [role |-> IF m.role = "assistant" THEN "assistant" ELSE "user",
   content |-> [i \in 1..Len(m.parts) |-> ClaudeBlock(m.parts[i])]]
OllamaMessage(m) == [role |-> m.role, content |-> <<[type |-> "text", text |-> TextContent(m)]>>]

(* build_body: a request is [messages, system, maxTokens]; the options that    *)
(* are copied one by one are left out, but for the one Claude always needs.    *)
DefaultMaxTokens == 1
SystemMessage(text) == [role |-> "system", content |-> <<[type |-> "text", text |-> text]>>]
Front1(req) == IF req.system = None THEN <<>> ELSE <<SystemMessage(req.system[2])>>
OpenAiBody(req) ==
  [messages |-> Front1(req) \o [i \in 1..Len(req.messages) |-> OpenAiMessage(req.messages[i])],
   system |-> None, maxTokens |-> req.maxTokens]
OllamaBody(req) ==
  [messages |-> Front1(req) \o [i \in 1..Len(req.messages) |-> OllamaMessage(req.messages[i])],
   system |-> None, maxTokens |-> req.maxTokens]

ClaudeBody(req) ==
  LET said == SelectSeq(req.messages, LAMBDA m : m.role # "system")
      sys == SelectSeq(req.messages, LAMBDA m : m.role = "system")
      joined == Join([i \in 1..Len(sys) |-> TextContent(sys[i])], <<"\n">>)
  IN [messages |-> [i \in 1..Len(said) |-> ClaudeMessage(said[i])],
      system |-> CASE req.system # None -> req.system
                   [] req.system = None /\ joined # <<>> -> Some(joined)
                   [] OTHER -> None,
      maxTokens |-> IF req.maxTokens = None THEN Some(DefaultMaxTokens) ELSE req.maxTokens]

Body(vendor, req) ==
  CASE vendor = "openai" -> OpenAiBody(req) [] vendor = "claude" -> ClaudeBody(req) [] vendor = "ollama" -> OllamaBody(req)

-----------------------------------------------------------------------------
(* as_u64 along a path, cast to u32. *)
U32At(v, path) ==
  LET x == GetPath(v, path)
  IN IF x # None /\ Tag(x[2]) \in {"int", "uint"} /\ x[2][2] >= 0 THEN Some(x[2][2] % U32) ELSE None
Usage(prompt, completion, total) == Some([prompt |-> prompt, completion |-> completion, total |-> total])
Response(parts, finish, usage) == Done([parts |-> parts, finish |-> finish, usage |-> usage])

(* parse_response: the arguments of OpenAI's calls are themselves a JSON text. *)
OpenAiResponse(v) ==
  LET text == OrElse(StrAt(v, <<"choices", "0", "message", "content">>), <<>>)
      calls == ItemsAt(v, <<"choices", "0", "message", "tool_calls">>)
      call(c) == LET args == StrAt(c, <<"function", "arguments">>)
                     parsed == FromStr(args[2])
                 IN ToolCall(OrElse(StrAt(c, <<"id">>), <<>>), OrElse(StrAt(c, <<"function", "name">>), <<>>),
                             IF args # None /\ parsed.ok THEN parsed.v ELSE Null)
  IN IF GetPath(v, <<"choices", "0">>) = None THEN Fail
     ELSE Response((IF text = <<>> THEN <<>> ELSE <<TextPart(text)>>) \o [i \in 1..Len(calls) |-> call(calls[i])],
                   StrAt(v, <<"choices", "0", "finish_reason">>),
                   IF ValueGet(v, "usage") = None THEN None
                   ELSE Usage(U32At(v, <<"usage", "prompt_tokens">>), U32At(v, <<"usage", "completion_tokens">>),
                              U32At(v, <<"usage", "total_tokens">>)))

ClaudeResponse(v) ==
  LET blocks == ItemsAt(v, <<"content">>)
      part(b) ==
        CASE StrAt(b, <<"type">>) = Some("text") ->
               IF StrAt(b, <<"text">>) = None THEN <<>> ELSE <<TextPart(StrAt(b, <<"text">>)[2])>>
          [] StrAt(b, <<"type">>) = Some("tool_use") ->
               <<ToolCall(OrElse(StrAt(b, <<"id">>), <<>>), OrElse(StrAt(b, <<"name">>), <<>>),
                          OrElse(ValueGet(b, "input"), Null))>>
          [] OTHER -> <<>>
      in == U32At(v, <<"usage", "input_tokens">>)
      out == U32At(v, <<"usage", "output_tokens">>)
  IN IF Typed(v, <<"content">>, "arr") = None THEN Fail
     ELSE Response(FlattenSeq([i \in 1..Len(blocks) |-> part(blocks[i])]), StrAt(v, <<"stop_reason">>),
                   IF ValueGet(v, "usage") = None THEN None
                   ELSE Usage(in, out, IF in = None \/ out = None THEN None ELSE Some((in[2] + out[2]) % U32)))

OllamaResponse(v) ==
  LET reason == StrAt(v, <<"done_reason">>)
      done == OrElse(Typed(v, <<"done">>, "bool"), FALSE)
  IN Response(<<TextPart(OrElse(StrAt(v, <<"message", "content">>), <<>>))>>,
              IF reason # None THEN reason ELSE IF done THEN Some("stop") ELSE None,
              Usage(U32At(v, <<"prompt_eval_count">>), U32At(v, <<"eval_count">>), None))

ParseResponse(vendor, v) ==
  CASE vendor = "openai" -> OpenAiResponse(v) [] vendor = "claude" -> ClaudeResponse(v) [] vendor = "ollama" -> OllamaResponse(v)

-----------------------------------------------------------------------------
(* parse_sse_line and parse_ndjson_line: a line is Some of the Value of its    *)
(* data, or None where there is no data or it is [DONE].                      *)
Chunk(delta, finish) == Some([delta |-> delta, finish |-> finish])
OpenAiLine(v) ==
  Chunk(OrElse(StrAt(v, <<"choices", "0", "delta", "content">>), <<>>), StrAt(v, <<"choices", "0", "finish_reason">>))
ClaudeLine(v) ==
  CASE StrAt(v, <<"type">>) = Some("content_block_delta") -> Chunk(OrElse(StrAt(v, <<"delta", "text">>), <<>>), None)
    [] StrAt(v, <<"type">>) = Some("message_delta") -> Chunk(<<>>, StrAt(v, <<"delta", "stop_reason">>))
    [] OTHER -> None
OllamaLine(v) ==
  Chunk(OrElse(StrAt(v, <<"message", "content">>), <<>>),
        IF OrElse(Typed(v, <<"done">>, "bool"), FALSE) THEN Some("stop") ELSE None)

(* MUTANT: the chunk that ends the answer is taken to carry no text. *)
ParseLineLast(vendor, line) ==
  LET c == CASE vendor = "openai" -> OpenAiLine(line[2]) [] vendor = "claude" -> ClaudeLine(line[2])
             [] vendor = "ollama" -> OllamaLine(line[2])
  IN CASE line = None -> None
       [] line # None /\ c # None -> IF c[2].finish = None THEN c ELSE Chunk(<<>>, c[2].finish)
       [] OTHER -> None

ParseLine(vendor, line) ==
  CASE line = None -> None
    [] line # None /\ vendor = "openai" -> OpenAiLine(line[2])
    [] line # None /\ vendor = "claude" -> ClaudeLine(line[2])
    [] line # None /\ vendor = "ollama" -> OllamaLine(line[2])

(* parse_embeddings: every number of every row, or no response at all. *)
ParseEmbeddings(vendor, v) ==
  LET rows == IF vendor = "openai" THEN Typed(v, <<"data">>, "arr") ELSE Typed(v, <<"embeddings">>, "arr")
      cells(r) == IF vendor = "openai" THEN Typed(r, <<"embedding">>, "arr") ELSE Typed(r, <<>>, "arr")
      number(c) == Tag(c) \in {"int", "uint", "float"}
      tenths(c) == IF Tag(c) = "float" THEN c[2] ELSE 10 * c[2]
      good(r) == cells(r) # None /\ \A i \in 1..Len(cells(r)[2]) : number(cells(r)[2][i])
  IN IF rows = None \/ \E i \in 1..Len(rows[2]) : ~good(rows[2][i]) THEN Fail
     ELSE Done([i \in 1..Len(rows[2]) |-> [j \in 1..Len(cells(rows[2][i])[2]) |-> tenths(cells(rows[2][i])[2][j])]])

(* complete: transport, status and body, in that order. *)
Complete(vendor, exchange) ==
  LET r == ParseResponse(vendor, exchange.body[2])
  IN CASE exchange.broken -> [ok |-> FALSE, error |-> "Transport"]
       [] ~exchange.broken /\ exchange.status \notin 200..299 -> [ok |-> FALSE, error |-> "Api"]
       [] ~exchange.broken /\ exchange.status \in 200..299 ->
            IF exchange.body = None \/ ~r.ok THEN [ok |-> FALSE, error |-> "ResponseParse"] ELSE r

-----------------------------------------------------------------------------
(* render_value: vars gives the text of what is at a path, a sequence of keys; *)
(* an expression without a value is empty.                                    *)
RECURSIVE Render(_, _, _, _)
Render(t, vars, i, out) ==
  LET opens == i < Len(t) /\ t[i] = "{" /\ t[i + 1] = "{"
      ends == {j \in (i + 2)..(Len(t) - 1) : t[j] = "}" /\ t[j + 1] = "}"}
      j == CHOOSE k \in ends : \A l \in ends : k <= l
      path == Trim(TrimStart(Trim(SubSeq(t, i + 2, j - 1), {" "}), {"."}), {" "})
      keys == SelectSeq(Split(path, "."), LAMBDA k : k # <<>>)
      text == IF keys \in DOMAIN vars THEN vars[keys] ELSE <<>>
  IN CASE i > Len(t) -> Done(out)
       [] i <= Len(t) /\ opens -> IF ends = {} THEN Fail ELSE Render(t, vars, j + 2, out \o text)
       [] OTHER -> Render(t, vars, i + 1, Append(out, t[i]))

RenderValue(t, vars) == Render(t, vars, 1, <<>>)
=============================================================================
