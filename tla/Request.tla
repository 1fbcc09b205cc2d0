------------------------------- MODULE Request -------------------------------
(***************************************************************************)
(* The fields of a request.  RunMessages makes a config.ChatRequest of the *)
(* options (internal/runtime/query_runner.go), buildRequestBody the body   *)
(* that is sent (internal/openrouter/http_client.go), each for one of the  *)
(* two APIs: "chat" and "responses".                                       *)
(*                                                                         *)
(* The options p are a function from the names of those that were given;   *)
(* most have the name of their field.  Maps are functions too.             *)
(***************************************************************************)
EXTENDS Integers, SequencesExt

NoFields       == [x \in {} |-> ""]
Put(f, k, v)   == [x \in DOMAIN f \cup {k} |-> IF x = k THEN v ELSE f[x]]
Over(f, g)     == [x \in DOMAIN f \cup DOMAIN g |-> IF x \in DOMAIN g THEN g[x] ELSE f[x]]
Only(f, names) == [x \in DOMAIN f \cap names |-> f[x]]
Get(f, k, none) == IF k \in DOMAIN f THEN f[k] ELSE none

\* The first of the options that was given, under the name the API has for it.
FirstGiven(p, first, second, field) ==
  IF first \in DOMAIN p THEN Put(NoFields, field, p[first])
  ELSE IF second \in DOMAIN p THEN Put(NoFields, field, p[second]) ELSE NoFields

Field(name, map) == IF map = NoFields THEN NoFields ELSE Put(NoFields, name, map)

-----------------------------------------------------------------------------
(* The ChatRequest.                                                        *)

\* WithEffort and WithThinking add to the map of WithReasoning.
Reasoning(p) ==
  LET map    == Get(p, "reasoning", NoFields)
      effort == IF "effort" \in DOMAIN p THEN Put(map, "effort", p["effort"]) ELSE map
  IN  CASE Get(p, "thinking", "") = "disabled" -> Put(effort, "enabled", "false")
        [] Get(p, "thinking", "") = "enabled"  ->
             Over(Put(effort, "enabled", "true"), FirstGiven(p, "budget", "budget", "max_tokens"))
        [] Get(p, "thinking", "") = "adaptive" -> Over(Put(NoFields, "effort", "medium"), effort)
        [] OTHER -> effort

\* The user goes into the metadata too, unless they name one.
Metadata(p) ==
  LET user == IF "user" \in DOMAIN p THEN Put(NoFields, "user", p["user"]) ELSE NoFields
  IN  Over(user, Get(p, "metadata", NoFields))

\* WithOpenRouterPlugins comes before WithPlugins.
Plugins(p) == FirstGiven(p, "openrouter_plugins", "plugins", "plugins")

\* RunMessages: what was given, and what is put together of it.
ChatRequest(p) ==
  FoldLeft(Over,
    Only(p, DOMAIN p \ {"effort", "thinking", "budget", "openrouter_plugins"}),
    <<Plugins(p), Field("reasoning", Reasoning(p)), Field("metadata", Metadata(p))>>)

-----------------------------------------------------------------------------
(* The output format: a schema, bare or in one of several wrappings.       *)

Typed(f) == Get(f, "type", "") = "json_schema"
Bare(f)  == "properties" \in DOMAIN f \/ Get(f, "type", "") = "object"
Name(s)  == IF Get(s, "name", "") = "" THEN "response" ELSE s["name"]

\* buildJSONSchemaConfig
SchemaConfig(s) ==
  IF s = NoFields THEN Put(NoFields, "name", "response")
  ELSE IF "schema" \in DOMAIN s THEN Put(s, "name", Name(s))
  ELSE [name |-> "response", schema |-> s]

\* normalizeChatResponseFormat
ChatFormat(f) ==
  LET wrapped(s) == [type |-> "json_schema", json_schema |-> SchemaConfig(s)]
      without    == Only(f, DOMAIN f \ {"schema"})
  IN  CASE Typed(f) /\ ("json_schema" \in DOMAIN f \/ "schema" \notin DOMAIN f) -> f
        [] Typed(f) /\ "json_schema" \notin DOMAIN f /\ "schema" \in DOMAIN f ->
             Put(without, "json_schema", SchemaConfig(f["schema"]))
        [] ~ Typed(f) /\ Get(f, "json_schema", NoFields) # NoFields -> wrapped(f["json_schema"])
        [] ~ Typed(f) /\ Get(f, "json_schema", NoFields) = NoFields
                      /\ Get(f, "schema", NoFields) # NoFields -> wrapped(f["schema"])
        [] OTHER -> IF Bare(f) THEN wrapped(f) ELSE f

\* normalizeResponsesTextFormat
ResponsesFormat(f) ==
  LET text(s) == Over([type |-> "json_schema", name |-> Name(s),
                       schema |-> Get(s, "schema", NoFields)],
                      Only(s, {"description", "strict"}))
  IN  IF Typed(f)
      THEN IF "schema" \in DOMAIN f THEN text(f) ELSE text(Get(f, "json_schema", NoFields))
      ELSE IF Bare(f) THEN text([schema |-> f]) ELSE f

-----------------------------------------------------------------------------
(* The body.                                                               *)

ChatOnly      == {"seed", "stop"}
ResponsesOnly == {"top_k", "max_tool_calls", "instructions", "previous_response_id",
                  "prompt_cache_key", "service_tier", "truncation", "include", "background",
                  "safety_identifier", "store", "prompt"}

\* slip: WithMaxOutputTokens counts for the Responses API only
LimitAsNamed(r, mode) ==
  IF mode = "responses"
  THEN FirstGiven(r, "max_output_tokens", "max_tokens", "max_output_tokens")
  ELSE FirstGiven(r, "max_tokens", "max_tokens", "max_tokens")
Limit(r, mode) ==
  IF mode = "responses"
  THEN FirstGiven(r, "max_output_tokens", "max_tokens", "max_output_tokens")
  ELSE FirstGiven(r, "max_tokens", "max_output_tokens", "max_tokens")

\* The Responses API has no logprobs: asking for them asks for one.
Logprobs(r, mode) ==
  IF mode = "chat" THEN Only(r, {"logprobs"})
  ELSE IF Get(r, "logprobs", "") = "true" /\ "top_logprobs" \notin DOMAIN r
       THEN Put(NoFields, "top_logprobs", "1") ELSE NoFields

Trace(r) == IF Get(r, "trace", "") = "true" THEN Put(NoFields, "trace", "true") ELSE NoFields

Format(r, mode) ==
  LET format == Get(r, "format", NoFields)
      text   == Get(r, "text", NoFields)
  IN  IF mode = "chat"
      THEN IF format = NoFields THEN NoFields
           ELSE Put(NoFields, "response_format", ChatFormat(format))
      ELSE Field("text", IF format = NoFields THEN text
                         ELSE Put(text, "format", ResponsesFormat(format)))

\* The others are sent as they are.
Plain(r, mode) ==
  Only(r, DOMAIN r \ ({"max_tokens", "max_output_tokens", "format", "text", "logprobs", "trace"}
                      \cup IF mode = "chat" THEN ResponsesOnly ELSE ChatOnly))

\* tool_choice is "auto" when there are tools and no choice was made.
ToolChoice(r, tools) ==
  IF tools # {} /\ "tool_choice" \notin DOMAIN r
  THEN Put(NoFields, "tool_choice", "auto") ELSE NoFields

\* buildRequestBody, without the messages and the tools; extra over the rest.
Fields(p, mode, model, tools, extra) ==
  LET r == ChatRequest(p)
  IN  FoldLeft(Over, Put(NoFields, "model", model),
        <<Plain(r, mode), ToolChoice(r, tools), Limit(r, mode), Logprobs(r, mode), Trace(r),
          Format(r, mode), extra>>)
=============================================================================
