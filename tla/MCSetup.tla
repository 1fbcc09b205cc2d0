------------------------------- MODULE MCSetup -------------------------------
EXTENDS Setup

CONSTANTS c1, c2

Opt(field, value) == [set |-> field, to |-> value]
Param(name, value) == [set |-> "request", key |-> name, to |-> value]

External(tools) == [kind |-> "external", tools |-> [t \in tools |-> Nil]]

MCCallerServers == [s \in {"ext"} |-> External({"t", "u"})]
MCConfigServers == [s \in {"sdk"} |-> External({"t"})]

Schema == [properties |-> "p"]
Config == [name |-> "n", schema |-> Schema]

Lists == {
  <<Opt("servers", Shared), Opt("allowed", {<<"ext", "t">>}), Opt("sdk", {"t"}),
    Opt("onUserInput", TRUE), Param("seed", "1"), Param("max_output_tokens", "9")>>,
  <<Opt("servers", Shared), Opt("disallowed", {<<"ext", "u">>}), Opt("onUserInput", TRUE)>>,
  <<Opt("sdk", {"t"}), Opt("servers", Shared), Opt("hooks", {"SessionEnd"}),
    Param("format", [json_schema |-> NoFields, schema |-> Schema])>>,
  <<Opt("sdk", {"t"}), Opt("tools", {<<"sdk", "t">>}), Opt("allowed", {}),
    Opt("onUserInput", TRUE), Opt("promptTool", "ask")>>,
  <<Opt("sdk", {"t"}), Opt("tools", {<<"sdk", "t">>}), Opt("onUserInput", TRUE),
    Opt("mode", "responses"), Param("seed", "1"), Param("top_k", "4"),
    Param("max_tokens", "8"), Param("format", [type |-> "json_schema", json_schema |-> Config]),
    Param("text", [f \in {"verbosity"} |-> "low"]), Param("logprobs", "true"), Opt("extra", [f \in {"top_k"} |-> "5"])>>,
  <<Opt("mcpConfig", "good"), Opt("onUserInput", TRUE), Opt("model", "m1"),
    Param("tool_choice", "none"), Param("max_tokens", "7"), Param("max_output_tokens", "9")>>,
  <<Opt("mcpConfig", "bad")>>,
  <<Opt("canUseTool", TRUE), Opt("resume", <<"s">>), Param("user", "me"),
    Param("format", [type |-> "json_schema", schema |-> Schema, strict |-> "true"]),
    Param("reasoning", [f \in {"enabled", "effort"} |-> "true"]),
    Param("effort", "low"), Param("thinking", "disabled"), Param("trace", "true")>>,
  <<Opt("resume", <<"s">>), Param("format", Schema), Param("thinking", "adaptive"),
    Param("plugins", "p")>>,
  <<Opt("mode", "responses"), Param("format", Schema), Param("thinking", "enabled"),
    Param("budget", "3"), Param("metadata", [f \in {"user"} |-> "you"]), Param("user", "me")>>,
  <<Opt("store", TRUE), Opt("resume", <<"s">>)>>,
  <<Opt("store", TRUE), Opt("resume", <<"s">>), Opt("fork", TRUE)>>,
  <<Opt("store", TRUE), Opt("resume", <<"s", 1>>), Opt("fork", TRUE)>>
}

Symmetry == Permutations({c1, c2})
=============================================================================
