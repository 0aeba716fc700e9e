----------------------------- MODULE MCToolset -----------------------------
(* Small instances of Toolset: the servers' tools, the agent and its         *)
(* permissions.                                                              *)
EXTENDS Toolset

CONSTANT Any   \* the segment "*"
MCGlobs == {Any}

MCOriginals == {"wipe", "listFiles", "list-files"}
MCSanitize == [t \in MCOriginals |-> IF t = "wipe" THEN <<"wipe">> ELSE <<"list", "files">>]
MCLists == {{"wipe"}, {"listFiles"}, {"listFiles", "list-files"}}

Fs(name) == <<"fs", "">> \o name
Web(name) == <<"web", "">> \o name
MCNames == {<<"mcp", "client">>, <<"mcp">>, <<"wipe">>, <<"list", "files">>, <<"digest">>}
             \cup {Fs(<<"wipe">>), Fs(<<"list", "files">>), Web(<<"wipe">>), Web(<<"list", "files">>)}
MCExpand == [g \in Globs |-> MCNames]
MCMcpOrigin == [k \in {"server", "external"}, n \in {<<"wipe">>, <<"list", "files">>} |->
  [scope |-> "plugin", sub |-> <<"mcp", "client">>,
   name |-> IF k = "server" THEN Fs(n) ELSE Web(n)]]

Of(scope, sub, name) == [scope |-> scope, sub |-> sub, name |-> name]
MCAgentTools == {[origin |-> Of("tool", None, <<"wipe">>), ask |-> TRUE],
                 [origin |-> Of("task", None, <<"digest">>), ask |-> FALSE]}
MCPluginOrigins == {Of("plugin", <<"mcp">>, <<"wipe">>)}

AllMcp == Of("plugin", <<"mcp", "client">>, Any)
\* MCP tools are let through by a glob, which leaves each of them to be asked
\* about; one is allowed by its name and one denied; the task waits for a human.
MCPolicies ==
  {[allow |-> {AllMcp, Of("plugin", <<"mcp">>, Any), Of("tool", None, Any)},
    ask |-> {Of("task", None, <<"digest">>)},
    deny |-> {Of("plugin", <<"mcp", "client">>, Web(<<"list", "files">>))}]}
MCEras == {"legacy", "modern"}
============================================================================
