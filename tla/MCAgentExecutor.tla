-------------------------- MODULE MCAgentExecutor --------------------------
(* Instance of AgentExecutor for TLC: the other constants are in the .cfg.  *)
EXTENDS AgentExecutor

MCDomains == {<< "com", "example" >>}

\* The gateway's tools, and SQLTool, which a program with a pool may register.
MCRegistered == build_tool_registry(TRUE) \union {"sql_query"}

Directive(name, arguments) == [kind |-> "call", name |-> name, arguments |-> arguments]
String(content) == Json("string", content)

\* "(-8) ** 0.5 / 2", an expression without its key, an allowed subdomain, a host that is
\* not allowed, a query with a boolean for its limit, and a tool nobody registered.
MCCall == {
  Directive("calculator",
            [expression |-> String(<< "positive", "usub", "positive", "**", "positive", "/" >>)]),
  Directive("calculator", [key \in {} |-> String(<< >>)]),
  Directive("http_get", [url |-> String(<< "com", "example", "api" >>)]),
  Directive("http_get", [url |-> String(<< "com", "elsewhere" >>), headers |-> String(<< >>)]),
  Directive("sql_query", [query |-> String(<< "SELECT" >>), limit |-> Json("boolean", << >>)]),
  Directive("imagined", [query |-> String(<< "SELECT" >>)])}
=============================================================================
