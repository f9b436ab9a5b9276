------------------------------- MODULE Tools --------------------------------
(***************************************************************************)
(* The built-in tools of athenai.tools, their registry and ToolValidator.  *)
(* Each operator gives the outcomes a call may have; json.dumps, which the *)
(* executor applies to what a tool returns, decides between Value and      *)
(* Unserialisable.                                                         *)
(*                                                                         *)
(* A JSON value is its type and, as a sequence of tokens, the part of its  *)
(* content a tool decides on: an expression is in postfix order, its       *)
(* numbers by their sign; a URL is the labels of its host, top level       *)
(* first; a query is its words.  Arguments are a function from keys to     *)
(* JSON values; anything but an object fails as an object without keys.    *)
(***************************************************************************)
EXTENDS Integers, Sequences, SequencesExt

CONSTANT
  AllowedDomains   \* HTTPTool(allowed_domains)

Value == "value"
Unserialisable == "unserialisable"
Denied == "ToolDeniedError"
ArgumentError == "argument missing or of the wrong type"
Failed == "another exception"
Errors == {Denied, ArgumentError, Failed}
Outcomes == {Value, Unserialisable} \union Errors

Json(type, content) == [type |-> type, content |-> content]

Lacks(arguments, key) == key \notin DOMAIN arguments
Mistyped(arguments, key, type) ==
  ~ Lacks(arguments, key) /\ arguments[key].type # type

-----------------------------------------------------------------------------
(* CalculatorTool                                                          *)

Signs == {"zero", "positive", "negative"}
Divisions == {"/", "//", "%"}
ALLOWED_BINOPS == {"+", "-", "*", "**"} \union Divisions

\* Python's arithmetic on numbers of those signs.  Complex numbers (a negative number to
\* a fraction) and integers of more than 4300 digits cannot be encoded; nothing but / //
\* and % by zero is turned into ToolDeniedError.
Arithmetic(op, l, r) ==
  CASE op \in Divisions /\ r = "zero" -> {Denied}
    [] op \in Divisions /\ r # "zero" /\ Unserialisable \notin {l, r} -> Signs \union {Failed}
    [] op = "**" /\ l = "zero" /\ r # Unserialisable ->
         {CASE r = "negative" -> Failed [] r = "zero" -> "positive" [] OTHER -> "zero"}
    [] OTHER -> Signs \union {Unserialisable, Failed}

\* The operands are evaluated from the left; the first error ends the evaluation.
BinOp(op, l, r) ==
  IF l \in Errors THEN {l} ELSE IF r \in Errors THEN {r} ELSE Arithmetic(op, l, r)

Negated(v) ==
  CASE v = "positive" -> "negative" [] v = "negative" -> "positive" [] OTHER -> v

\* One node of _eval_node(): the stacks it may leave.  An operator that lacks an operand
\* is not Python, and a node of another type is refused where it stands.
eval_node(stack, node) ==
  LET n == Len(stack)
      Below(k) == SubSeq(stack, 1, n - k)
  IN  CASE node \in Signs -> {Append(stack, node)}
        [] node = "usub" /\ n > 0 -> {Append(Below(1), Negated(stack[n]))}
        [] node = "uadd" /\ n > 0 -> {stack}
        [] node \in ALLOWED_BINOPS /\ n > 1 ->
             {Append(Below(2), v) : v \in BinOp(node, stack[n - 1], stack[n])}
        [] \/ node \in {"usub", "uadd"} /\ n = 0
           \/ node \in ALLOWED_BINOPS /\ n < 2 -> {<< Denied >>}
        [] OTHER -> {Append(stack, Denied)}

\* What an evaluation comes to; a text that is no single expression is not parsed.
Evaluated(stack) ==
  IF Len(stack) # 1 THEN Denied
  ELSE IF stack[1] \in Signs THEN Value
  ELSE stack[1]

evaluate(expression) ==
  LET stacks[n \in 0 .. Len(expression)] ==
        IF n = 0 THEN {<< >>}
        ELSE UNION {eval_node(stack, expression[n]) : stack \in stacks[n - 1]}
  IN  {Evaluated(stack) : stack \in stacks[Len(expression)]}

calculator(arguments) ==
  IF Lacks(arguments, "expression") \/ Mistyped(arguments, "expression", "string")
    THEN {ArgumentError}
    ELSE evaluate(arguments.expression.content)

-----------------------------------------------------------------------------
(* HTTPTool and SQLTool                                                    *)

\* host == d or host.endswith("." + d).
check_domain(host) == \E d \in AllowedDomains : IsPrefix(d, host)

\* urlparse() takes some values that are no strings, and finds no host in them.  What
\* httpx finds wrong inside a URL or a headers object is Failed.
http_get(arguments) ==
  CASE Lacks(arguments, "url") -> {ArgumentError}
    [] Mistyped(arguments, "url", "string") -> {ArgumentError, Denied}
    [] OTHER -> IF ~ check_domain(arguments.url.content) THEN {Denied}
                ELSE {Value, Failed} \union
                     IF Mistyped(arguments, "headers", "object") THEN {ArgumentError} ELSE {}

\* int(limit) takes booleans too, and some numbers and strings.  A row may hold a date or
\* a decimal, which cannot be encoded.
sql_query(arguments) ==
  CASE Lacks(arguments, "query") \/ Mistyped(arguments, "query", "string") -> {ArgumentError}
    [] OTHER ->
         LET words == arguments.query.content
         IN  CASE words = << >> -> {Denied}
               [] words # << >> /\ words[1] # "SELECT" -> {Denied}
               [] OTHER -> {Value, Unserialisable, Failed}
                           \union IF /\ Mistyped(arguments, "limit", "integer")
                                     /\ Mistyped(arguments, "limit", "boolean")
                                    THEN {ArgumentError} ELSE {}

-----------------------------------------------------------------------------
(* ToolRegistry and ToolValidator                                          *)

\* The input_schema of each tool.
Schemas ==
  [calculator |-> [properties |-> [expression |-> "string"], required |-> {"expression"}],
   http_get |-> [properties |-> [url |-> "string", headers |-> "object"], required |-> {"url"}],
   sql_query |-> [properties |-> [query |-> "string", limit |-> "integer"],
                  required |-> {"query"}]]

\* app._build_tool_registry(): HTTPTool only with ATHENA_ALLOWED_DOMAINS set.
build_tool_registry(configured) ==
  {"calculator"} \union IF configured THEN {"http_get"} ELSE {}

\* registry.get(name) and tool.execute(arguments); a name not registered is a KeyError.
execute(registered, name, arguments) ==
  IF name \notin registered THEN {Failed}
  ELSE CASE name = "calculator" -> calculator(arguments)
         [] name = "http_get" -> http_get(arguments)
         [] name = "sql_query" -> sql_query(arguments)

\* isinstance(): bool is a subclass of int.
IsInstance(value, type) ==
  \/ value.type = type
  \/ type = "number" /\ value.type \in {"integer", "boolean"}
  \/ type = "integer" /\ value.type = "boolean"

TypesMatch(schema, arguments) ==
  \A key \in DOMAIN arguments \intersect DOMAIN schema.properties :
    IsInstance(arguments[key], schema.properties[key])

\* Mutant: required keys are not asked for.
validate_types_only(name, arguments) == TypesMatch(Schemas[name], arguments)

\* No ToolDeniedError: required keys are there, and known keys have the type declared.
validate_schema(name, arguments) ==
  /\ Schemas[name].required \subseteq DOMAIN arguments
  /\ TypesMatch(Schemas[name], arguments)

\* ToolValidator.validate(): schema, then permission.
validate(name, arguments, allowed_tools) ==
  /\ validate_schema(name, arguments)
  /\ name \in allowed_tools
=============================================================================
