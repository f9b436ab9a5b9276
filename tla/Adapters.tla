------------------------------ MODULE Adapters ------------------------------
(***************************************************************************)
(* The model adapters of athenai.models: what a call to CloudModel,        *)
(* LocalModel or MockModel comes to, given what its HTTP backend does with *)
(* it.  The adapters keep no state between calls, so they are operators;   *)
(* Routing calls them through breakers and retries, Gateway through the    *)
(* routes.  Payloads and token counts are left out.                        *)
(***************************************************************************)
EXTENDS Integers

Types == {"mock", "cloud", "local"}

\* What becomes of the POST or GET of an adapter: no response at all, or a status and
\* a body: what the adapter expects, no JSON, or JSON of another shape.
NoResponse(why) == [kind |-> why, status |-> 0, body |-> "none"]
Response(status, body) == [kind |-> "response", status |-> status, body |-> body]

Replies ==
  {NoResponse("TimeoutException"), NoResponse("RequestError")}
    \union {Response(status, "no JSON") : status \in {401, 404, 429, 503}}
    \union {Response(200, body) : body \in {"as expected", "no JSON", "other JSON"}}

\* The outcome of a call: an answer, or the exception it raises.
Answered == "answered"

\* The body is read outside any try.  (KeyError stands for TypeError and AttributeError
\* too: which of them a body of another shape raises depends on the shape.)
decode(reply) ==
  CASE reply.body = "as expected" -> Answered
    [] reply.body = "no JSON" -> "ValueError"
    [] reply.body = "other JSON" -> "KeyError"

\* 401, 403, other 4xx and 5xx differ only in the text of the error.
cloud_generate(reply) ==
  CASE reply.kind # "response" -> "ModelUnavailableError"
    [] reply.status = 429 -> "RateLimitError"
    [] reply.status >= 400 /\ reply.status # 429 -> "ModelUnavailableError"
    [] OTHER -> decode(reply)

\* A TimeoutException is a RequestError to httpx, and 429 an error like any other here.
local_generate(reply) ==
  IF reply.kind # "response" \/ reply.status >= 400
    THEN "ModelUnavailableError"
    ELSE decode(reply)

generate(type, reply) ==
  CASE type = "cloud" -> cloud_generate(reply)
    [] type = "local" -> local_generate(reply)
    [] type = "mock" -> Answered

\* Only MockModel has a stream(): `async for` over the attribute another adapter does
\* not have raises at once.
stream(type, reply) == IF type = "mock" THEN generate(type, reply) ELSE "AttributeError"

Outcomes(call(_, _), type) == {call(type, reply) : reply \in Replies}

\* CloudModel asks only whether the endpoint answers, LocalModel whether it is well.
health_check(type, reply) ==
  CASE type = "cloud" -> reply.kind = "response" /\ reply.status < 500
    [] type = "local" -> reply.kind = "response" /\ reply.status = 200
    [] type = "mock" -> TRUE

-----------------------------------------------------------------------------
(* ModelRegistry                                                           *)

Unset == "unset"

\* A role's config without a type gets a mock; an unknown type raises.
build_model(type) == IF type = Unset THEN "mock" ELSE type

CanBuild(config) == \A role \in DOMAIN config : build_model(config[role]) \in Types

registry(config) == [role \in DOMAIN config |-> build_model(config[role])]
=============================================================================
