--------------------------- MODULE ContextEngine ----------------------------
(***************************************************************************)
(* ContextEngine.build() beside a DocumentLoader that fills the chunks     *)
(* table and callers that store() and delete() facts of SemanticMemory.    *)
(* build() gathers two retrievals, SemanticMemory.search() as memory_fn    *)
(* and PgVectorRetriever.search() with CosineReranker.rerank() as rag_fn,  *)
(* each one SELECT whose moment is its own, and packs what they return     *)
(* under TokenBudgetManager.total_budget.                                  *)
(*                                                                         *)
(* Every call of the system, ingest, store, delete or build, takes the     *)
(* next number of "calls".  A fact's version is the number of the store()  *)
(* that wrote its content.  Similarity is any order of the rows.           *)
(***************************************************************************)
EXTENDS Ingest

CONSTANTS
  Sessions,      \* session_id values of facts
  FactIds,       \* memory_id values
  FactTokens,    \* tokens of a fact
  Requests,      \* build() arguments: session, tokens of the system prompt, the
                 \* conversation's messages and the tool results
  Limit,         \* k of both searches
  Allocations    \* TokenBudgetManager(allocations): the items of the dictionary

AllSessions == ""
NoRequest == [session |-> AllSessions, system |-> 0, conversation |-> << >>, tools |-> << >>]

ASSUME ContextAssumption ==
  /\ FactTokens \in Nat
  /\ Requests \subseteq [session : Sessions \union {AllSessions}, system : Nat,
                         conversation : Seq(Nat), tools : Seq(Nat)]
  /\ Limit \in Nat \ {0}
  /\ Allocations \in Seq([bucket : STRING, tokens : Nat])
  /\ \A i, j \in DOMAIN Allocations : Allocations[i].bucket = Allocations[j].bucket => i = j

VARIABLES
  facts,   \* rows of semantic_memories
  last,    \* history: per memory_id, the last call that wrote or deleted it
  build    \* the build in progress or last finished

contextVars == <<facts, last, build>>
allVars == <<vars, contextVars>>

NothingPacked == [items |-> << >>, total_tokens |-> 0, dropped_buckets |-> << >>]
NoBuild == [pc |-> "idle", request |-> NoRequest, waiting |-> {}, memory |-> << >>,
            rag |-> << >>, packed |-> NothingPacked, since |-> [id \in FactIds |-> 0]]

Building == build.pc = "gather"

ContextTypeOK ==
  /\ TypeOK
  /\ facts \subseteq [id : FactIds, session : Sessions, version : 1 .. MaxCalls]
  /\ \A f, g \in facts : f.id = g.id => f = g
  /\ last \in [FactIds -> 0 .. MaxCalls]
  /\ build.pc \in {"idle", "gather", "built", "raised"}
  /\ Building <=> build.waiting # {}
  /\ build.request \in Requests \union {NoRequest}
  /\ build.packed.total_tokens \in Nat

ContextInit ==
  /\ Init
  /\ facts = {}
  /\ last = [id \in FactIds |-> 0]
  /\ build = NoBuild

-----------------------------------------------------------------------------

\* Mutant: a fact that exists is left as it is (ON CONFLICT DO NOTHING).
upsert_keeps(id, session, version) ==
  IF \E f \in facts : f.id = id THEN facts
  ELSE facts \union {[id |-> id, session |-> session, version |-> version]}

\* ON CONFLICT (id) DO UPDATE sets content and embedding; the row keeps its session_id.
upsert(id, session, version) ==
  IF \E f \in facts : f.id = id
    THEN {IF f.id = id THEN [f EXCEPT !.version = version] ELSE f : f \in facts}
    ELSE facts \union {[id |-> id, session |-> session, version |-> version]}

\* SemanticMemory.store(): one statement.  One that fails is no step.
StoreFact(id, session) ==
  /\ calls < MaxCalls
  /\ calls' = calls + 1
  /\ facts' = upsert(id, session, calls + 1)
  /\ last' = [last EXCEPT ![id] = calls + 1]
  /\ UNCHANGED <<chunks, job, overlapped, interrupted, build>>

\* SemanticMemory.delete().
DeleteFact(id) ==
  /\ \E f \in facts : f.id = id
  /\ calls < MaxCalls
  /\ calls' = calls + 1
  /\ facts' = {f \in facts : f.id # id}
  /\ last' = [last EXCEPT ![id] = calls + 1]
  /\ UNCHANGED <<chunks, job, overlapped, interrupted, build>>

\* ORDER BY embedding <=> query LIMIT k, for any query.
Nearest(rows, k) ==
  LET n == IF Cardinality(rows) < k THEN Cardinality(rows) ELSE k
  IN  UNION {SetToSeqs(found) : found \in kSubset(n, rows)}

\* SemanticMemory.search(): an empty session_id searches all sessions.
memory_search(session) ==
  Nearest(IF session = AllSessions THEN facts ELSE {f \in facts : f.session = session}, Limit)

\* PgVectorRetriever.search(): the metadata filter is applied to the k rows found.
rag_search(matching) ==
  {Picked(found, {i \in DOMAIN found : found[i].doc \in matching}) : found \in Nearest(chunks, Limit)}

\* CosineReranker.rerank(): search() sorted its rows by the same scores, so the truncation
\* is all it does to them.
rerank(found, top_k) == SubSeq(found, 1, IF Len(found) < top_k THEN Len(found) ELSE top_k)

-----------------------------------------------------------------------------

\* _count(): max(1, len(text) // 4).
count(content) ==
  LET n == (content.to - content.from) \div 4 IN IF n < 1 THEN 1 ELSE n

\* One item per text; its content is the place-th of its source.
Items(bucket, counts) ==
  [i \in DOMAIN counts |-> [bucket |-> bucket, place |-> i, token_count |-> counts[i]]]

\* The buckets of build().
Buckets(b) ==
  [system |-> Items("system", << b.request.system >>),
   conversation |-> Items("conversation", b.request.conversation),
   memory |-> Items("memory", [i \in DOMAIN b.memory |-> FactTokens]),
   rag |-> Items("rag", [i \in DOMAIN b.rag |-> count(chunk(b.rag[i].text)[b.rag[i].index])]),
   tools |-> Items("tools", b.request.tools)]

\* pack()'s flattened list, by PRIORITY_ORDER.
InOrder(buckets) ==
  buckets.system \o buckets.conversation \o buckets.memory \o buckets.rag \o buckets.tools

\* TokenBudgetManager.total_budget: "total", or the sum of the buckets.
TotalBudget ==
  LET total == {i \in DOMAIN Allocations : Allocations[i].bucket = "total"}
  IN  IF total = {}
        THEN Summed([i \in DOMAIN Allocations |-> Allocations[i].tokens])
        ELSE Allocations[CHOOSE i \in total : TRUE].tokens

\* Mutant: packing stops at the first item that does not fit.
TakeUntilFull(packed, item) ==
  IF packed.dropped_buckets = << >> /\ packed.total_tokens + item.token_count <= TotalBudget
    THEN [packed EXCEPT !.items = Append(@, item), !.total_tokens = @ + item.token_count]
    ELSE [packed EXCEPT !.dropped_buckets = Append(@, item.bucket)]

\* pack()'s loop body: an item that does not fit is dropped whole.
Take(packed, item) ==
  IF packed.total_tokens + item.token_count <= TotalBudget
    THEN [packed EXCEPT !.items = Append(@, item), !.total_tokens = @ + item.token_count]
    ELSE [packed EXCEPT !.dropped_buckets = Append(@, item.bucket)]

pack(buckets) ==
  LET order == InOrder(buckets)
      packed[i \in 0 .. Len(order)] ==
        IF i = 0 THEN NothingPacked ELSE Take(packed[i - 1], order[i])
  IN  packed[Len(order)]

-----------------------------------------------------------------------------

\* build() is called and its two retrievals start.
BeginBuild(request) ==
  /\ ~ Building
  /\ calls < MaxCalls
  /\ calls' = calls + 1
  /\ build' = [NoBuild EXCEPT !.pc = "gather", !.request = request,
                              !.waiting = {"memory", "rag"}, !.since = last]
  /\ UNCHANGED <<chunks, job, overlapped, interrupted, facts, last>>

\* When both are there, the items are packed without another await.
Fetched(b) ==
  IF b.waiting # {} THEN b ELSE [b EXCEPT !.pc = "built", !.packed = pack(Buckets(b))]

FetchMemory ==
  /\ "memory" \in build.waiting
  /\ \E found \in memory_search(build.request.session) :
       build' = Fetched([build EXCEPT !.memory = found, !.waiting = @ \ {"memory"}])
  /\ UNCHANGED <<vars, facts, last>>

FetchRag ==
  /\ "rag" \in build.waiting
  /\ \E matching \in SUBSET Documents, top_k \in 1 .. Limit :
       \E found \in rag_search(matching) :
         build' = Fetched([build EXCEPT !.rag = rerank(found, top_k),
                                        !.waiting = @ \ {"rag"}])
  /\ UNCHANGED <<vars, facts, last>>

\* One retrieval fails: gather() raises out of build() and the other's answer is ignored.
FetchRaises ==
  /\ Building
  /\ build' = [NoBuild EXCEPT !.pc = "raised"]
  /\ UNCHANGED <<vars, facts, last>>

\* Both tables survive a restart, the build in progress does not.
ContextRestart ==
  /\ Restart
  /\ build' = NoBuild
  /\ UNCHANGED <<facts, last>>

Load(w) ==
  /\ \/ \E pc \in {"count", "delete"}, doc \in Documents, text \in Texts : Begin(w, pc, doc, text)
     \/ Step(w)
     \/ Fail(w)
  /\ UNCHANGED contextVars

ContextNext ==
  \/ \E w \in Workers : Load(w)
  \/ \E id \in FactIds : DeleteFact(id) \/ \E session \in Sessions : StoreFact(id, session)
  \/ \E request \in Requests : BeginBuild(request)
  \/ FetchMemory
  \/ FetchRag
  \/ FetchRaises
  \/ ContextRestart
  \/ Quiet /\ ~ Building /\ UNCHANGED contextVars

ContextSpec == ContextInit /\ [][ContextNext]_allVars

-----------------------------------------------------------------------------

TokensAt(order, places) ==
  Summed([i \in DOMAIN order |-> IF i \in places THEN order[i].token_count ELSE 0])

\* A prompt whose system prompt fits the budget keeps it, and of all the selections that
\* would, it is the one a reader of packing.py:11-19 asks for: wherever another selection
\* differs from it, the item of highest priority on which they differ is in the prompt.  So
\* the system prompt is in, and a smaller item of lower priority is in only where nothing
\* above it could have been.
PacksByPriority ==
  build.pc = "built" /\ build.request.system <= TotalBudget =>
    LET order == InOrder(Buckets(build))
        kept == ToSet(build.packed.items)
        places == DOMAIN order
        in == {i \in places : order[i] \in kept}
    IN  /\ TokensAt(order, in) = build.packed.total_tokens
        /\ TokensAt(order, in) <= TotalBudget
        /\ \A other \in SUBSET places :
             TokensAt(order, other) <= TotalBudget /\ other # in =>
               \E i \in in \ other : \A j \in 1 .. i - 1 : j \in in <=> j \in other

\* "System prompt defines model behaviour - never drop it" (packing.py:15), "System prompt
\* is never truncated" (docs/generate_notes.py:519): every prompt that build() returns has
\* its system prompt.
SystemPromptKept ==
  build.pc = "built" => "system" \in {item.bucket : item \in ToSet(build.packed.items)}

\* A fact told in a prompt is at least as new as the last store() or delete() of it that
\* had finished when the build began, is told once, and is filed under the prompt's session
\* ("correcting a previously stored fact in place rather than accumulating stale
\* duplicates", semantic.py:79-81).
MemoriesAreCurrent ==
  build.pc = "built" =>
    \A i \in DOMAIN build.memory :
      LET f == build.memory[i]
      IN  /\ f.version >= build.since[f.id]
          /\ build.request.session \in {f.session, AllSessions}
          /\ \A j \in DOMAIN build.memory : build.memory[j].id = f.id => j = i
=============================================================================
