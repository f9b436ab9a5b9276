------------------------------- MODULE Ingest -------------------------------
(***************************************************************************)
(* DocumentLoader.ingest() and reingest() over the chunks table of         *)
(* PgVectorRetriever.  Each SQL statement commits by itself and each await *)
(* of the database or the embedder lets other calls run, so a call is a    *)
(* sequence of steps: delete (reingest only), count, one request to the    *)
(* embedding API per batch, one insert per chunk.  A call may fail at any  *)
(* await, and the process may restart; the table survives.                 *)
(*                                                                         *)
(* A row's id is the call that made it and its index: chunk ids are fresh  *)
(* uuid4 values in every call.  An embedding is the index of the chunk it  *)
(* was computed from.                                                      *)
(***************************************************************************)
EXTENDS Chunker, SequencesExt

CONSTANTS
  Workers,     \* calls in progress at a time, at most
  Documents,   \* document_id values
  Texts,       \* contents of the requests, each Blank or Normalised
  BatchSize,   \* CloudEmbedder(batch_size)
  MaxCalls     \* bound on the number of calls

NoDocument == "none"

ASSUME IngestAssumption ==
  /\ NoDocument \notin Documents
  /\ \A text \in Texts : text = Blank \/ Normalised(text)
  /\ BatchSize \in Nat \ {0}
  /\ MaxCalls \in Nat

VARIABLES
  chunks,      \* rows of the chunks table
  job,         \* per worker: the call it is in
  calls,       \* calls started so far
  overlapped,  \* history: documents on which two calls have overlapped
  interrupted  \* history: documents on which a call has been cut short

vars == <<chunks, job, calls, overlapped, interrupted>>

Ended == {"idle", "returned", "raised"}
NoJob == [pc |-> "idle", doc |-> NoDocument, text |-> Blank, call |-> 0,
          embeddings |-> << >>, next |-> 0, ret |-> 0]

\* A call that is over leaves only its outcome.
Over(pc, ret) == [NoJob EXCEPT !.pc = pc, !.ret = ret]

Rows(doc) == {c \in chunks : c.doc = doc}
Active(doc) == {w \in Workers : job[w].doc = doc /\ job[w].pc \notin Ended}
At(w, pc) == job[w].pc = pc
Count(w) == Len(chunk(job[w].text))

TypeOK ==
  /\ chunks \subseteq [call : 1 .. MaxCalls, doc : Documents, text : Texts, index : Nat,
                      embedding : Nat]
  /\ \A c \in chunks : c.index \in DOMAIN chunk(c.text)
  /\ job \in [Workers -> [pc : Ended \union {"delete", "count", "embed", "store", "insert"},
                          doc : Documents \union {NoDocument}, text : Texts \union {Blank},
                          call : 0 .. MaxCalls, embeddings : Seq(Nat), next : Nat,
                          ret : Nat]]
  /\ calls \in 0 .. MaxCalls
  /\ overlapped \subseteq Documents
  /\ interrupted \subseteq Documents

Init ==
  /\ chunks = {}
  /\ job = [w \in Workers |-> NoJob]
  /\ calls = 0
  /\ overlapped = {}
  /\ interrupted = {}

-----------------------------------------------------------------------------

\* ingest() starts at count_by_document(), reingest() at delete_document().
Begin(w, pc, doc, text) ==
  /\ job[w].pc \in Ended
  /\ calls < MaxCalls
  /\ calls' = calls + 1
  /\ job' = [job EXCEPT ![w] = [pc |-> pc, doc |-> doc, text |-> text,
                                call |-> calls + 1, embeddings |-> << >>, next |-> 1,
                                ret |-> 0]]
  /\ overlapped' = IF Active(doc) = {} THEN overlapped ELSE overlapped \union {doc}
  /\ UNCHANGED <<chunks, interrupted>>

\* delete_document().  Alone on its document, reingest() wipes the slate clean.
Delete(w) ==
  /\ At(w, "delete")
  /\ chunks' = chunks \ Rows(job[w].doc)
  /\ job' = [job EXCEPT ![w].pc = "count"]
  /\ interrupted' = IF Active(job[w].doc) = {w} THEN interrupted \ {job[w].doc} ELSE interrupted
  /\ overlapped' = IF Active(job[w].doc) = {w} THEN overlapped \ {job[w].doc} ELSE overlapped
  /\ UNCHANGED calls

\* count_by_document() > 0: nothing more is done, whatever the rows are.
Skip(w) ==
  /\ At(w, "count")
  /\ Rows(job[w].doc) # {}
  /\ job' = [job EXCEPT ![w] = Over("returned", Cardinality(Rows(job[w].doc)))]
  /\ UNCHANGED <<chunks, calls, overlapped, interrupted>>

\* Mutant: a document that is already stored is processed again.
ProceedAnyway(w) ==
  /\ At(w, "count")
  /\ job[w].text # Blank
  /\ job' = [job EXCEPT ![w].pc = "embed"]
  /\ UNCHANGED <<chunks, calls, overlapped, interrupted>>

\* No rows yet: parse and chunk, then call the embedder.
Proceed(w) ==
  /\ At(w, "count")
  /\ Rows(job[w].doc) = {}
  /\ job[w].text # Blank
  /\ job' = [job EXCEPT ![w].pc = "embed"]
  /\ UNCHANGED <<chunks, calls, overlapped, interrupted>>

\* DocumentParser.parse() refuses a blank text.
ParseRaises(w) ==
  /\ At(w, "count")
  /\ Rows(job[w].doc) = {}
  /\ job[w].text = Blank
  /\ job' = [job EXCEPT ![w] = Over("raised", 0)]
  /\ UNCHANGED <<chunks, calls, overlapped, interrupted>>

\* One answer of the API to a batch: its items in any order, some perhaps left out.
Answers(batch) ==
  UNION {{f \in [1 .. n -> batch] : IsInjective(f)} : n \in 0 .. Cardinality(batch)}

\* Mutant: the order of the response is kept.
InResponseOrder(answer) == answer

\* The response is sorted by each item's index.
InInputOrder(answer) == Ascending(ToSet(answer))

\* One request of embed(), which asks for the chunks in batches of BatchSize.  A request
\* whose first chunk is "next" is the last when the rest fits in it.
Embed(w) ==
  LET first == job[w].next
      last == IF first + BatchSize > Count(w) THEN Count(w) ELSE first + BatchSize - 1
  IN  /\ At(w, "embed")
      /\ \E answer \in Answers(first .. last) :
           job' = [job EXCEPT ![w].embeddings = @ \o InInputOrder(answer),
                              ![w].next = IF last = Count(w) THEN 1 ELSE last + 1,
                              ![w].pc = IF last = Count(w) THEN "store" ELSE @]
      /\ UNCHANGED <<chunks, calls, overlapped, interrupted>>

\* store_chunks() refuses embeddings that are not one per chunk.
Store(w) ==
  /\ At(w, "store")
  /\ job' = [job EXCEPT ![w] = IF Len(job[w].embeddings) # Count(w) THEN Over("raised", 0)
                               ELSE [@ EXCEPT !.pc = "insert"]]
  /\ UNCHANGED <<chunks, calls, overlapped, interrupted>>

\* Mutant: the index is incremented before it is used.
NextRowShifted(w) ==
  [call |-> job[w].call, doc |-> job[w].doc, text |-> job[w].text,
   index |-> job[w].next + 1, embedding |-> job[w].embeddings[job[w].next]]

\* The row of the next chunk.  Its id is new, so ON CONFLICT (id) never applies.
NextRow(w) == [call |-> job[w].call, doc |-> job[w].doc, text |-> job[w].text,
               index |-> job[w].next, embedding |-> job[w].embeddings[job[w].next]]

\* Mutant: the last chunk is left out.
InsertStopsEarly(w) ==
  /\ At(w, "insert")
  /\ chunks' = IF job[w].next = Count(w) /\ Count(w) > 1
                 THEN chunks ELSE chunks \union {NextRow(w)}
  /\ job' = [job EXCEPT ![w] = IF job[w].next = Count(w) THEN Over("returned", Count(w))
                               ELSE [job[w] EXCEPT !.next = @ + 1]]
  /\ UNCHANGED <<calls, overlapped, interrupted>>

\* One INSERT of store_chunks(); after the last one the call returns len(chunks).
Insert(w) ==
  /\ At(w, "insert")
  /\ chunks' = chunks \union {NextRow(w)}
  /\ job' = [job EXCEPT ![w] = IF job[w].next = Count(w) THEN Over("returned", Count(w))
                               ELSE [job[w] EXCEPT !.next = @ + 1]]
  /\ UNCHANGED <<calls, overlapped, interrupted>>

-----------------------------------------------------------------------------

\* What the table becomes if the statement w awaits is committed.
Committed(w) ==
  CASE At(w, "insert") -> chunks \union {NextRow(w)}
    [] At(w, "delete") -> chunks \ Rows(job[w].doc)
    [] OTHER -> chunks

\* The awaited database or embedder call fails, and the exception reaches the route.
\* A statement may have been committed although its answer was lost.
Fail(w) ==
  /\ job[w].pc \notin Ended
  /\ chunks' \in {chunks, Committed(w)}
  /\ job' = [job EXCEPT ![w] = Over("raised", 0)]
  /\ interrupted' = interrupted \union {job[w].doc}
  /\ UNCHANGED <<calls, overlapped>>

\* The process restarts between two statements: calls in progress vanish, rows stay.
Restart ==
  /\ \E w \in Workers : job[w].pc \notin Ended
  /\ job' = [w \in Workers |-> NoJob]
  /\ interrupted' = interrupted \union {d \in Documents : Active(d) # {}}
  /\ UNCHANGED <<chunks, calls, overlapped>>

Step(w) ==
  \/ Delete(w) \/ Skip(w) \/ Proceed(w) \/ ParseRaises(w) \/ Embed(w) \/ Store(w) \/ Insert(w)

\* All calls are over and the bound on calls is used up.
Quiet ==
  /\ calls = MaxCalls
  /\ \A w \in Workers : job[w].pc \in Ended
  /\ UNCHANGED vars

Next ==
  \/ \E w \in Workers :
       \/ \E pc \in {"count", "delete"}, doc \in Documents, text \in Texts :
            Begin(w, pc, doc, text)
       \/ Step(w)
       \/ Fail(w)
  \/ Restart
  \/ Quiet

Spec == Init /\ [][Next]_vars

-----------------------------------------------------------------------------

\* The chunks of one text, each index once.
IsWhole(rows) ==
  \E text \in Texts :
    /\ Cardinality(rows) = Len(chunk(text))
    /\ \A i \in DOMAIN chunk(text) : \E c \in rows : c.text = text /\ c.index = i

\* As long as calls on a document do not overlap, it never holds the same chunk twice
\* nor chunks of two texts, through failures, restarts, retries and re-ingests
\* (DocumentLoader's reason for being idempotent, loader.py:29-32).
NoDuplicatesUnlessOverlap ==
  \A c, d \in chunks :
    c.doc = d.doc /\ c.doc \notin overlapped =>
      /\ c.text = d.text
      /\ c.index = d.index => c = d

\* A document that no call is working on is stored whole or not at all, unless calls
\* overlapped on it or one was cut short; a later undisturbed reingest() mends both.
WholeUnlessDisturbed ==
  \A doc \in Documents \ (overlapped \union interrupted) :
    Active(doc) = {} => Rows(doc) = {} \/ IsWhole(Rows(doc))

\* Every row carries the embedding of its own content, however the embedding API orders
\* its answers and whatever it leaves out ("relying on response order here would silently
\* mis-pair embeddings with the wrong chunk text", embedder.py:65-68).
EmbeddingsMatch == \A c \in chunks : c.embedding = c.index

\* No word that fits in the overlap is cut in two or lost: one stored chunk of a whole,
\* undisturbed document holds all of it ("so chunks don't split mid-word", chunker.py:69).
\* A longer word has no such guarantee: the next window begins a full stride after the
\* last one although that one was cut back, and begins in mid-word.
ShortWordsKept ==
  \A doc \in Documents \ (overlapped \union interrupted) :
    Active(doc) = {} =>
      \A c \in Rows(doc) : \A word \in Words(c.text) :
        word.to - word.from <= OverlapChars =>
          \E d \in Rows(doc) : Within(word, chunk(c.text)[d.index])

\* The chunk count a call returns is the number of rows the document then has,
\* whether the call stored them or found them.
ReturnsRowCount ==
  [][\A w \in Workers, doc \in Documents \ overlapped :
       job[w].doc = doc /\ job'[w].pc = "returned" =>
         job'[w].ret = Cardinality(Rows(doc)')]_vars

\* "Idempotency lets callers call ingest() safely on restart or retry" (loader.py:31-32;
\* "this is what makes DocumentLoader.ingest() safe to retry", retriever.py:88-89): when
\* ingest() returns normally, the document is whole.
RetryCompletes ==
  [][\A w \in Workers, doc \in Documents \ overlapped :
       job[w].doc = doc /\ job'[w].pc = "returned" =>
         IsWhole(Rows(doc)')]_vars
=============================================================================
