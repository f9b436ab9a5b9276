------------------------ MODULE ContextEngineProofs ------------------------
(***************************************************************************)
(* Proofs about ContextEngine and the Ingest beneath it, for every number  *)
(* of workers and documents, every text in normal form, every chunk size,  *)
(* overlap and batch size.                                                 *)
(***************************************************************************)
EXTENDS ContextEngine, OrderLemmas, SequenceTheorems

-----------------------------------------------------------------------------
(* SlidingWindowChunker.chunk()                                            *)

Content(text, i) == Stripped(text, i * Stride, WindowEnd(text, i * Stride))

Kept(text) ==
  {i \in 0 .. text.len : Reached(text, i) /\ Content(text, i).from < Content(text, i).to}

LEMMA ChunkSizes == /\ ChunkChars \in Nat /\ OverlapChars \in Nat /\ Stride \in Nat \ {0}
                    /\ ChunkChars = Stride + OverlapChars
  BY ChunkerAssumption DEF ChunkChars, OverlapChars, Stride, CHARS_PER_TOKEN

LEMMA TextType ==
  ASSUME NEW text \in Texts \union {Blank}
  PROVE  text.len \in Nat /\ text.spaces \subseteq Nat /\ (text # Blank => Normalised(text))
  BY IngestAssumption DEF Blank, Normalised

\* A chunk is a window that is not blank, and each such window is a chunk.
LEMMA ChunksAreWindows ==
  ASSUME NEW text \in Texts \union {Blank}
  PROVE  /\ Len(chunk(text)) \in Nat /\ DOMAIN chunk(text) = 1 .. Len(chunk(text))
         /\ \A i \in Kept(text) : \E k \in DOMAIN chunk(text) : chunk(text)[k] = Content(text, i)
<1>1. chunk(text) = [k \in 1 .. Cardinality(Kept(text)) |-> Content(text, Nth(Kept(text), k))]
  BY DEF chunk, Kept, Content
<1>2. Kept(text) \subseteq 0 .. text.len
  BY DEF Kept
<1>3. IsFiniteSet(Kept(text)) /\ Cardinality(Kept(text)) \in Nat /\ Kept(text) \subseteq Int
  <2>1. text.len \in Int /\ 0 \in Int
    BY TextType
  <2>2. IsFiniteSet(0 .. text.len)
    BY <2>1, FS_Interval
  <2>3. IsFiniteSet(Kept(text))
    BY <1>2, <2>2, FS_Subset
  <2>4. Kept(text) \subseteq Int
    BY <1>2, <2>1
  <2>5. QED
    BY <2>3, <2>4, FS_CardinalityType
<1>4. Len(chunk(text)) = Cardinality(Kept(text)) /\ DOMAIN chunk(text) = 1 .. Cardinality(Kept(text))
  BY <1>1, <1>3
<1>5. ASSUME NEW i \in Kept(text)
      PROVE  \E k \in DOMAIN chunk(text) : chunk(text)[k] = Content(text, i)
  <2>1. PICK k \in 1 .. Cardinality(Kept(text)) : Nth(Kept(text), k) = i
    BY <1>3, NthOrder
  <2>2. QED
    BY <1>1, <1>4, <2>1
<1>6. QED
  BY <1>3, <1>4, <1>5

\* rfind() returns -1 or a space, the last one.
LEMMA LastSpace ==
  ASSUME NEW text \in Texts, Normalised(text), NEW from \in Nat, NEW to \in Nat
  PROVE  LET p == rfind(text, from, to)
         IN  /\ \/ p = -1 /\ \A q \in text.spaces : ~ (from <= q /\ q < to)
                \/ p \in text.spaces /\ from <= p /\ p < to
             /\ \A q \in text.spaces : from <= q /\ q < to => q <= p
<1> DEFINE found == {q \in text.spaces : from <= q /\ q < to}
           f == [q \in found |-> to - q]
<1>0. text.spaces \subseteq Nat
  BY TextType
<1>1. CASE found = {}
  BY <1>1 DEF rfind
<1>2. CASE found # {}
  <2>1. f \in [found -> Nat] /\ \A q \in found : f[q] = to - q /\ q \in Nat
    BY <1>0
  <2>2. \E p \in found : \A q \in found : f[p] <= f[q]
    <3> HIDE DEF found, f
    <3>1. QED
      BY <1>2, <2>1, LeastMeasure
  <2>3. \E p \in found : \A q \in found : q <= p
    <3> HIDE DEF f, found
    <3>1. QED
      BY <2>1, <2>2
  <2>4. rfind(text, from, to) \in found /\ \A q \in found : q <= rfind(text, from, to)
    BY <1>2, <2>3 DEF rfind
  <2>5. QED
    BY <2>4
<1>3. QED
  BY <1>1, <1>2

\* A window ends after its beginning and within the text.
LEMMA WindowEndType ==
  ASSUME NEW text \in Texts, Normalised(text), NEW start \in Nat, start < text.len
  PROVE  LET end == WindowEnd(text, start)
         IN  /\ end \in Nat /\ start < end /\ end <= text.len
             /\ end = text.len \/ end \in text.spaces \/ end = start + ChunkChars
             /\ \A q \in text.spaces : start < q /\ q < start + ChunkChars => q <= end
             /\ start + ChunkChars >= text.len => end = text.len
             /\ end <= start + ChunkChars
<1> DEFINE full == start + ChunkChars
           boundary == rfind(text, start, full)
<1>0. /\ text.len \in Nat /\ text.spaces \subseteq Nat /\ full \in Nat /\ start < full
      /\ \A q \in text.spaces : q < text.len
  BY ChunkSizes DEF Normalised
<1>1. /\ \/ boundary = -1 /\ \A q \in text.spaces : ~ (start <= q /\ q < full)
         \/ boundary \in text.spaces /\ start <= boundary /\ boundary < full
      /\ \A q \in text.spaces : start <= q /\ q < full => q <= boundary
  BY <1>0, LastSpace
<1>2. CASE full >= text.len
  <2>1. WindowEnd(text, start) = text.len
    BY <1>0, <1>2 DEF WindowEnd
  <2>2. QED
    BY <1>0, <1>2, <2>1
<1>3. CASE full < text.len /\ boundary > start
  <2>1. WindowEnd(text, start) = boundary
    BY <1>0, <1>3 DEF WindowEnd
  <2> HIDE DEF boundary
  <2>2. QED
    BY <1>0, <1>1, <1>3, <2>1
<1>4. CASE full < text.len /\ ~ (boundary > start)
  <2>1. WindowEnd(text, start) = full
    BY <1>0, <1>4 DEF WindowEnd
  <2> HIDE DEF boundary
  <2>2. QED
    BY <1>0, <1>1, <1>4, <2>1
<1>5. QED
  BY <1>0, <1>2, <1>3, <1>4

\* A text with words has a chunk.
LEMMA SomeChunk ==
  ASSUME NEW text \in Texts, Normalised(text)
  PROVE  Len(chunk(text)) >= 1
<1>1. /\ text.len \in Nat /\ 0 < text.len /\ text.spaces \subseteq Nat
      /\ 0 \notin text.spaces /\ \A q \in text.spaces : q >= 1 /\ q < text.len
  BY DEF Normalised
<1>2. /\ WindowEnd(text, 0) \in Nat /\ 0 < WindowEnd(text, 0)
      /\ WindowEnd(text, 0) - 1 \in text.spaces => 1 < WindowEnd(text, 0)
  BY <1>1, WindowEndType
<1>3. 0 * Stride = 0 /\ 0 .. 0 - 1 = {}
  BY ChunkSizes
<1>4. Content(text, 0).from < Content(text, 0).to
  BY <1>1, <1>2, <1>3 DEF Content, Stripped
<1>5. Reached(text, 0)
  BY <1>1, <1>3 DEF Reached
<1>6. 0 \in Kept(text)
  BY <1>1, <1>4, <1>5 DEF Kept
<1>7. QED
  BY <1>6, ChunksAreWindows

\* The characters of a word: none of them a space, a space or an end of the text after it.
LEMMA WordShape ==
  ASSUME NEW text \in Texts, Normalised(text), NEW word \in Words(text)
  PROVE  /\ word.from \in Nat /\ word.to \in Nat
         /\ word.from < word.to /\ word.to <= text.len
         /\ \A q \in text.spaces : q < word.from \/ word.to <= q
         /\ word.to = text.len \/ word.to \in text.spaces
<1> DEFINE edges == text.spaces \union {-1, text.len}
           adjacent == {e \in edges \X edges :
                          e[1] < e[2] /\ \A r \in edges : r <= e[1] \/ e[2] <= r}
<1>1. /\ text.len \in Nat \ {0}
      /\ \A q \in text.spaces : q \in Nat /\ 1 <= q /\ q <= text.len - 2 /\ q + 1 \notin text.spaces
  BY DEF Normalised
<1>2. PICK e \in adjacent : word = [from |-> e[1] + 1, to |-> e[2]]
  BY DEF Words
<1>3. /\ e[1] \in edges /\ e[2] \in edges /\ e[1] < e[2]
      /\ \A r \in edges : r <= e[1] \/ e[2] <= r
  BY <1>2
<1>4. word.from = e[1] + 1 /\ word.to = e[2]
  BY <1>2
<1>5. e[1] \in Int /\ e[2] \in Nat /\ -1 <= e[1] /\ e[2] <= text.len /\ e[1] # text.len
  BY <1>1, <1>3
<1>6. e[1] + 1 # e[2]
  BY <1>1, <1>3, <1>5
<1>7. \A q \in text.spaces : q <= e[1] \/ e[2] <= q
  BY <1>3
<1>8. e[2] = text.len \/ e[2] \in text.spaces
  BY <1>3, <1>5
<1>9. QED
  BY <1>1, <1>3, <1>4, <1>5, <1>6, <1>7, <1>8

\* A word no longer than the overlap is whole in some chunk.
LEMMA WordInChunk ==
  ASSUME NEW text \in Texts, Normalised(text), NEW word \in Words(text),
         word.to - word.from <= OverlapChars
  PROVE  \E k \in DOMAIN chunk(text) : Within(word, chunk(text)[k])
<1>0. /\ text.len \in Nat /\ text.spaces \subseteq Nat
      /\ ChunkChars \in Nat /\ OverlapChars \in Nat /\ Stride \in Nat \ {0}
      /\ ChunkChars = Stride + OverlapChars
  BY TextType, ChunkSizes
<1>1. /\ word.from \in Nat /\ word.to \in Nat
      /\ word.from < word.to /\ word.to <= text.len
      /\ \A q \in text.spaces : q < word.from \/ word.to <= q
      /\ word.to = text.len \/ word.to \in text.spaces
  BY WordShape
<1>2. PICK i \in Nat : i * Stride <= word.from /\ word.from < i * Stride + Stride
  BY <1>0, <1>1, BetweenMultiples
<1> DEFINE T == {j \in 0 .. i : j = i \/ ~ (WindowEnd(text, j * Stride) < text.len)}
<1>3. PICK j \in T : \A k \in T : j <= k
  <2>1. T \subseteq Nat /\ i \in T
    OBVIOUS
  <2> HIDE DEF T
  <2>2. QED
    BY <2>1, LeastNatural
<1> DEFINE start == j * Stride
           end == WindowEnd(text, start)
<1>4. j \in Nat /\ j <= i /\ start \in Nat /\ j <= start /\ start <= word.from
  <2>1. j \in Nat /\ j <= i
    OBVIOUS
  <2>2. j * Stride \in Nat /\ j <= j * Stride /\ j * Stride <= i * Stride
    BY <1>0, <2>1, MultiplesGrow
  <2>3. i * Stride \in Nat
    BY <1>0, MultiplesGrow
  <2>4. QED
    BY <1>1, <1>2, <2>1, <2>2, <2>3
<1>5. start < text.len
  BY <1>0, <1>1, <1>4
<1>6. Reached(text, j)
  <2>1. \A k \in 0 .. j - 1 : WindowEnd(text, k * Stride) < text.len
    <3> SUFFICES ASSUME NEW k \in 0 .. j - 1 PROVE WindowEnd(text, k * Stride) < text.len
      OBVIOUS
    <3>1. k \in 0 .. i /\ ~ (j <= k)
      BY <1>4
    <3>2. k \notin T
      <4> HIDE DEF T
      <4>1. QED
        BY <1>3, <3>1
    <3>3. QED
      BY <3>1, <3>2
  <2>2. QED
    BY <1>5, <2>1 DEF Reached
<1>7. /\ end \in Nat /\ start < end /\ end <= text.len
      /\ \A q \in text.spaces : start < q /\ q < start + ChunkChars => q <= end
      /\ start + ChunkChars >= text.len => end = text.len
  <2> HIDE DEF start
  <2>1. QED
    BY <1>4, <1>5, WindowEndType
<1>8. word.to <= end
  <2>1. CASE j = i
    <3>1. word.to < start + ChunkChars
      BY <1>0, <1>1, <1>2, <1>4, <2>1
    <3> HIDE DEF start, end
    <3>2. CASE word.to = text.len
      BY <1>0, <1>4, <1>7, <3>1, <3>2
    <3>3. CASE word.to \in text.spaces
      BY <1>0, <1>1, <1>4, <1>7, <3>1, <3>3
    <3>4. QED
      BY <1>1, <3>2, <3>3
  <2>2. CASE j # i
    <3>1. ~ (end < text.len)
      BY <1>3, <2>2
    <3> HIDE DEF start, end
    <3>2. QED
      BY <1>0, <1>1, <1>7, <3>1
  <2>3. QED
    BY <2>1, <2>2
<1>9. /\ Content(text, j).from = IF start \in text.spaces THEN start + 1 ELSE start
      /\ Content(text, j).to = IF end - 1 \in text.spaces THEN end - 1 ELSE end
  BY DEF Content, Stripped
<1>10. /\ Content(text, j).from <= word.from /\ word.to <= Content(text, j).to
       /\ Content(text, j).from < Content(text, j).to
  <2> HIDE DEF start, end
  <2>1. start \in text.spaces => start < word.from
    BY <1>0, <1>1, <1>4
  <2>2. end - 1 \in text.spaces => word.to < end
    BY <1>0, <1>1, <1>7, <1>8
  <2>3. QED
    BY <1>0, <1>1, <1>4, <1>7, <1>8, <1>9, <2>1, <2>2
<1>11. j \in Kept(text)
  BY <1>0, <1>4, <1>5, <1>6, <1>10 DEF Kept
<1>12. QED
  BY <1>10, <1>11, ChunksAreWindows DEF Within

-----------------------------------------------------------------------------
(* The inductive invariant of ingest() and reingest()                      *)

Indexed(embeddings) == \A k \in DOMAIN embeddings : embeddings[k] = k

\* What a call knows at each step.  A text with words has at least one chunk, embed() has
\* returned at most one embedding per chunk it asked for, and if none is missing they are
\* in the order of the chunks.
CallOK(j) ==
  /\ j.pc \in Ended => j.doc = NoDocument
  /\ j.pc \notin Ended => j.doc \in Documents /\ j.text \in Texts /\ j.call \in 1 .. MaxCalls
  /\ j.pc \in {"delete", "count"} => j.next = 1 /\ j.embeddings = << >>
  /\ j.pc \in {"embed", "store", "insert"} => Normalised(j.text)
  /\ j.pc = "embed" =>
       /\ j.next \in 1 .. Len(chunk(j.text))
       /\ Len(j.embeddings) <= j.next - 1
       /\ Len(j.embeddings) = j.next - 1 => Indexed(j.embeddings)
  /\ j.pc = "store" =>
       /\ j.next = 1
       /\ Len(j.embeddings) <= Len(chunk(j.text))
       /\ Len(j.embeddings) = Len(chunk(j.text)) => Indexed(j.embeddings)
  /\ j.pc = "insert" =>
       /\ j.next \in 1 .. Len(chunk(j.text))
       /\ Len(j.embeddings) = Len(chunk(j.text))
       /\ Indexed(j.embeddings)

\* The rows of a text, all of its indices among them.
HasWhole(doc, text) ==
  /\ \A c \in Rows(doc) : c.text = text
  /\ \A i \in DOMAIN chunk(text) : \E c \in Rows(doc) : c.index = i

\* One call at a time works on the document, its rows are of one call, and what the call
\* has stored is what it is to store before "next".
AloneOK(doc) ==
  /\ \A v, w \in Active(doc) : v = w
  /\ \A c, d \in Rows(doc) : c.call = d.call /\ c.text = d.text
  /\ \A w \in Active(doc) :
       /\ job[w].pc \in {"embed", "store"} => Rows(doc) = {}
       /\ job[w].pc = "insert" =>
            /\ \A c \in Rows(doc) :
                 c.call = job[w].call /\ c.text = job[w].text /\ c.index < job[w].next
            /\ \A i \in 1 .. job[w].next - 1 : \E c \in Rows(doc) : c.index = i

\* Nothing was cut short, so what no call is storing is whole.
SettledOK(doc) ==
  (\A w \in Active(doc) : job[w].pc \in {"delete", "count"}) =>
    Rows(doc) = {} \/ \E text \in Texts : HasWhole(doc, text)

DocOK(doc) ==
  /\ doc \notin overlapped => AloneOK(doc)
  /\ doc \notin overlapped /\ doc \notin interrupted => SettledOK(doc)

RowType == [call : 1 .. MaxCalls, doc : Documents, text : Texts, index : Nat, embedding : Nat]

RowsOK ==
  /\ IsFiniteSet(chunks)
  /\ chunks \subseteq RowType
  /\ \A c \in chunks : c.index \in DOMAIN chunk(c.text) /\ c.embedding = c.index

JobType == [pc : Ended \union {"delete", "count", "embed", "store", "insert"},
            doc : Documents \union {NoDocument}, text : Texts \union {Blank},
            call : 0 .. MaxCalls, embeddings : Seq(Nat), next : Nat, ret : Nat]

JobsOK == job \in [Workers -> JobType] /\ \A w \in Workers : CallOK(job[w])

IngestInv ==
  /\ RowsOK
  /\ JobsOK
  /\ \A doc \in Documents : DocOK(doc)
  /\ calls \in 0 .. MaxCalls
  /\ overlapped \subseteq Documents
  /\ interrupted \subseteq Documents

LEMMA IngestTypes == ASSUME IngestInv PROVE TypeOK
  BY DEF IngestInv, RowsOK, RowType, JobsOK, JobType, TypeOK

-----------------------------------------------------------------------------
(* CloudEmbedder.embed()                                                   *)

\* The API's answer to the batch of chunks first .. final, put in input order.  Only an
\* answer that leaves nothing out is as long as the batch.
LEMMA AnswerInOrder ==
  ASSUME NEW first \in Nat, NEW final \in Nat, first <= final,
         NEW answer \in Answers(first .. final)
  PROVE  LET sorted == InInputOrder(answer)
         IN  /\ sorted \in Seq(Nat)
             /\ Len(sorted) <= final - first + 1
             /\ Len(sorted) = final - first + 1 =>
                  \A k \in 1 .. Len(sorted) : sorted[k] = first + k - 1
<1> DEFINE S == ToSet(answer)
<1>1. S \subseteq first .. final
  BY DEF ToSet, Answers
<1>2. IsFiniteSet(first .. final) /\ Cardinality(first .. final) = final - first + 1
  BY FS_Interval
<1> HIDE DEF S
<1>3. /\ IsFiniteSet(S) /\ Cardinality(S) <= final - first + 1
      /\ Cardinality(S) = final - first + 1 => S = first .. final
  BY <1>1, <1>2, FS_Subset
<1>4. Cardinality(S) \in Nat
  BY <1>3, FS_CardinalityType
<1>5. \A i \in S : i \in Nat
  BY <1>1
<1>6. S \subseteq Int
  BY <1>5
<1>7. \A k \in 1 .. Cardinality(S) : Nth(S, k) \in Nat
  BY <1>3, <1>5, <1>6, NthRank
<1>8. Ascending(S) \in Seq(Nat) /\ Len(Ascending(S)) = Cardinality(S)
  BY <1>4, <1>7 DEF Ascending
<1>9. Cardinality(S) = final - first + 1 =>
        \A k \in 1 .. final - first + 1 : Ascending(S)[k] = first + k - 1
  <2>1. first \in Int /\ final \in Int /\ first <= final + 1
    OBVIOUS
  <2>2. \A k \in 1 .. final - first + 1 : Ascending(first .. final)[k] = first + k - 1
    BY <2>1, AscendingInterval
  <2>3. QED
    BY <1>3, <2>2
<1>10. InInputOrder(answer) = Ascending(S)
  BY DEF InInputOrder, S
<1>11. QED
  BY <1>3, <1>8, <1>9, <1>10

\* What is gathered after one more batch.
LEMMA BatchAppended ==
  ASSUME NEW embeddings \in Seq(Nat), NEW first \in Nat \ {0}, NEW final \in Nat, first <= final,
         Len(embeddings) <= first - 1,
         Len(embeddings) = first - 1 => Indexed(embeddings),
         NEW answer \in Answers(first .. final)
  PROVE  LET gathered == embeddings \o InInputOrder(answer)
         IN  /\ gathered \in Seq(Nat)
             /\ Len(gathered) <= final
             /\ Len(gathered) = final => Indexed(gathered)
<1> DEFINE sorted == InInputOrder(answer)
           gathered == embeddings \o sorted
<1>1. /\ sorted \in Seq(Nat)
      /\ Len(sorted) <= final - first + 1
      /\ Len(sorted) = final - first + 1 =>
           \A k \in 1 .. Len(sorted) : sorted[k] = first + k - 1
  BY AnswerInOrder
<1> HIDE DEF sorted
<1>2. /\ gathered \in Seq(Nat)
      /\ Len(gathered) = Len(embeddings) + Len(sorted)
      /\ \A i \in 1 .. Len(embeddings) + Len(sorted) :
           gathered[i] = IF i <= Len(embeddings) THEN embeddings[i] ELSE sorted[i - Len(embeddings)]
  BY <1>1, ConcatProperties
<1>3. Len(embeddings) \in Nat /\ Len(sorted) \in Nat
  BY <1>1
<1> HIDE DEF gathered
<1>4. DOMAIN gathered = 1 .. Len(gathered) /\ DOMAIN embeddings = 1 .. Len(embeddings)
  BY <1>2
<1>5. ASSUME Len(gathered) = final, NEW k \in DOMAIN gathered PROVE gathered[k] = k
  <2>0. /\ Len(sorted) <= final - first + 1 /\ Len(gathered) = Len(embeddings) + Len(sorted)
        /\ Len(embeddings) \in Nat /\ Len(sorted) \in Nat /\ Len(gathered) = final
    BY <1>1, <1>2, <1>3, <1>5
  <2>1. Len(embeddings) = first - 1 /\ Len(sorted) = final - first + 1
    BY <2>0
  <2>2. CASE k <= Len(embeddings)
    BY <1>2, <1>3, <1>4, <2>1, <2>2 DEF Indexed
  <2>3. CASE ~ (k <= Len(embeddings))
    <3>1. k - Len(embeddings) \in 1 .. Len(sorted)
      BY <1>2, <1>3, <1>4, <2>3
    <3>2. sorted[k - Len(embeddings)] = first + (k - Len(embeddings)) - 1
      BY <1>1, <2>1, <3>1
    <3>3. gathered[k] = sorted[k - Len(embeddings)] /\ k \in Nat
      BY <1>2, <1>3, <1>4, <2>3
    <3>4. QED
      BY <1>3, <2>1, <3>2, <3>3
  <2>4. QED
    BY <2>2, <2>3
<1>6. QED
  BY <1>1, <1>2, <1>3, <1>5 DEF Indexed, gathered, sorted

-----------------------------------------------------------------------------
(* What a step of one call changes                                         *)

\* Only w's call moves.
Moves(w) == \A v \in Workers \ {w} : job'[v] = job[v]

LEMMA OneMoves ==
  ASSUME JobsOK, NEW w \in Workers, NEW j \in JobType, CallOK(j), job' = [job EXCEPT ![w] = j]
  PROVE  JobsOK' /\ job'[w] = j /\ Moves(w)
<1>1. job' \in [Workers -> JobType] /\ job'[w] = j /\ Moves(w)
  BY DEF JobsOK, Moves
<1>2. \A v \in Workers : CallOK(job'[v])
  BY <1>1 DEF JobsOK, Moves
<1>3. QED
  BY <1>1, <1>2 DEF JobsOK

LEMMA OverOK ==
  ASSUME NEW pc \in Ended, NEW ret \in Nat
  PROVE  /\ Over(pc, ret) \in JobType /\ CallOK(Over(pc, ret))
         /\ Over(pc, ret).pc = pc /\ Over(pc, ret).doc = NoDocument /\ Over(pc, ret).ret = ret
<1>1. Over(pc, ret) = [pc |-> pc, doc |-> NoDocument, text |-> Blank, call |-> 0,
                       embeddings |-> << >>, next |-> 0, ret |-> ret]
  <2>1. Over(pc, ret) = [NoJob EXCEPT !.pc = pc, !.ret = ret]
    BY DEF Over
  <2>2. NoJob = [pc |-> "idle", doc |-> NoDocument, text |-> Blank, call |-> 0,
                 embeddings |-> << >>, next |-> 0, ret |-> 0]
    BY DEF NoJob
  <2>3. QED
    BY <2>1, <2>2
<1>2. pc \notin {"delete", "count", "embed", "store", "insert"}
  BY DEF Ended
<1>3. 0 \in 0 .. MaxCalls /\ << >> \in Seq(Nat)
  BY IngestAssumption
<1>4. QED
  BY <1>1, <1>2, <1>3 DEF JobType, CallOK

LEMMA NoCall ==
  NoJob \in JobType /\ CallOK(NoJob) /\ NoJob.pc \in Ended /\ NoJob.pc = "idle"
<1>1. NoJob = [pc |-> "idle", doc |-> NoDocument, text |-> Blank, call |-> 0,
               embeddings |-> << >>, next |-> 0, ret |-> 0]
  BY DEF NoJob
<1>2. "idle" \in Ended /\ 0 \in 0 .. MaxCalls /\ << >> \in Seq(Nat)
  BY IngestAssumption DEF Ended
<1>3. NoJob \in JobType
  BY <1>1, <1>2 DEF JobType
<1>4. CallOK(NoJob)
  BY <1>1, <1>2 DEF CallOK
<1>5. QED
  BY <1>1, <1>2, <1>3, <1>4

\* Documents that are none of w's business stay as they are.
LEMMA OtherDoc ==
  ASSUME IngestInv, NEW w \in Workers, Moves(w), NEW doc \in Documents,
         job[w].doc # doc, job'[w].doc # doc, Rows(doc)' = Rows(doc),
         doc \notin overlapped' => doc \notin overlapped,
         doc \notin interrupted' => doc \notin interrupted
  PROVE  DocOK(doc)'
<1>1. Active(doc)' = Active(doc) /\ \A v \in Active(doc) : job'[v] = job[v]
  BY DEF Active, Moves
<1>2. AloneOK(doc) => AloneOK(doc)'
  BY <1>1 DEF AloneOK
<1>3. SettledOK(doc) => SettledOK(doc)'
  BY <1>1 DEF SettledOK, HasWhole
<1>4. QED
  BY <1>2, <1>3 DEF IngestInv, DocOK

\* On a document without overlap, a call is alone.
LEMMA Alone ==
  ASSUME IngestInv, NEW w \in Workers, job[w].pc \notin Ended
  PROVE  /\ job[w].doc \in Documents /\ w \in Active(job[w].doc)
         /\ job[w].doc \notin overlapped =>
              /\ Active(job[w].doc) = {w}
              /\ AloneOK(job[w].doc)
              /\ job[w].doc \notin interrupted => SettledOK(job[w].doc)
<1>1. job[w].doc \in Documents /\ w \in Active(job[w].doc)
  BY DEF IngestInv, JobsOK, CallOK, Active
<1>2. job[w].doc \notin overlapped =>
        /\ AloneOK(job[w].doc)
        /\ job[w].doc \notin interrupted => SettledOK(job[w].doc)
  BY <1>1 DEF IngestInv, DocOK
<1>3. AloneOK(job[w].doc) => Active(job[w].doc) = {w}
  BY <1>1 DEF AloneOK
<1>4. QED
  BY <1>1, <1>2, <1>3

\* A call that ends, and its document afterwards.
LEMMA CallEnds ==
  ASSUME IngestInv, NEW w \in Workers, job[w].pc \notin Ended, Moves(w),
         job'[w].pc \in Ended, job'[w].doc = NoDocument,
         NEW own \in Documents, own = job[w].doc,
         \A doc \in Documents \ {own} : Rows(doc)' = Rows(doc),
         overlapped' = overlapped, interrupted \subseteq interrupted',
         own \notin overlapped =>
           /\ \A c, d \in Rows(own)' : c.call = d.call /\ c.text = d.text
           /\ own \notin interrupted' =>
                Rows(own)' = {} \/ \E text \in Texts : HasWhole(own, text)'
  PROVE  \A doc \in Documents : DocOK(doc)'
<1>1. w \in Active(own) /\ (own \notin overlapped => Active(own) = {w})
  BY Alone
<1>2. DocOK(own)'
  <2>0. \A v \in Active(own)' : v \in Active(own) /\ v # w
    BY DEF Active, Moves
  <2>1. own \notin overlapped => Active(own)' = {}
    BY <1>1, <2>0
  <2>2. own \notin overlapped' => AloneOK(own)'
    BY <2>1 DEF AloneOK
  <2>3. own \notin overlapped' /\ own \notin interrupted' => SettledOK(own)'
    BY DEF SettledOK
  <2>4. QED
    BY <2>2, <2>3 DEF DocOK
<1>3. ASSUME NEW doc \in Documents, doc # own PROVE DocOK(doc)'
  BY <1>3, OtherDoc, IngestAssumption
<1>4. QED
  BY <1>2, <1>3

\* A call that goes on, and its document afterwards.
LEMMA CallGoesOn ==
  ASSUME IngestInv, NEW w \in Workers, job[w].pc \notin Ended, Moves(w),
         NEW own \in Documents, own = job[w].doc, own = job'[w].doc,
         \A doc \in Documents \ {own} :
           /\ Rows(doc)' = Rows(doc)
           /\ doc \notin overlapped' => doc \notin overlapped
           /\ doc \notin interrupted' => doc \notin interrupted,
         own \notin overlapped' => AloneOK(own)',
         own \notin overlapped' /\ own \notin interrupted' => SettledOK(own)'
  PROVE  \A doc \in Documents : DocOK(doc)'
<1>1. DocOK(own)'
  BY DEF DocOK
<1>2. ASSUME NEW doc \in Documents, doc # own PROVE DocOK(doc)'
  BY <1>2, OtherDoc
<1>3. QED
  BY <1>1, <1>2

\* The row a call inserts next.
LEMMA NextRowOK ==
  ASSUME IngestInv, NEW w \in Workers, At(w, "insert")
  PROVE  /\ NextRow(w) \in RowType
         /\ NextRow(w).doc = job[w].doc /\ NextRow(w).text = job[w].text
         /\ NextRow(w).call = job[w].call
         /\ NextRow(w).index = job[w].next /\ NextRow(w).embedding = job[w].next
         /\ NextRow(w).index \in DOMAIN chunk(NextRow(w).text)
<1>1. job[w] \in JobType /\ CallOK(job[w]) /\ job[w].pc = "insert" /\ job[w].pc \notin Ended
  BY DEF IngestInv, JobsOK, At, Ended
<1>2. job[w].text \in Texts /\ job[w].doc \in Documents /\ job[w].call \in 1 .. MaxCalls
  BY <1>1 DEF CallOK
<1>3. /\ job[w].next \in 1 .. Len(chunk(job[w].text))
      /\ Len(job[w].embeddings) = Len(chunk(job[w].text)) /\ Indexed(job[w].embeddings)
  BY <1>1 DEF CallOK
<1>4. Len(chunk(job[w].text)) \in Nat /\ DOMAIN chunk(job[w].text) = 1 .. Len(chunk(job[w].text))
  BY <1>2, ChunksAreWindows
<1>5. job[w].embeddings \in Seq(Nat) /\ job[w].next \in Nat
  BY <1>1 DEF JobType
<1>6. job[w].embeddings[job[w].next] = job[w].next
  BY <1>3, <1>4, <1>5 DEF Indexed
<1>7. QED
  BY <1>2, <1>3, <1>4, <1>5, <1>6 DEF NextRow, RowType

\* The table with that row.
LEMMA RowAdded ==
  ASSUME IngestInv, NEW w \in Workers, At(w, "insert"), chunks' = chunks \union {NextRow(w)},
         NEW own, own = job[w].doc
  PROVE  /\ RowsOK'
         /\ \A doc \in Documents \ {own} : Rows(doc)' = Rows(doc)
         /\ Rows(own)' = Rows(own) \union {NextRow(w)}
         /\ own \notin overlapped =>
              \A c \in Rows(own)' : c.call = job[w].call /\ c.text = job[w].text
<1>1. /\ NextRow(w) \in RowType
      /\ NextRow(w).doc = job[w].doc /\ NextRow(w).text = job[w].text
      /\ NextRow(w).call = job[w].call
      /\ NextRow(w).index = job[w].next /\ NextRow(w).embedding = job[w].next
      /\ NextRow(w).index \in DOMAIN chunk(NextRow(w).text)
  BY NextRowOK
<1>2. RowsOK'
  <2>1. IsFiniteSet(chunks')
    BY FS_AddElement DEF IngestInv, RowsOK
  <2>2. QED
    BY <1>1, <2>1 DEF IngestInv, RowsOK
<1>3. /\ \A doc \in Documents \ {own} : Rows(doc)' = Rows(doc)
      /\ Rows(own)' = Rows(own) \union {NextRow(w)}
  BY <1>1 DEF Rows
<1>4. ASSUME own \notin overlapped
      PROVE  \A c \in Rows(own) : c.call = job[w].call /\ c.text = job[w].text
  <2>1. job[w].pc \notin Ended
    BY DEF At, Ended
  <2>2. AloneOK(own) /\ w \in Active(own)
    BY <1>4, <2>1, Alone
  <2>3. QED
    BY <2>2 DEF AloneOK, At
<1>5. QED
  BY <1>1, <1>2, <1>3, <1>4

\* The table without the rows of a document.
LEMMA RowsRemoved ==
  ASSUME IngestInv, NEW own \in Documents, chunks' = chunks \ Rows(own)
  PROVE  RowsOK' /\ Rows(own)' = {} /\ \A doc \in Documents \ {own} : Rows(doc)' = Rows(doc)
<1>1. IsFiniteSet(chunks')
  BY FS_Subset DEF IngestInv, RowsOK
<1>2. QED
  BY <1>1 DEF IngestInv, RowsOK, Rows

-----------------------------------------------------------------------------
(* Each step keeps the invariant                                           *)

LEMMA BeginStep ==
  ASSUME IngestInv, NEW w \in Workers, NEW pc \in {"count", "delete"}, NEW own \in Documents,
         NEW text \in Texts, Begin(w, pc, own, text)
  PROVE  IngestInv'
<1> DEFINE j == [pc |-> pc, doc |-> own, text |-> text, call |-> calls + 1,
                 embeddings |-> << >>, next |-> 1, ret |-> 0]
<1>1. /\ job[w].pc \in Ended /\ calls < MaxCalls /\ calls' = calls + 1
      /\ job' = [job EXCEPT ![w] = j]
      /\ overlapped' = IF Active(own) = {} THEN overlapped ELSE overlapped \union {own}
      /\ chunks' = chunks /\ interrupted' = interrupted
  BY DEF Begin
<1>2. calls + 1 \in 1 .. MaxCalls
  BY <1>1, IngestAssumption DEF IngestInv
<1>3. j \in JobType /\ CallOK(j)
  <2>1. pc \notin Ended /\ pc \notin {"embed", "store", "insert"} /\ pc \in {"delete", "count"}
    BY DEF Ended
  <2>2. << >> \in Seq(Nat) /\ calls + 1 \in 0 .. MaxCalls
    BY <1>2
  <2>3. QED
    BY <1>2, <2>1, <2>2 DEF JobType, CallOK
<1>4. JobsOK' /\ job'[w] = j /\ Moves(w)
  <2> HIDE DEF j
  <2>1. QED
    BY <1>1, <1>3, OneMoves DEF IngestInv
<1>5. \A doc : Rows(doc)' = Rows(doc)
  BY <1>1 DEF Rows
<1>6. RowsOK'
  BY <1>1 DEF IngestInv, RowsOK
<1>7. job[w].doc = NoDocument /\ NoDocument \notin Documents
  BY <1>1, IngestAssumption DEF IngestInv, JobsOK, CallOK
<1>8. DocOK(own)'
  <2>1. CASE Active(own) # {}
    BY <1>1, <2>1 DEF DocOK
  <2>2. CASE Active(own) = {}
    <3>1. \A v \in Active(own)' : v = w /\ job'[v].pc \in {"count", "delete"}
      BY <1>4, <2>2 DEF Active, Moves
    <3>2. own \notin overlapped' => AloneOK(own)
      BY <1>1, <2>2 DEF IngestInv, DocOK
    <3>3. own \notin overlapped' => AloneOK(own)'
      BY <1>5, <3>1, <3>2 DEF AloneOK
    <3>4. own \notin overlapped' /\ own \notin interrupted' => SettledOK(own)
      BY <1>1, <2>2 DEF IngestInv, DocOK
    <3>5. own \notin overlapped' /\ own \notin interrupted' => SettledOK(own)'
      BY <1>5, <2>2, <3>4 DEF SettledOK, HasWhole
    <3>6. QED
      BY <3>3, <3>5 DEF DocOK
  <2>3. QED
    BY <2>1, <2>2
<1>9. ASSUME NEW doc \in Documents, doc # own PROVE DocOK(doc)'
  <2>1. job'[w].doc # doc
    BY <1>4, <1>9
  <2>2. doc \notin overlapped' => doc \notin overlapped
    BY <1>1
  <2>3. doc \notin interrupted' => doc \notin interrupted
    BY <1>1
  <2>4. QED
    BY <1>4, <1>5, <1>7, <2>1, <2>2, <2>3, OtherDoc
<1>10. calls' \in 0 .. MaxCalls /\ overlapped' \subseteq Documents /\ interrupted' \subseteq Documents
  BY <1>1, <1>2 DEF IngestInv
<1>11. QED
  BY <1>4, <1>6, <1>8, <1>9, <1>10 DEF IngestInv

LEMMA DeleteStep ==
  ASSUME IngestInv, NEW w \in Workers, Delete(w)
  PROVE  IngestInv'
<1> DEFINE j == [job[w] EXCEPT !.pc = "count"]
<1>1. PICK own \in Documents : own = job[w].doc
  BY Alone DEF Delete, At, Ended
<1>2. /\ job[w].pc = "delete" /\ job[w].pc \notin Ended
      /\ chunks' = chunks \ Rows(own) /\ job' = [job EXCEPT ![w].pc = "count"] /\ calls' = calls
      /\ interrupted' = IF Active(own) = {w} THEN interrupted \ {own} ELSE interrupted
      /\ overlapped' = IF Active(own) = {w} THEN overlapped \ {own} ELSE overlapped
  BY <1>1 DEF Delete, At, Ended
<1>3. job[w] \in JobType /\ CallOK(job[w])
  BY DEF IngestInv, JobsOK
<1>4. /\ j \in JobType /\ j.pc = "count" /\ j.doc = own
      /\ j.text = job[w].text /\ j.call = job[w].call
      /\ j.next = job[w].next /\ j.embeddings = job[w].embeddings
  BY <1>1, <1>3 DEF JobType
<1>5. CallOK(j)
  <2> HIDE DEF j
  <2>1. QED
    BY <1>1, <1>2, <1>3, <1>4 DEF CallOK, Ended
<1>6. job' = [job EXCEPT ![w] = j]
  BY <1>2
<1>7. JobsOK' /\ job'[w] = j /\ Moves(w)
  <2> HIDE DEF j
  <2>1. QED
    BY <1>4, <1>5, <1>6, OneMoves DEF IngestInv
<1> HIDE DEF j
<1>8. RowsOK' /\ Rows(own)' = {} /\ \A doc \in Documents \ {own} : Rows(doc)' = Rows(doc)
  BY <1>2, RowsRemoved
<1>9. Active(own)' = Active(own)
  BY <1>1, <1>2, <1>4, <1>7 DEF Active, Moves, Ended
<1>10. own \notin overlapped' => AloneOK(own)'
  <2>1. own \notin overlapped' => \A v, u \in Active(own)' : v = u
    BY <1>1, <1>2, <1>9, Alone
  <2>2. own \notin overlapped' => Active(own)' = {w}
    BY <1>1, <1>2, <1>9, Alone
  <2>3. QED
    BY <1>4, <1>7, <1>8, <2>1, <2>2 DEF AloneOK
<1>11. SettledOK(own)'
  BY <1>8 DEF SettledOK
<1>12. own = job'[w].doc
  BY <1>4, <1>7
<1>13. \A doc \in Documents \ {own} :
         /\ Rows(doc)' = Rows(doc)
         /\ doc \notin overlapped' => doc \notin overlapped
         /\ doc \notin interrupted' => doc \notin interrupted
  BY <1>2, <1>8
<1>14. \A doc \in Documents : DocOK(doc)'
  BY <1>1, <1>2, <1>7, <1>10, <1>11, <1>12, <1>13, CallGoesOn
<1>15. calls' \in 0 .. MaxCalls /\ overlapped' \subseteq Documents /\ interrupted' \subseteq Documents
  BY <1>2 DEF IngestInv
<1>16. QED
  BY <1>7, <1>8, <1>14, <1>15 DEF IngestInv

\* Steps after which the call is over and the table as it was.
LEMMA ReturnStep ==
  ASSUME IngestInv, NEW w \in Workers, At(w, "count"), NEW pc \in Ended, NEW ret \in Nat,
         job' = [job EXCEPT ![w] = Over(pc, ret)],
         chunks' = chunks, calls' = calls, overlapped' = overlapped, interrupted' = interrupted
  PROVE  IngestInv'
<1>0. job[w].pc = "count" /\ job[w].pc \notin Ended
  BY DEF At, Ended
<1>1. PICK own \in Documents : own = job[w].doc
  BY <1>0, Alone
<1>2. /\ Over(pc, ret) \in JobType /\ CallOK(Over(pc, ret))
      /\ Over(pc, ret).pc = pc /\ Over(pc, ret).doc = NoDocument
  BY OverOK
<1>3. JobsOK' /\ job'[w] = Over(pc, ret) /\ Moves(w)
  BY <1>2, OneMoves DEF IngestInv
<1>4. \A doc : Rows(doc)' = Rows(doc)
  BY DEF Rows
<1>5. RowsOK'
  BY DEF IngestInv, RowsOK
<1>6. own \notin overlapped =>
        /\ \A c, d \in Rows(own)' : c.call = d.call /\ c.text = d.text
        /\ own \notin interrupted' =>
             Rows(own)' = {} \/ \E text \in Texts : HasWhole(own, text)'
  <2>1. own \notin overlapped => Active(own) = {w} /\ AloneOK(own)
    BY <1>0, <1>1, Alone
  <2>2. own \notin overlapped /\ own \notin interrupted => SettledOK(own)
    BY <1>0, <1>1, Alone
  <2>3. own \notin overlapped /\ own \notin interrupted =>
          Rows(own) = {} \/ \E text \in Texts : HasWhole(own, text)
    BY <1>0, <2>1, <2>2 DEF SettledOK
  <2>4. \A text : HasWhole(own, text)' <=> HasWhole(own, text)
    BY <1>4 DEF HasWhole
  <2>5. QED
    BY <1>4, <2>1, <2>3, <2>4 DEF AloneOK
<1>7. job'[w].pc \in Ended /\ job'[w].doc = NoDocument
  BY <1>2, <1>3
<1>8. \A doc \in Documents \ {own} : Rows(doc)' = Rows(doc)
  BY <1>4
<1>9. \A doc \in Documents : DocOK(doc)'
  BY <1>0, <1>1, <1>3, <1>6, <1>7, <1>8, CallEnds
<1>10. calls' \in 0 .. MaxCalls /\ overlapped' \subseteq Documents /\ interrupted' \subseteq Documents
  BY DEF IngestInv
<1>11. QED
  BY <1>3, <1>5, <1>9, <1>10 DEF IngestInv

\* Steps between the count and the first insert, which find no rows and leave none.
LEMMA PreparationStep ==
  ASSUME IngestInv, NEW w \in Workers, job[w].pc \notin Ended,
         NEW own \in Documents, own = job[w].doc, own \notin overlapped => Rows(own) = {},
         NEW j \in JobType, CallOK(j), job' = [job EXCEPT ![w] = j], j.doc = own,
         j.pc \in {"embed", "store", "insert"}, j.pc = "insert" => j.next = 1,
         chunks' = chunks, calls' = calls, overlapped' = overlapped, interrupted' = interrupted
  PROVE  IngestInv'
<1>1. JobsOK' /\ job'[w] = j /\ Moves(w)
  BY OneMoves DEF IngestInv
<1>2. \A doc : Rows(doc)' = Rows(doc)
  BY DEF Rows
<1>3. RowsOK'
  BY DEF IngestInv, RowsOK
<1>4. Active(own)' = Active(own)
  BY <1>1 DEF Active, Moves, Ended
<1>5. own \notin overlapped' => AloneOK(own)'
  <2>1. own \notin overlapped => Active(own) = {w}
    BY Alone
  <2>2. j.pc = "insert" => 1 .. j.next - 1 = {}
    OBVIOUS
  <2>3. QED
    BY <1>1, <1>2, <1>4, <2>1, <2>2 DEF AloneOK
<1>6. own \notin overlapped' => SettledOK(own)'
  BY <1>2 DEF SettledOK
<1>7. \A doc \in Documents : DocOK(doc)'
  BY <1>1, <1>2, <1>5, <1>6, CallGoesOn
<1>8. calls' \in 0 .. MaxCalls /\ overlapped' \subseteq Documents /\ interrupted' \subseteq Documents
  BY DEF IngestInv
<1>9. QED
  BY <1>1, <1>3, <1>7, <1>8 DEF IngestInv

LEMMA ProceedStep ==
  ASSUME IngestInv, NEW w \in Workers, Proceed(w)
  PROVE  IngestInv'
<1> DEFINE j == [job[w] EXCEPT !.pc = "embed"]
<1>0. job[w].pc = "count" /\ job[w].pc \notin Ended
  BY DEF Proceed, At, Ended
<1>1. PICK own \in Documents : own = job[w].doc
  BY <1>0, Alone
<1>2. /\ Rows(own) = {} /\ job[w].text # Blank /\ job' = [job EXCEPT ![w].pc = "embed"]
      /\ chunks' = chunks /\ calls' = calls
      /\ overlapped' = overlapped /\ interrupted' = interrupted
  BY <1>1 DEF Proceed
<1>3. job[w] \in JobType /\ CallOK(job[w])
  BY DEF IngestInv, JobsOK
<1>4. /\ j \in JobType /\ j.pc = "embed" /\ j.doc = own
      /\ j.text = job[w].text /\ j.call = job[w].call
      /\ j.next = job[w].next /\ j.embeddings = job[w].embeddings
  BY <1>1, <1>3 DEF JobType
<1>5. job' = [job EXCEPT ![w] = j]
  BY <1>2
<1> HIDE DEF j
<1>6. /\ job[w].text \in Texts /\ job[w].call \in 1 .. MaxCalls
      /\ job[w].next = 1 /\ job[w].embeddings = << >>
  BY <1>0, <1>3 DEF CallOK
<1>7. Normalised(j.text) /\ j.text \in Texts
  BY <1>2, <1>4, <1>6, TextType
<1>8. Len(chunk(j.text)) \in Nat /\ Len(chunk(j.text)) >= 1
  BY <1>7, SomeChunk, ChunksAreWindows
<1>9. /\ j.next \in 1 .. Len(chunk(j.text)) /\ Len(j.embeddings) = 0 /\ j.next = 1
      /\ Indexed(j.embeddings)
  BY <1>4, <1>6, <1>8 DEF Indexed
<1>10. CallOK(j)
  BY <1>4, <1>6, <1>7, <1>9 DEF CallOK, Ended
<1>11. QED
  BY <1>0, <1>1, <1>2, <1>4, <1>5, <1>10, PreparationStep

LEMMA EmbedStep ==
  ASSUME IngestInv, NEW w \in Workers, Embed(w)
  PROVE  IngestInv'
<1> DEFINE text == job[w].text
           n == Len(chunk(text))
           first == job[w].next
           final == IF first + BatchSize > n THEN n ELSE first + BatchSize - 1
<1>0. job[w].pc = "embed" /\ job[w].pc \notin Ended
  BY DEF Embed, At, Ended
<1>1. PICK own \in Documents : own = job[w].doc
  BY <1>0, Alone
<1>2. own \notin overlapped => Rows(own) = {}
  BY <1>0, <1>1, Alone DEF AloneOK
<1>3. PICK answer \in Answers(first .. final) :
        job' = [job EXCEPT ![w].embeddings = @ \o InInputOrder(answer),
                           ![w].next = IF final = n THEN 1 ELSE final + 1,
                           ![w].pc = IF final = n THEN "store" ELSE @]
  BY DEF Embed, Count
<1> DEFINE j == [job[w] EXCEPT !.embeddings = @ \o InInputOrder(answer),
                               !.next = IF final = n THEN 1 ELSE final + 1,
                               !.pc = IF final = n THEN "store" ELSE @]
<1>4. /\ chunks' = chunks /\ calls' = calls
      /\ overlapped' = overlapped /\ interrupted' = interrupted
  BY DEF Embed
<1>5. job[w] \in JobType /\ CallOK(job[w])
  BY DEF IngestInv, JobsOK
<1>6. /\ text \in Texts /\ Normalised(text) /\ job[w].call \in 1 .. MaxCalls
      /\ first \in 1 .. n /\ Len(job[w].embeddings) <= first - 1
      /\ Len(job[w].embeddings) = first - 1 => Indexed(job[w].embeddings)
      /\ job[w].embeddings \in Seq(Nat)
  BY <1>0, <1>5 DEF CallOK, JobType
<1>7. n \in Nat
  BY <1>6, ChunksAreWindows
<1>8. /\ first \in Nat \ {0} /\ final \in Nat /\ first <= final /\ final <= n
      /\ final # n => final + 1 \in 1 .. n
  <2>1. first \in 1 .. n /\ n \in Nat /\ BatchSize \in Nat \ {0}
    BY <1>6, <1>7, IngestAssumption
  <2> HIDE DEF first, n
  <2>2. QED
    BY <2>1
<1> DEFINE gathered == job[w].embeddings \o InInputOrder(answer)
<1>9. /\ gathered \in Seq(Nat) /\ Len(gathered) <= final
      /\ Len(gathered) = final => Indexed(gathered)
  <2> HIDE DEF first, final
  <2>1. QED
    BY <1>6, <1>8, BatchAppended
<1>10. job' = [job EXCEPT ![w] = j]
  BY <1>3
<1>11. /\ j.pc = IF final = n THEN "store" ELSE "embed"
       /\ j.doc = own /\ j.text = text /\ j.call = job[w].call
       /\ j.next = IF final = n THEN 1 ELSE final + 1
       /\ j.embeddings = gathered
  BY <1>0, <1>1, <1>5 DEF JobType
<1>12. j \in JobType
  <2> HIDE DEF final, n, gathered
  <2>1. (IF final = n THEN 1 ELSE final + 1) \in Nat
    BY <1>8
  <2>2. (IF final = n THEN "store" ELSE job[w].pc) \in
          Ended \union {"delete", "count", "embed", "store", "insert"}
    BY <1>0
  <2>3. job[w].embeddings \o InInputOrder(answer) \in Seq(Nat)
    BY <1>9 DEF gathered
  <2>4. QED
    BY <1>5, <2>1, <2>2, <2>3 DEF JobType
<1> HIDE DEF j, gathered, final
<1>13. CallOK(j)
  BY <1>6, <1>7, <1>8, <1>9, <1>11 DEF CallOK, Ended
<1>14. j.pc \in {"embed", "store", "insert"} /\ j.pc # "insert"
  BY <1>11
<1>15. QED
  BY <1>0, <1>1, <1>2, <1>4, <1>10, <1>11, <1>12, <1>13, <1>14, PreparationStep

LEMMA StoreStep ==
  ASSUME IngestInv, NEW w \in Workers, Store(w)
  PROVE  IngestInv'
<1>0. job[w].pc = "store" /\ job[w].pc \notin Ended
  BY DEF Store, At, Ended
<1>1. PICK own \in Documents : own = job[w].doc
  BY <1>0, Alone
<1>2. own \notin overlapped => Rows(own) = {}
  BY <1>0, <1>1, Alone DEF AloneOK
<1>3. /\ chunks' = chunks /\ calls' = calls
      /\ overlapped' = overlapped /\ interrupted' = interrupted
  BY DEF Store
<1>4. job[w] \in JobType /\ CallOK(job[w])
  BY DEF IngestInv, JobsOK
<1>5. CASE Len(job[w].embeddings) # Count(w)
  <2>1. job' = [job EXCEPT ![w] = Over("raised", 0)]
    BY <1>5 DEF Store
  <2>2. "raised" \in Ended /\ 0 \in Nat
    BY DEF Ended
  <2>3. /\ Over("raised", 0) \in JobType /\ CallOK(Over("raised", 0))
        /\ Over("raised", 0).pc = "raised" /\ Over("raised", 0).doc = NoDocument
    BY <2>2, OverOK
  <2>4. JobsOK' /\ job'[w] = Over("raised", 0) /\ Moves(w)
    BY <2>1, <2>3, OneMoves DEF IngestInv
  <2>5. \A doc : Rows(doc)' = Rows(doc)
    BY <1>3 DEF Rows
  <2>6. \A doc \in Documents : DocOK(doc)'
    BY <1>0, <1>1, <1>2, <1>3, <2>2, <2>3, <2>4, <2>5, CallEnds
  <2>7. RowsOK'
    BY <1>3 DEF IngestInv, RowsOK
  <2>8. calls' \in 0 .. MaxCalls /\ overlapped' \subseteq Documents /\ interrupted' \subseteq Documents
    BY <1>3 DEF IngestInv
  <2>9. QED
    BY <2>4, <2>6, <2>7, <2>8 DEF IngestInv
<1>6. CASE Len(job[w].embeddings) = Count(w)
  <2> DEFINE j == [job[w] EXCEPT !.pc = "insert"]
  <2>1. job' = [job EXCEPT ![w] = j]
    BY <1>6 DEF Store
  <2>2. /\ j \in JobType /\ j.pc = "insert" /\ j.doc = own
        /\ j.text = job[w].text /\ j.call = job[w].call
        /\ j.next = job[w].next /\ j.embeddings = job[w].embeddings
    BY <1>1, <1>4 DEF JobType
  <2> HIDE DEF j
  <2>3. /\ job[w].text \in Texts /\ Normalised(job[w].text) /\ job[w].call \in 1 .. MaxCalls
        /\ job[w].next = 1 /\ Len(job[w].embeddings) = Len(chunk(job[w].text))
        /\ Indexed(job[w].embeddings)
    BY <1>0, <1>4, <1>6 DEF CallOK, Count
  <2>4. Len(chunk(j.text)) \in Nat /\ Len(chunk(j.text)) >= 1
    BY <2>2, <2>3, SomeChunk, ChunksAreWindows
  <2>5. CallOK(j)
    BY <2>2, <2>3, <2>4 DEF CallOK, Ended
  <2>6. QED
    BY <1>0, <1>1, <1>2, <1>3, <2>1, <2>2, <2>3, <2>5, PreparationStep
<1>7. QED
  BY <1>5, <1>6

LEMMA InsertStep ==
  ASSUME IngestInv, NEW w \in Workers, Insert(w)
  PROVE  IngestInv'
<1>0. job[w].pc = "insert" /\ job[w].pc \notin Ended /\ At(w, "insert")
  BY DEF Insert, At, Ended
<1>1. PICK own \in Documents : own = job[w].doc
  BY <1>0, Alone
<1>t. PICK text \in Texts : text = job[w].text
  BY <1>0 DEF IngestInv, JobsOK, CallOK
<1> DEFINE n == Len(chunk(text))
           next == job[w].next
<1>2. /\ chunks' = chunks \union {NextRow(w)} /\ calls' = calls
      /\ overlapped' = overlapped /\ interrupted' = interrupted
  BY DEF Insert
<1>3. job[w] \in JobType /\ CallOK(job[w])
  BY DEF IngestInv, JobsOK
<1>4. /\ RowsOK'
      /\ \A doc \in Documents \ {own} : Rows(doc)' = Rows(doc)
      /\ Rows(own)' = Rows(own) \union {NextRow(w)}
      /\ own \notin overlapped => \A c \in Rows(own)' : c.call = job[w].call /\ c.text = text
  BY <1>0, <1>1, <1>2, <1>t, RowAdded
<1>5. /\ text \in Texts /\ Normalised(text) /\ job[w].call \in 1 .. MaxCalls
      /\ next \in 1 .. n /\ Len(job[w].embeddings) = n /\ Indexed(job[w].embeddings)
  BY <1>0, <1>3, <1>t DEF CallOK
<1>6. n \in Nat /\ DOMAIN chunk(text) = 1 .. n
  BY <1>5, ChunksAreWindows
<1>7. NextRow(w).index = next
  BY <1>0, NextRowOK
<1>8. own \notin overlapped =>
        /\ Active(own) = {w}
        /\ \A c \in Rows(own) : c.index < next
        /\ \A i \in 1 .. next - 1 : \E c \in Rows(own) : c.index = i
  BY <1>0, <1>1, Alone DEF AloneOK
<1>9. own \notin overlapped => \A i \in 1 .. next : \E c \in Rows(own)' : c.index = i
  <2> HIDE DEF next
  <2>1. ASSUME own \notin overlapped, NEW i \in 1 .. next PROVE \E c \in Rows(own)' : c.index = i
    <3>1. CASE i = next
      BY <1>4, <1>7, <3>1
    <3>2. CASE i # next
      <4>1. i \in 1 .. next - 1
        BY <1>5, <1>6, <3>2
      <4>2. QED
        BY <1>4, <1>8, <2>1, <4>1
    <3>3. QED
      BY <3>1, <3>2
  <2>2. QED
    BY <2>1
<1>10. calls' \in 0 .. MaxCalls /\ overlapped' \subseteq Documents /\ interrupted' \subseteq Documents
  BY <1>2 DEF IngestInv
<1>11. CASE next = n
  <2>1. job' = [job EXCEPT ![w] = Over("returned", n)]
    BY <1>11, <1>t DEF Insert, Count
  <2>2. "returned" \in Ended
    BY DEF Ended
  <2> HIDE DEF n, next
  <2>3. /\ Over("returned", n) \in JobType /\ CallOK(Over("returned", n))
        /\ Over("returned", n).pc = "returned" /\ Over("returned", n).doc = NoDocument
    BY <1>6, <2>2, OverOK
  <2>4. JobsOK' /\ job'[w] = Over("returned", n) /\ Moves(w)
    BY <2>1, <2>3, OneMoves DEF IngestInv
  <2>5. own \notin overlapped => HasWhole(own, text)'
    BY <1>4, <1>6, <1>9, <1>11 DEF HasWhole
  <2>6. own \notin overlapped =>
          /\ \A c, d \in Rows(own)' : c.call = d.call /\ c.text = d.text
          /\ own \notin interrupted' =>
               Rows(own)' = {} \/ \E t \in Texts : HasWhole(own, t)'
    BY <1>4, <1>5, <2>5
  <2>7. job'[w].pc \in Ended /\ job'[w].doc = NoDocument /\ interrupted \subseteq interrupted'
    BY <1>2, <2>2, <2>3, <2>4
  <2>8. \A doc \in Documents : DocOK(doc)'
    BY <1>0, <1>1, <1>2, <1>4, <2>4, <2>6, <2>7, CallEnds
  <2>9. QED
    BY <1>4, <1>10, <2>4, <2>8 DEF IngestInv
<1>12. CASE next # n
  <2> DEFINE j == [job[w] EXCEPT !.next = @ + 1]
  <2>1. job' = [job EXCEPT ![w] = j]
    <3>1. job' = [job EXCEPT ![w] = IF next = n THEN Over("returned", n) ELSE j]
      BY <1>t DEF Insert, Count
    <3>2. QED
      BY <1>12, <3>1
  <2>2. next + 1 \in Nat /\ next + 1 \in 1 .. n /\ next + 1 - 1 = next /\ next \in Nat
    BY <1>5, <1>6, <1>12
  <2>3. /\ j \in JobType /\ j.pc = "insert" /\ j.doc = own
        /\ j.text = text /\ j.call = job[w].call
        /\ j.next = next + 1 /\ j.embeddings = job[w].embeddings
    BY <1>0, <1>1, <1>3, <1>t, <2>2 DEF JobType
  <2> HIDE DEF j
  <2>4. CallOK(j)
    BY <1>5, <2>2, <2>3 DEF CallOK, Ended
  <2>5. JobsOK' /\ job'[w] = j /\ Moves(w)
    BY <2>1, <2>3, <2>4, OneMoves DEF IngestInv
  <2> HIDE DEF n, next
  <2>6. Active(own)' = Active(own)
    BY <1>0, <1>1, <2>3, <2>5 DEF Active, Moves, Ended
  <2>7. \A c \in Rows(own)' : own \notin overlapped => c.index < next + 1
    <3>1. \A c \in Rows(own) : c.index \in Nat
      BY DEF Rows, IngestInv, RowsOK, RowType
    <3>2. QED
      BY <1>4, <1>7, <1>8, <2>2, <3>1
  <2>8. own \notin overlapped' => AloneOK(own)'
    <3> SUFFICES ASSUME own \notin overlapped PROVE AloneOK(own)'
      BY <1>2
    <3>1. Active(own)' = {w}
      BY <1>8, <2>6
    <3>2. \A i \in 1 .. job'[w].next - 1 : \E c \in Rows(own)' : c.index = i
      BY <1>9, <2>2, <2>3, <2>5
    <3>3. \A c \in Rows(own)' :
            c.call = job'[w].call /\ c.text = job'[w].text /\ c.index < job'[w].next
      BY <1>4, <2>3, <2>5, <2>7
    <3>4. job'[w].pc = "insert"
      BY <2>3, <2>5
    <3>5. QED
      BY <3>1, <3>2, <3>3, <3>4 DEF AloneOK
  <2>9. own \notin overlapped' => SettledOK(own)'
    BY <1>2, <1>8, <2>3, <2>5, <2>6 DEF SettledOK
  <2>10. \A doc \in Documents : DocOK(doc)'
    BY <1>0, <1>1, <1>2, <1>4, <2>3, <2>5, <2>8, <2>9, CallGoesOn
  <2>11. QED
    BY <1>4, <1>10, <2>5, <2>10 DEF IngestInv
<1>13. QED
  BY <1>11, <1>12

LEMMA FailStep ==
  ASSUME IngestInv, NEW w \in Workers, Fail(w)
  PROVE  IngestInv'
<1>0. job[w].pc \notin Ended
  BY DEF Fail
<1>1. PICK own \in Documents : own = job[w].doc
  BY <1>0, Alone
<1>2. /\ job' = [job EXCEPT ![w] = Over("raised", 0)] /\ calls' = calls
      /\ overlapped' = overlapped /\ interrupted' = interrupted \union {own}
      /\ chunks' = chunks \/ chunks' = Committed(w)
  BY <1>1 DEF Fail
<1>3. "raised" \in Ended /\ 0 \in Nat
  BY DEF Ended
<1>4. /\ Over("raised", 0) \in JobType /\ CallOK(Over("raised", 0))
      /\ Over("raised", 0).pc = "raised" /\ Over("raised", 0).doc = NoDocument
  BY <1>3, OverOK
<1>5. JobsOK' /\ job'[w] = Over("raised", 0) /\ Moves(w)
  BY <1>2, <1>4, OneMoves DEF IngestInv
<1>6. own \notin overlapped => AloneOK(own)
  BY <1>0, <1>1, Alone
<1>7. /\ RowsOK'
      /\ \A doc \in Documents \ {own} : Rows(doc)' = Rows(doc)
      /\ own \notin overlapped => \A c, d \in Rows(own)' : c.call = d.call /\ c.text = d.text
  <2>1. CASE chunks' = chunks
    <3>1. \A doc : Rows(doc)' = Rows(doc)
      BY <2>1 DEF Rows
    <3>2. RowsOK'
      BY <2>1 DEF IngestInv, RowsOK
    <3>3. QED
      BY <1>6, <3>1, <3>2 DEF AloneOK
  <2>2. CASE At(w, "insert") /\ chunks' = chunks \union {NextRow(w)}
    BY <1>1, <2>2, RowAdded
  <2>3. CASE chunks' = chunks \ Rows(own)
    BY <1>1, <2>3, RowsRemoved
  <2>4. \/ Committed(w) = chunks
        \/ At(w, "insert") /\ Committed(w) = chunks \union {NextRow(w)}
        \/ Committed(w) = chunks \ Rows(own)
    BY <1>1 DEF Committed, At
  <2>5. QED
    BY <1>2, <2>1, <2>2, <2>3, <2>4
<1>8. \A doc \in Documents : DocOK(doc)'
  <2>1. /\ job'[w].pc \in Ended /\ job'[w].doc = NoDocument
        /\ interrupted \subseteq interrupted' /\ own \in interrupted'
    BY <1>2, <1>3, <1>4, <1>5
  <2>2. own \notin overlapped =>
          /\ \A c, d \in Rows(own)' : c.call = d.call /\ c.text = d.text
          /\ own \notin interrupted' =>
               Rows(own)' = {} \/ \E text \in Texts : HasWhole(own, text)'
    BY <1>7, <2>1
  <2>3. QED
    BY <1>0, <1>1, <1>2, <1>5, <1>7, <2>1, <2>2, CallEnds
<1>9. calls' \in 0 .. MaxCalls /\ overlapped' \subseteq Documents /\ interrupted' \subseteq Documents
  BY <1>2 DEF IngestInv
<1>10. QED
  BY <1>5, <1>7, <1>8, <1>9 DEF IngestInv

LEMMA RestartStep ==
  ASSUME IngestInv, Restart
  PROVE  IngestInv'
<1>1. /\ job' = [w \in Workers |-> NoJob]
      /\ interrupted' = interrupted \union {d \in Documents : Active(d) # {}}
      /\ chunks' = chunks /\ calls' = calls /\ overlapped' = overlapped
  BY DEF Restart
<1>3. NoJob \in JobType /\ CallOK(NoJob) /\ NoJob.pc \in Ended
  BY NoCall
<1>4. JobsOK'
  BY <1>1, <1>3 DEF JobsOK
<1>5. \A doc : Rows(doc)' = Rows(doc)
  BY <1>1 DEF Rows
<1>6. \A doc : Active(doc)' = {}
  BY <1>1, <1>3 DEF Active
<1>7. RowsOK'
  BY <1>1 DEF IngestInv, RowsOK
<1>8. ASSUME NEW doc \in Documents PROVE DocOK(doc)'
  <2>1. doc \notin overlapped' => AloneOK(doc)
    BY <1>1 DEF IngestInv, DocOK
  <2>2. doc \notin overlapped' => AloneOK(doc)'
    BY <1>5, <1>6, <2>1 DEF AloneOK
  <2>3. doc \notin overlapped' /\ doc \notin interrupted' => SettledOK(doc) /\ Active(doc) = {}
    BY <1>1 DEF IngestInv, DocOK
  <2>4. doc \notin overlapped' /\ doc \notin interrupted' => SettledOK(doc)'
    BY <1>5, <2>3 DEF SettledOK, HasWhole
  <2>5. QED
    BY <2>2, <2>4 DEF DocOK
<1>9. calls' \in 0 .. MaxCalls /\ overlapped' \subseteq Documents /\ interrupted' \subseteq Documents
  BY <1>1 DEF IngestInv
<1>10. QED
  BY <1>4, <1>7, <1>8, <1>9 DEF IngestInv

\* Steps of the facts and of build() leave documents alone, and may count as a call.
LEMMA ElsewhereStep ==
  ASSUME IngestInv, calls' \in 0 .. MaxCalls,
         chunks' = chunks, job' = job, overlapped' = overlapped, interrupted' = interrupted
  PROVE  IngestInv'
<1>1. \A doc : Rows(doc)' = Rows(doc) /\ Active(doc)' = Active(doc)
  BY DEF Rows, Active
<1>2. \A doc \in Documents : DocOK(doc)'
  <2> SUFFICES ASSUME NEW doc \in Documents PROVE DocOK(doc)'
    OBVIOUS
  <2>1. AloneOK(doc) => AloneOK(doc)'
    BY <1>1 DEF AloneOK
  <2>2. SettledOK(doc) => SettledOK(doc)'
    BY <1>1 DEF SettledOK, HasWhole
  <2>3. QED
    BY <2>1, <2>2 DEF IngestInv, DocOK
<1>3. RowsOK' /\ JobsOK'
  BY DEF IngestInv, RowsOK, JobsOK
<1>4. QED
  BY <1>2, <1>3 DEF IngestInv

LEMMA IngestStarts == ASSUME Init PROVE IngestInv
<1>2. NoJob \in JobType /\ CallOK(NoJob) /\ NoJob.pc \in Ended
  BY NoCall
<1>3. JobsOK
  BY <1>2 DEF Init, JobsOK
<1>4. \A doc : Rows(doc) = {} /\ Active(doc) = {}
  BY <1>2 DEF Init, Rows, Active
<1>5. RowsOK
  BY FS_EmptySet DEF Init, RowsOK
<1>6. \A doc \in Documents : DocOK(doc)
  BY <1>4 DEF DocOK, AloneOK, SettledOK
<1>7. QED
  BY <1>3, <1>5, <1>6, IngestAssumption DEF Init, IngestInv

LEMMA IngestKept == ASSUME IngestInv, [ContextNext]_allVars PROVE IngestInv'
<1>1. ASSUME NEW w \in Workers, Load(w) PROVE IngestInv'
  <2>1. ASSUME NEW pc \in {"count", "delete"}, NEW doc \in Documents, NEW text \in Texts,
               Begin(w, pc, doc, text)
        PROVE  IngestInv'
    BY <2>1, BeginStep
  <2>2. CASE Delete(w)
    BY <2>2, DeleteStep
  <2>3. CASE Skip(w)
    <3>1. IsFiniteSet(Rows(job[w].doc))
      BY FS_Subset DEF IngestInv, RowsOK, Rows
    <3>2. Cardinality(Rows(job[w].doc)) \in Nat
      BY <3>1, FS_CardinalityType
    <3>3. "returned" \in Ended
      BY DEF Ended
    <3>4. /\ At(w, "count")
          /\ job' = [job EXCEPT ![w] = Over("returned", Cardinality(Rows(job[w].doc)))]
          /\ chunks' = chunks /\ calls' = calls
          /\ overlapped' = overlapped /\ interrupted' = interrupted
      BY <2>3 DEF Skip
    <3>5. QED
      BY <3>2, <3>3, <3>4, ReturnStep
  <2>4. CASE Proceed(w)
    BY <2>4, ProceedStep
  <2>5. CASE ParseRaises(w)
    <3>1. "raised" \in Ended /\ 0 \in Nat
      BY DEF Ended
    <3>2. /\ At(w, "count") /\ job' = [job EXCEPT ![w] = Over("raised", 0)]
          /\ chunks' = chunks /\ calls' = calls
          /\ overlapped' = overlapped /\ interrupted' = interrupted
      BY <2>5 DEF ParseRaises
    <3>3. QED
      BY <3>1, <3>2, ReturnStep
  <2>6. CASE Embed(w)
    BY <2>6, EmbedStep
  <2>7. CASE Store(w)
    BY <2>7, StoreStep
  <2>8. CASE Insert(w)
    BY <2>8, InsertStep
  <2>9. CASE Fail(w)
    BY <2>9, FailStep
  <2>10. QED
    BY <1>1, <2>1, <2>2, <2>3, <2>4, <2>5, <2>6, <2>7, <2>8, <2>9 DEF Load, Step
<1>2. ASSUME calls' = calls \/ (calls < MaxCalls /\ calls' = calls + 1),
             chunks' = chunks, job' = job, overlapped' = overlapped, interrupted' = interrupted
      PROVE  IngestInv'
  <2>1. calls' \in 0 .. MaxCalls
    BY <1>2, IngestAssumption DEF IngestInv
  <2>2. QED
    BY <1>2, <2>1, ElsewhereStep
<1>3. ASSUME NEW id \in FactIds, DeleteFact(id) \/ \E session \in Sessions : StoreFact(id, session)
      PROVE  IngestInv'
  BY <1>2, <1>3 DEF DeleteFact, StoreFact
<1>4. ASSUME NEW request \in Requests, BeginBuild(request) PROVE IngestInv'
  BY <1>2, <1>4 DEF BeginBuild
<1>5. CASE UNCHANGED vars
  BY <1>2, <1>5 DEF vars
<1>6. CASE FetchMemory \/ FetchRag \/ FetchRaises
  BY <1>5, <1>6 DEF FetchMemory, FetchRag, FetchRaises
<1>7. CASE ContextRestart
  BY <1>7, RestartStep DEF ContextRestart
<1>8. CASE Quiet
  BY <1>5, <1>8 DEF Quiet
<1>9. CASE UNCHANGED allVars
  BY <1>5, <1>9 DEF allVars
<1>10. QED
  BY <1>1, <1>3, <1>4, <1>6, <1>7, <1>8, <1>9 DEF ContextNext

THEOREM IngestInvariant == ContextSpec => []IngestInv
<1>1. ContextInit => IngestInv
  BY IngestStarts DEF ContextInit
<1>2. IngestInv /\ [ContextNext]_allVars => IngestInv'
  BY IngestKept
<1>3. QED
  BY <1>1, <1>2, PTL DEF ContextSpec

-----------------------------------------------------------------------------
(* What the invariant says of the documents                                *)

\* Rows of one call are told apart by their indices.
LEMMA RowsDiffer ==
  ASSUME IngestInv, NEW c \in chunks, NEW d \in chunks,
         c.doc = d.doc, c.doc \notin overlapped
  PROVE  c.text = d.text /\ (c.index = d.index => c = d)
<1>1. c \in RowType /\ d \in RowType /\ c.embedding = c.index /\ d.embedding = d.index
  BY DEF IngestInv, RowsOK
<1>2. c.doc \in Documents
  BY <1>1 DEF RowType
<1>3. c \in Rows(c.doc) /\ d \in Rows(c.doc)
  BY DEF Rows
<1>4. AloneOK(c.doc)
  BY <1>2 DEF IngestInv, DocOK
<1>5. c.call = d.call /\ c.text = d.text
  BY <1>3, <1>4 DEF AloneOK
<1>6. QED
  BY <1>1, <1>5 DEF RowType

\* A row for every index is as many rows as the text has chunks.
LEMMA WholeCount ==
  ASSUME IngestInv, NEW doc \in Documents \ overlapped, NEW text \in Texts, HasWhole(doc, text)
  PROVE  Cardinality(Rows(doc)) = Len(chunk(text)) /\ IsWhole(Rows(doc))
<1> DEFINE S == Rows(doc)
           n == Len(chunk(text))
           f == [c \in S |-> c.index]
<1>1. S \subseteq chunks /\ \A c \in S : c.doc = doc
  BY DEF Rows
<1>2. n \in Nat /\ DOMAIN chunk(text) = 1 .. n
  BY ChunksAreWindows
<1>3. \A c \in S : c.index \in 1 .. n
  BY <1>1, <1>2 DEF IngestInv, RowsOK, HasWhole
<1>4. \A i \in 1 .. n : \E c \in S : c.index = i
  BY <1>2 DEF HasWhole
<1>5. \A c, d \in S : c.index = d.index => c = d
  BY <1>1, RowsDiffer
<1>6. IsFiniteSet(S)
  BY <1>1, FS_Subset DEF IngestInv, RowsOK
<1>7. IsFiniteSet(1 .. n) /\ Cardinality(1 .. n) = n
  <2>1. 1 \in Int /\ n \in Int /\ (1 > n => n = 0) /\ n - 1 + 1 = n
    BY <1>2
  <2> HIDE DEF n
  <2>2. QED
    BY <2>1, FS_Interval
<1> HIDE DEF S, n
<1>8. f \in [S -> 1 .. n] /\ \A c \in S : f[c] = c.index
  BY <1>3
<1> HIDE DEF f
<1>9. f \in Bijection(S, 1 .. n)
  BY <1>4, <1>5, <1>8 DEF Bijection, Injection, Surjection, IsInjective
<1>10. Cardinality(1 .. n) = Cardinality(S)
  BY <1>6, <1>9, FS_Bijection DEF ExistsBijection
<1>11. Cardinality(S) = n
  BY <1>7, <1>10
<1>12. \A i \in DOMAIN chunk(text) : \E c \in S : c.text = text /\ c.index = i
  BY DEF HasWhole, S
<1>13. QED
  BY <1>11, <1>12 DEF S, n, IsWhole

\* NoDuplicatesUnlessOverlap: while calls on a document do not overlap it holds no chunk
\* twice and chunks of one text only, through failures, restarts, retries and re-ingests.
THEOREM NothingStoredTwice == ContextSpec => []NoDuplicatesUnlessOverlap
<1>1. IngestInv => NoDuplicatesUnlessOverlap
  BY RowsDiffer DEF NoDuplicatesUnlessOverlap
<1>2. QED
  BY <1>1, IngestInvariant, PTL

\* EmbeddingsMatch: every row carries the embedding of its own content, in whatever order
\* the API answers and whatever it leaves out.
THEOREM EmbeddingsArePaired == ContextSpec => []EmbeddingsMatch
<1>1. IngestInv => EmbeddingsMatch
  BY DEF IngestInv, RowsOK, EmbeddingsMatch
<1>2. QED
  BY <1>1, IngestInvariant, PTL

\* What is settled on a document no call works on.
LEMMA AtRest ==
  ASSUME IngestInv, NEW doc \in Documents \ (overlapped \union interrupted), Active(doc) = {}
  PROVE  Rows(doc) = {} \/ \E text \in Texts : HasWhole(doc, text)
<1>1. SettledOK(doc)
  BY DEF IngestInv, DocOK
<1>2. QED
  BY <1>1 DEF SettledOK

\* WholeUnlessDisturbed: a document no call is working on, on which none was cut short or
\* overlapped another since its last undisturbed reingest(), is stored whole or not at all.
THEOREM DocumentsAreWhole == ContextSpec => []WholeUnlessDisturbed
<1>1. ASSUME IngestInv PROVE WholeUnlessDisturbed
  <2> SUFFICES ASSUME NEW doc \in Documents \ (overlapped \union interrupted), Active(doc) = {}
               PROVE  Rows(doc) = {} \/ IsWhole(Rows(doc))
    BY DEF WholeUnlessDisturbed
  <2>1. Rows(doc) = {} \/ \E text \in Texts : HasWhole(doc, text)
    BY <1>1, AtRest
  <2>2. \A text \in Texts : HasWhole(doc, text) => IsWhole(Rows(doc))
    BY <1>1, WholeCount
  <2>3. QED
    BY <2>1, <2>2
<1>2. QED
  BY <1>1, IngestInvariant, PTL

\* ShortWordsKept: in such a document every word that fits in the overlap is whole in the
\* content of one of the rows.
THEOREM WordsAreKept == ContextSpec => []ShortWordsKept
<1>1. ASSUME IngestInv PROVE ShortWordsKept
  <2> SUFFICES ASSUME NEW doc \in Documents \ (overlapped \union interrupted), Active(doc) = {},
                      NEW c \in Rows(doc), NEW word \in Words(c.text),
                      word.to - word.from <= OverlapChars
               PROVE  \E d \in Rows(doc) : Within(word, chunk(c.text)[d.index])
    BY DEF ShortWordsKept
  <2>1. PICK text \in Texts : HasWhole(doc, text)
    BY <1>1, AtRest
  <2>2. c.text = text
    BY <2>1 DEF HasWhole
  <2>3. c \in chunks /\ c.index \in DOMAIN chunk(text)
    BY <1>1, <2>2 DEF Rows, IngestInv, RowsOK
  <2>4. text # Blank
    <3>1. SUFFICES ASSUME text = Blank PROVE FALSE
      OBVIOUS
    <3>2. Kept(Blank) = {}
      BY ChunkSizes DEF Kept, Reached, Blank
    <3>3. Cardinality(Kept(Blank)) = 0
      BY <3>2, FS_EmptySet
    <3>4. chunk(Blank) = [k \in 1 .. 0 |-> Content(Blank, Nth(Kept(Blank), k))]
      BY <3>3 DEF chunk, Kept, Content
    <3>5. DOMAIN chunk(Blank) = {}
      BY <3>4
    <3>6. QED
      BY <2>3, <3>1, <3>5
  <2>5. Normalised(text)
    BY <2>4, TextType
  <2>6. PICK k \in DOMAIN chunk(text) : Within(word, chunk(text)[k])
    BY <2>2, <2>5, WordInChunk
  <2>7. PICK d \in Rows(doc) : d.index = k
    BY <2>1 DEF HasWhole
  <2>8. QED
    BY <2>2, <2>6, <2>7
<1>2. QED
  BY <1>1, IngestInvariant, PTL

WholeCounted ==
  \A doc \in Documents \ overlapped, text \in Texts :
    HasWhole(doc, text) => Cardinality(Rows(doc)) = Len(chunk(text))

\* ReturnsRowCount: the chunk count a call returns is the number of rows the document then
\* has, whether the call stored them or found them.
THEOREM CountsAreTrue == ContextSpec => ReturnsRowCount
<1>1. ASSUME IngestInv, WholeCounted', [ContextNext]_allVars,
             NEW w \in Workers, NEW doc \in Documents \ overlapped,
             job[w].doc = doc, job'[w].pc = "returned"
      PROVE  job'[w].ret = Cardinality(Rows(doc)')
  <2>0. "returned" \in Ended /\ "raised" # "returned" /\ "idle" # "returned"
        /\ NoDocument \notin Documents
    BY IngestAssumption DEF Ended
  <2>1. job[w].pc \notin Ended /\ job'[w] # job[w] /\ job[w].pc # "returned"
    BY <1>1, <2>0 DEF IngestInv, JobsOK, CallOK
  <2>2. job \in [Workers -> JobType]
    BY <1>1 DEF IngestInv, JobsOK
  <2>3. ~ UNCHANGED job
    BY <2>1
  <2>4. ~ Restart
    BY <1>1, <2>0, NoCall DEF Restart
  <2>5. PICK v \in Workers : Load(v)
    BY <1>1, <2>3, <2>4 DEF ContextNext, allVars, vars, DeleteFact, StoreFact, BeginBuild,
                            FetchMemory, FetchRag, FetchRaises, ContextRestart, Quiet
  <2>6. v = w
    <3>1. \A pc, d, t : Begin(v, pc, d, t) /\ v # w => job'[w] = job[w]
      BY <2>2 DEF Begin
    <3>2. (Delete(v) \/ Skip(v) \/ Proceed(v) \/ ParseRaises(v)) /\ v # w => job'[w] = job[w]
      BY <2>2 DEF Delete, Skip, Proceed, ParseRaises
    <3>3. (Embed(v) \/ Store(v) \/ Insert(v) \/ Fail(v)) /\ v # w => job'[w] = job[w]
      BY <2>2 DEF Embed, Store, Insert, Fail
    <3>4. QED
      BY <2>1, <2>5, <3>1, <3>2, <3>3 DEF Load, Step
  <2>7. CASE Skip(w)
    <3>1. job' = [job EXCEPT ![w] = Over("returned", Cardinality(Rows(doc)))] /\ chunks' = chunks
      BY <1>1, <2>7 DEF Skip
    <3>2. Rows(doc)' = Rows(doc)
      BY <3>1 DEF Rows
    <3>3. IsFiniteSet(Rows(doc))
      BY <1>1, FS_Subset DEF IngestInv, RowsOK, Rows
    <3>4. Cardinality(Rows(doc)) \in Nat
      BY <3>3, FS_CardinalityType
    <3>5. Over("returned", Cardinality(Rows(doc))).ret = Cardinality(Rows(doc))
      BY <2>0, <3>4, OverOK
    <3>6. QED
      BY <2>2, <3>1, <3>2, <3>5
  <2>8. CASE Insert(w)
    <3>1. PICK text \in Texts : text = job[w].text
      BY <1>1, <2>1 DEF IngestInv, JobsOK, CallOK
    <3> DEFINE n == Len(chunk(text))
    <3>2. job[w].next = n /\ job' = [job EXCEPT ![w] = Over("returned", n)]
      <4> DEFINE j == [job[w] EXCEPT !.next = @ + 1]
      <4>1. job' = [job EXCEPT ![w] = IF job[w].next = n THEN Over("returned", n) ELSE j]
        BY <2>8, <3>1 DEF Insert, Count
      <4>2. j.pc = job[w].pc
        BY <2>2 DEF JobType
      <4> HIDE DEF j, n
      <4>3. QED
        BY <1>1, <2>1, <2>2, <4>1, <4>2
    <3>3. n \in Nat /\ DOMAIN chunk(text) = 1 .. n
      BY ChunksAreWindows
    <3>4. Over("returned", n).ret = n
      BY <2>0, <3>3, OverOK
    <3>5. At(w, "insert") /\ chunks' = chunks \union {NextRow(w)} /\ overlapped' = overlapped
      BY <2>8 DEF Insert
    <3>6. /\ Rows(doc)' = Rows(doc) \union {NextRow(w)}
          /\ \A c \in Rows(doc)' : c.text = text
      BY <1>1, <3>1, <3>5, RowAdded
    <3>7. NextRow(w).index = n
      BY <1>1, <3>2, <3>5, NextRowOK
    <3>8. \A i \in 1 .. n - 1 : \E c \in Rows(doc) : c.index = i
      BY <1>1, <2>1, <3>2, <3>5, Alone DEF AloneOK, At
    <3> HIDE DEF n
    <3>9. \A i \in 1 .. n : i \in 1 .. n - 1 \/ i = n
      BY <3>3
    <3>10. \A i \in 1 .. n : \E c \in Rows(doc)' : c.index = i
      BY <3>6, <3>7, <3>8, <3>9
    <3>11. HasWhole(doc, text)'
      BY <3>3, <3>6, <3>10 DEF HasWhole
    <3>12. Cardinality(Rows(doc)') = n
      BY <1>1, <3>5, <3>11 DEF n, WholeCounted
    <3>13. QED
      BY <2>2, <3>2, <3>4, <3>12
  <2>9. QED
    <3>1. \A pc, d, t : ~ Begin(w, pc, d, t)
      BY <2>1 DEF Begin
    <3>2. Over("raised", 0).pc = "raised"
      BY OverOK DEF Ended
    <3>3. ~ Delete(w) /\ ~ Proceed(w)
      BY <1>1, <2>2 DEF Delete, Proceed, JobType
    <3>4. ~ ParseRaises(w) /\ ~ Fail(w)
      BY <1>1, <2>0, <2>2, <3>2 DEF ParseRaises, Fail
    <3>5. ~ Embed(w)
      <4>1. ASSUME Embed(w) PROVE FALSE
        <5>1. PICK gathered, next, pc :
                /\ job' = [job EXCEPT ![w].embeddings = gathered, ![w].next = next, ![w].pc = pc]
                /\ pc \in {"store", job[w].pc}
          BY <4>1 DEF Embed
        <5>2. job'[w].pc = pc
          BY <2>2, <5>1 DEF JobType
        <5>3. QED
          BY <1>1, <2>1, <5>1, <5>2
      <4>2. QED
        BY <4>1
    <3>6. ~ Store(w)
      BY <1>1, <2>0, <2>1, <2>2, <3>2 DEF Store, JobType
    <3>7. QED
      BY <2>5, <2>6, <2>7, <2>8, <3>1, <3>3, <3>4, <3>5, <3>6 DEF Load, Step
<1>2. IngestInv /\ WholeCounted' /\ [ContextNext]_allVars =>
        [\A w \in Workers, doc \in Documents \ overlapped :
           job[w].doc = doc /\ job'[w].pc = "returned" =>
             job'[w].ret = Cardinality(Rows(doc)')]_vars
  BY <1>1
<1>3. IngestInv => WholeCounted
  BY WholeCount DEF WholeCounted
<1>4. QED
  BY <1>2, <1>3, IngestInvariant, PTL DEF ContextSpec, ReturnsRowCount

-----------------------------------------------------------------------------
(* build() beside store() and delete()                                     *)

Fact == [id : FactIds, session : Sessions, version : 1 .. MaxCalls]

\* The row of a fact is the last one written under its id.
FactsOK ==
  /\ facts \subseteq Fact
  /\ \A f, g \in facts : f.id = g.id => f = g
  /\ last \in [FactIds -> 0 .. MaxCalls]
  /\ \A id \in FactIds : last[id] <= calls
  /\ \A f \in facts : f.version = last[f.id]

\* What a build has been told is as MemoriesAreCurrent wants it from the fetch on.
TellsCurrent(b) ==
  \A i \in DOMAIN b.memory :
    LET f == b.memory[i]
    IN  /\ f.version >= b.since[f.id]
        /\ b.request.session \in {f.session, AllSessions}
        /\ \A j \in DOMAIN b.memory : b.memory[j].id = f.id => j = i

BuildOK ==
  /\ build = [pc |-> build.pc, request |-> build.request, waiting |-> build.waiting,
              memory |-> build.memory, rag |-> build.rag, packed |-> build.packed,
              since |-> build.since]
  /\ build.pc \in {"idle", "gather", "built", "raised"}
  /\ build.waiting \subseteq {"memory", "rag"}
  /\ Building <=> build.waiting # {}
  /\ build.request \in Requests \union {NoRequest}
  /\ build.since \in [FactIds -> 0 .. MaxCalls]
  /\ Building => \A id \in FactIds : build.since[id] <= last[id]
  /\ "memory" \notin build.waiting => TellsCurrent(build)

BuildInv == calls \in 0 .. MaxCalls /\ FactsOK /\ BuildOK

\* The order of the facts found is one without repetition.
LEMMA NearestFacts ==
  ASSUME NEW S, NEW k, NEW found \in Nearest(S, k)
  PROVE  /\ \A i \in DOMAIN found : found[i] \in S
         /\ \A i, j \in DOMAIN found : found[i] = found[j] => i = j
<1>1. PICK T \in SUBSET S : found \in SetToSeqs(T)
  BY DEF Nearest, kSubset
<1>2. found \in [1 .. Cardinality(T) -> T]
  BY <1>1 DEF SetToSeqs
<1>3. \A i, j \in 1 .. Cardinality(T) : i # j => found[i] # found[j]
  BY <1>1 DEF SetToSeqs
<1>4. QED
  BY <1>2, <1>3

\* When the last answer is there, the build packs and is over; what it was told stays.
LEMMA FetchedFields ==
  ASSUME NEW b, b = [pc |-> b.pc, request |-> b.request, waiting |-> b.waiting,
                     memory |-> b.memory, rag |-> b.rag, packed |-> b.packed,
                     since |-> b.since]
  PROVE  LET c == Fetched(b)
         IN  /\ c = [pc |-> c.pc, request |-> c.request, waiting |-> c.waiting,
                     memory |-> c.memory, rag |-> c.rag, packed |-> c.packed,
                     since |-> c.since]
             /\ c.pc = IF b.waiting # {} THEN b.pc ELSE "built"
             /\ c.request = b.request /\ c.waiting = b.waiting
             /\ c.memory = b.memory /\ c.since = b.since /\ c.rag = b.rag
             /\ c.packed = IF b.waiting # {} THEN b.packed ELSE pack(Buckets(b))
<1>1. CASE b.waiting # {}
  <2>1. Fetched(b) = b
    BY <1>1 DEF Fetched
  <2>2. QED
    BY <1>1, <2>1
<1>2. CASE b.waiting = {}
  <2> DEFINE p == pack(Buckets(b))
  <2>1. Fetched(b) = [b EXCEPT !.pc = "built", !.packed = p]
    BY <1>2 DEF Fetched
  <2> HIDE DEF p
  <2>2. Fetched(b) = [pc |-> "built", request |-> b.request, waiting |-> b.waiting,
                      memory |-> b.memory, rag |-> b.rag, packed |-> p, since |-> b.since]
    BY <2>1
  <2>3. p = pack(Buckets(b))
    BY DEF p
  <2>4. QED
    BY <1>2, <2>2, <2>3
<1>3. QED
  BY <1>1, <1>2

LEMMA AnswerTaken ==
  ASSUME NEW b, b = [pc |-> b.pc, request |-> b.request, waiting |-> b.waiting,
                     memory |-> b.memory, rag |-> b.rag, packed |-> b.packed,
                     since |-> b.since],
         NEW found
  PROVE  /\ [b EXCEPT !.memory = found, !.waiting = @ \ {"memory"}] =
              [pc |-> b.pc, request |-> b.request, waiting |-> b.waiting \ {"memory"},
               memory |-> found, rag |-> b.rag, packed |-> b.packed, since |-> b.since]
         /\ [b EXCEPT !.rag = found, !.waiting = @ \ {"rag"}] =
              [pc |-> b.pc, request |-> b.request, waiting |-> b.waiting \ {"rag"},
               memory |-> b.memory, rag |-> found, packed |-> b.packed, since |-> b.since]
<1>1. ASSUME NEW w
      PROVE  [b EXCEPT !.memory = found, !.waiting = w] =
               [pc |-> b.pc, request |-> b.request, waiting |-> w,
                memory |-> found, rag |-> b.rag, packed |-> b.packed, since |-> b.since]
  <2> DEFINE c == [b EXCEPT !.memory = found]
  <2>1. c = [pc |-> b.pc, request |-> b.request, waiting |-> b.waiting,
            memory |-> found, rag |-> b.rag, packed |-> b.packed, since |-> b.since]
    OBVIOUS
  <2>2. [b EXCEPT !.memory = found, !.waiting = w] = [c EXCEPT !.waiting = w]
    OBVIOUS
  <2> HIDE DEF c
  <2>3. [c EXCEPT !.waiting = w] =
          [pc |-> b.pc, request |-> b.request, waiting |-> w,
           memory |-> found, rag |-> b.rag, packed |-> b.packed, since |-> b.since]
    BY <2>1
  <2>4. QED
    BY <2>2, <2>3
<1>2. ASSUME NEW w
      PROVE  [b EXCEPT !.rag = found, !.waiting = w] =
               [pc |-> b.pc, request |-> b.request, waiting |-> w,
                memory |-> b.memory, rag |-> found, packed |-> b.packed, since |-> b.since]
  <2> DEFINE c == [b EXCEPT !.rag = found]
  <2>1. c = [pc |-> b.pc, request |-> b.request, waiting |-> b.waiting,
            memory |-> b.memory, rag |-> found, packed |-> b.packed, since |-> b.since]
    OBVIOUS
  <2>2. [b EXCEPT !.rag = found, !.waiting = w] = [c EXCEPT !.waiting = w]
    OBVIOUS
  <2> HIDE DEF c
  <2>3. [c EXCEPT !.waiting = w] =
          [pc |-> b.pc, request |-> b.request, waiting |-> w,
           memory |-> b.memory, rag |-> found, packed |-> b.packed, since |-> b.since]
    BY <2>1
  <2>4. QED
    BY <2>2, <2>3
<1>3. QED
  BY <1>1, <1>2

LEMMA EndFields ==
  ASSUME NEW b, NEW pc, NEW since,
         b = [pc |-> pc, request |-> NoRequest, waiting |-> {}, memory |-> << >>,
              rag |-> << >>, packed |-> NothingPacked, since |-> since]
  PROVE  /\ b = [pc |-> b.pc, request |-> b.request, waiting |-> b.waiting,
                 memory |-> b.memory, rag |-> b.rag, packed |-> b.packed,
                 since |-> b.since]
         /\ b.pc = pc /\ b.request = NoRequest /\ b.waiting = {}
         /\ b.memory = << >> /\ b.since = since /\ b.rag = << >> /\ b.packed = NothingPacked
  OBVIOUS

LEMMA EndedWith ==
  ASSUME NEW b, NEW old, NEW pc, NEW request, NEW waiting, NEW memory, NEW rag, NEW packed,
         NEW since,
         b = [pc |-> old, request |-> request, waiting |-> waiting, memory |-> memory,
              rag |-> rag, packed |-> packed, since |-> since]
  PROVE  [b EXCEPT !.pc = pc] =
           [pc |-> pc, request |-> request, waiting |-> waiting, memory |-> memory,
            rag |-> rag, packed |-> packed, since |-> since]
  OBVIOUS

LEMMA NoBuildFields ==
  /\ NoBuild = [pc |-> "idle", request |-> NoRequest, waiting |-> {}, memory |-> << >>,
                rag |-> << >>, packed |-> NothingPacked, since |-> [id \in FactIds |-> 0]]
  /\ TellsCurrent(NoBuild)
  BY DEF NoBuild, TellsCurrent

LEMMA BuildStarts == ASSUME ContextInit PROVE BuildInv
<1>1. build = NoBuild /\ facts = {} /\ last = [id \in FactIds |-> 0] /\ calls = 0
  BY DEF ContextInit, Init
<1>2. FactsOK /\ calls \in 0 .. MaxCalls
  BY <1>1, IngestAssumption DEF FactsOK
<1>3. BuildOK
  BY <1>1, NoBuildFields, IngestAssumption DEF BuildOK, Building
<1>4. QED
  BY <1>2, <1>3 DEF BuildInv

\* A call that begins elsewhere.
LEMMA BuildUntouched ==
  ASSUME BuildInv, calls' \in calls .. MaxCalls, facts' = facts, last' = last, build' = build
  PROVE  BuildInv'
<1>1. calls' \in 0 .. MaxCalls /\ calls <= calls' /\ calls' \in Int /\ calls \in Int
  BY DEF BuildInv
<1>2. FactsOK'
  <2>1. \A id \in FactIds : last[id] \in Int
    BY DEF BuildInv, FactsOK
  <2>2. QED
    BY <1>1, <2>1 DEF BuildInv, FactsOK
<1>3. BuildOK'
  BY DEF BuildInv, BuildOK, Building, TellsCurrent
<1>4. QED
  BY <1>1, <1>2, <1>3 DEF BuildInv

\* A call that writes or deletes fact "id".
LEMMA FactChanges ==
  ASSUME BuildInv, calls < MaxCalls, calls' = calls + 1, NEW id \in FactIds,
         last' = [last EXCEPT ![id] = calls + 1], build' = build,
         facts' \subseteq Fact,
         \A f \in facts' : IF f.id = id THEN f.version = calls + 1 ELSE f \in facts,
         \A f, g \in facts' : f.id = id /\ g.id = id => f = g
  PROVE  BuildInv'
<1>1. /\ calls \in 0 .. MaxCalls /\ calls' \in 0 .. MaxCalls
      /\ last \in [FactIds -> 0 .. MaxCalls] /\ last' \in [FactIds -> 0 .. MaxCalls]
      /\ last'[id] = calls + 1 /\ \A other \in FactIds \ {id} : last'[other] = last[other]
      /\ \A other \in FactIds : last[other] <= calls
  BY IngestAssumption DEF BuildInv, FactsOK
<1>2. FactsOK'
  <2>1. \A f, g \in facts' : f.id = g.id => f = g
    BY DEF BuildInv, FactsOK
  <2>2. \A other \in FactIds : last'[other] <= calls'
    BY <1>1
  <2>3. \A f \in facts' : f.version = last'[f.id]
    BY <1>1 DEF BuildInv, FactsOK, Fact
  <2>4. QED
    BY <1>1, <2>1, <2>2, <2>3 DEF FactsOK
<1>3. \A other \in FactIds : last[other] <= last'[other]
  BY <1>1
<1>4. Building' => \A other \in FactIds : build'.since[other] <= last'[other]
  <2>1. ASSUME Building, NEW other \in FactIds PROVE build.since[other] <= last'[other]
    <3>1. build.since[other] <= last[other] /\ build.since[other] \in Int
      BY <2>1 DEF BuildInv, BuildOK
    <3>2. last[other] \in Int /\ last'[other] \in Int /\ last[other] <= last'[other]
      BY <1>1, <1>3
    <3>3. QED
      BY <3>1, <3>2
  <2>2. QED
    BY <2>1 DEF Building
<1>5. BuildOK'
  BY <1>4 DEF BuildInv, BuildOK, Building, TellsCurrent
<1>6. QED
  BY <1>1, <1>2, <1>5 DEF BuildInv

LEMMA StoreFactStep ==
  ASSUME BuildInv, NEW id \in FactIds, NEW session \in Sessions, StoreFact(id, session)
  PROVE  BuildInv'
<1>1. /\ calls < MaxCalls /\ calls' = calls + 1 /\ facts' = upsert(id, session, calls + 1)
      /\ last' = [last EXCEPT ![id] = calls + 1] /\ build' = build
  BY DEF StoreFact
<1>2. calls + 1 \in 1 .. MaxCalls
  BY <1>1, IngestAssumption DEF BuildInv
<1>3. facts \subseteq Fact /\ \A f, g \in facts : f.id = g.id => f = g
  BY DEF BuildInv, FactsOK
<1> DEFINE written(f) == [f EXCEPT !.version = calls + 1]
           new == [id |-> id, session |-> session, version |-> calls + 1]
<1>4. new \in Fact /\ new.id = id /\ new.version = calls + 1
  BY <1>2 DEF Fact
<1>5. \A f \in Fact : written(f) \in Fact /\ written(f).id = f.id
                      /\ written(f).version = calls + 1
  BY <1>2 DEF Fact
<1>6. CASE \E f \in facts : f.id = id
  <2>1. facts' = {IF f.id = id THEN written(f) ELSE f : f \in facts}
    BY <1>1, <1>6 DEF upsert
  <2> HIDE DEF written
  <2>2. facts' \subseteq Fact
    BY <1>3, <1>5, <2>1
  <2>3. \A f \in facts' : IF f.id = id THEN f.version = calls + 1 ELSE f \in facts
    BY <1>3, <1>5, <2>1
  <2>4. \A f, g \in facts' : f.id = id /\ g.id = id => f = g
    <3>1. \A f \in facts' : f.id = id => \E e \in facts : e.id = id /\ f = written(e)
      BY <1>3, <1>5, <2>1
    <3>2. QED
      BY <1>3, <3>1
  <2>5. QED
    BY <1>1, <2>2, <2>3, <2>4, FactChanges
<1>7. CASE ~ \E f \in facts : f.id = id
  <2>1. facts' = facts \union {new}
    BY <1>1, <1>7 DEF upsert
  <2> HIDE DEF new
  <2>2. facts' \subseteq Fact
    BY <1>3, <1>4, <2>1
  <2>3. \A f \in facts' : IF f.id = id THEN f.version = calls + 1 ELSE f \in facts
    BY <1>4, <1>7, <2>1
  <2>4. \A f, g \in facts' : f.id = id /\ g.id = id => f = g
    BY <1>7, <2>1
  <2>5. QED
    BY <1>1, <2>2, <2>3, <2>4, FactChanges
<1>8. QED
  BY <1>6, <1>7

LEMMA DeleteFactStep ==
  ASSUME BuildInv, NEW id \in FactIds, DeleteFact(id)
  PROVE  BuildInv'
<1>1. /\ calls < MaxCalls /\ calls' = calls + 1 /\ facts' = {f \in facts : f.id # id}
      /\ last' = [last EXCEPT ![id] = calls + 1] /\ build' = build
  BY DEF DeleteFact
<1>2. facts' \subseteq Fact
  BY <1>1 DEF BuildInv, FactsOK
<1>3. QED
  BY <1>1, <1>2, FactChanges

LEMMA BeginBuildStep ==
  ASSUME BuildInv, NEW request \in Requests, BeginBuild(request)
  PROVE  BuildInv'
<1>1. /\ calls < MaxCalls /\ calls' = calls + 1 /\ facts' = facts /\ last' = last
      /\ build' = [NoBuild EXCEPT !.pc = "gather", !.request = request,
                                  !.waiting = {"memory", "rag"}, !.since = last]
  BY DEF BeginBuild
<1>2. build' = [pc |-> "gather", request |-> request, waiting |-> {"memory", "rag"},
                memory |-> << >>, rag |-> << >>, packed |-> NothingPacked, since |-> last]
  BY <1>1, NoBuildFields
<1>3. /\ calls \in 0 .. MaxCalls /\ calls' \in 0 .. MaxCalls
      /\ last \in [FactIds -> 0 .. MaxCalls] /\ \A id \in FactIds : last[id] <= calls
  BY <1>1, IngestAssumption DEF BuildInv, FactsOK
<1>4. FactsOK'
  BY <1>1, <1>3 DEF BuildInv, FactsOK
<1>5. /\ build' = [pc |-> build'.pc, request |-> build'.request, waiting |-> build'.waiting,
                   memory |-> build'.memory, rag |-> build'.rag, packed |-> build'.packed,
                   since |-> build'.since]
      /\ build'.pc = "gather" /\ build'.request = request
      /\ build'.waiting = {"memory", "rag"} /\ build'.since = last
  BY <1>2
<1>6. \A id \in FactIds : last[id] <= last[id]
  BY <1>3
<1>7. BuildOK'
  BY <1>1, <1>3, <1>5, <1>6 DEF BuildOK, Building
<1>8. QED
  BY <1>3, <1>4, <1>7 DEF BuildInv

LEMMA FetchMemoryStep ==
  ASSUME BuildInv, FetchMemory
  PROVE  BuildInv'
<1>1. PICK found \in memory_search(build.request.session) :
        build' = Fetched([build EXCEPT !.memory = found, !.waiting = @ \ {"memory"}])
  BY DEF FetchMemory
<1>2. /\ "memory" \in build.waiting /\ facts' = facts /\ last' = last /\ calls' = calls
  BY DEF FetchMemory, vars
<1>3. Building /\ build.pc = "gather"
  BY <1>2 DEF BuildInv, BuildOK, Building
<1> DEFINE b == [pc |-> build.pc, request |-> build.request,
                 waiting |-> build.waiting \ {"memory"}, memory |-> found, rag |-> build.rag,
                 packed |-> build.packed, since |-> build.since]
<1>4. build' = Fetched(b)
  <2>1. [build EXCEPT !.memory = found, !.waiting = @ \ {"memory"}] = b
    BY AnswerTaken DEF BuildInv, BuildOK
  <2>2. QED
    BY <1>1, <2>1
<1>5. /\ build' = [pc |-> build'.pc, request |-> build'.request, waiting |-> build'.waiting,
                   memory |-> build'.memory, rag |-> build'.rag, packed |-> build'.packed,
                   since |-> build'.since]
      /\ build'.pc = IF build.waiting \ {"memory"} # {} THEN "gather" ELSE "built"
      /\ build'.request = build.request /\ build'.waiting = build.waiting \ {"memory"}
      /\ build'.memory = found /\ build'.since = build.since
  <2>1. b = [pc |-> b.pc, request |-> b.request, waiting |-> b.waiting, memory |-> b.memory,
             rag |-> b.rag, packed |-> b.packed, since |-> b.since]
    OBVIOUS
  <2>2. /\ b.pc = "gather" /\ b.request = build.request
        /\ b.waiting = build.waiting \ {"memory"} /\ b.memory = found /\ b.since = build.since
    BY <1>3
  <2> HIDE DEF b
  <2>3. QED
    BY <1>4, <2>1, <2>2, FetchedFields
<1>6. /\ \A i \in DOMAIN found :
           /\ found[i] \in facts
           /\ build.request.session \in {found[i].session, AllSessions}
      /\ \A i, j \in DOMAIN found : found[i] = found[j] => i = j
  <2> DEFINE S == IF build.request.session = AllSessions THEN facts
                  ELSE {f \in facts : f.session = build.request.session}
  <2>1. found \in Nearest(S, Limit)
    BY DEF memory_search
  <2>2. \A f \in S : f \in facts /\ build.request.session \in {f.session, AllSessions}
    OBVIOUS
  <2> HIDE DEF S
  <2>3. QED
    BY <2>1, <2>2, NearestFacts
<1>7. TellsCurrent(build)'
  <2> SUFFICES ASSUME NEW i \in DOMAIN found
               PROVE  /\ found[i].version >= build.since[found[i].id]
                      /\ build.request.session \in {found[i].session, AllSessions}
                      /\ \A j \in DOMAIN found : found[j].id = found[i].id => j = i
    BY <1>5 DEF TellsCurrent
  <2>1. found[i] \in facts /\ found[i].id \in FactIds
    BY <1>6 DEF BuildInv, FactsOK, Fact
  <2>2. found[i].version = last[found[i].id]
    BY <2>1 DEF BuildInv, FactsOK
  <2>3. build.since[found[i].id] <= last[found[i].id]
    BY <1>3, <2>1 DEF BuildInv, BuildOK
  <2>4. last[found[i].id] \in Int /\ build.since[found[i].id] \in Int
    BY <2>1 DEF BuildInv, BuildOK, FactsOK
  <2>5. \A j \in DOMAIN found : found[j].id = found[i].id => j = i
    BY <1>6 DEF BuildInv, FactsOK
  <2>6. QED
    BY <1>6, <2>2, <2>3, <2>4, <2>5
<1>8. BuildOK'
  BY <1>2, <1>3, <1>5, <1>7 DEF BuildInv, BuildOK, Building
<1>9. FactsOK' /\ calls' \in 0 .. MaxCalls
  BY <1>2 DEF BuildInv, FactsOK
<1>10. QED
  BY <1>8, <1>9 DEF BuildInv

LEMMA FetchRagStep ==
  ASSUME BuildInv, FetchRag
  PROVE  BuildInv'
<1>1. PICK found : build' = Fetched([build EXCEPT !.rag = found, !.waiting = @ \ {"rag"}])
  BY DEF FetchRag
<1>2. /\ "rag" \in build.waiting /\ facts' = facts /\ last' = last /\ calls' = calls
  BY DEF FetchRag, vars
<1>3. Building /\ build.pc = "gather"
  BY <1>2 DEF BuildInv, BuildOK, Building
<1> DEFINE b == [pc |-> build.pc, request |-> build.request,
                 waiting |-> build.waiting \ {"rag"}, memory |-> build.memory, rag |-> found,
                 packed |-> build.packed, since |-> build.since]
<1>4. build' = Fetched(b)
  <2>1. [build EXCEPT !.rag = found, !.waiting = @ \ {"rag"}] = b
    BY AnswerTaken DEF BuildInv, BuildOK
  <2>2. QED
    BY <1>1, <2>1
<1>5. /\ build' = [pc |-> build'.pc, request |-> build'.request, waiting |-> build'.waiting,
                   memory |-> build'.memory, rag |-> build'.rag, packed |-> build'.packed,
                   since |-> build'.since]
      /\ build'.pc = IF build.waiting \ {"rag"} # {} THEN "gather" ELSE "built"
      /\ build'.request = build.request /\ build'.waiting = build.waiting \ {"rag"}
      /\ build'.memory = build.memory /\ build'.since = build.since
  <2>1. b = [pc |-> b.pc, request |-> b.request, waiting |-> b.waiting, memory |-> b.memory,
             rag |-> b.rag, packed |-> b.packed, since |-> b.since]
    OBVIOUS
  <2>2. /\ b.pc = "gather" /\ b.request = build.request
        /\ b.waiting = build.waiting \ {"rag"} /\ b.memory = build.memory
        /\ b.since = build.since
    BY <1>3
  <2> HIDE DEF b
  <2>3. QED
    BY <1>4, <2>1, <2>2, FetchedFields
<1>6. TellsCurrent(build) => TellsCurrent(build)'
  BY <1>5 DEF TellsCurrent
<1>7. BuildOK'
  BY <1>2, <1>3, <1>5, <1>6 DEF BuildInv, BuildOK, Building
<1>8. FactsOK' /\ calls' \in 0 .. MaxCalls
  BY <1>2 DEF BuildInv, FactsOK
<1>9. QED
  BY <1>7, <1>8 DEF BuildInv

\* A build that is given up has been told nothing.
LEMMA BuildEnds ==
  ASSUME BuildInv, NEW b, NEW pc \in {"idle", "raised"}, NEW zero,
         zero = [id \in FactIds |-> 0],
         b = [pc |-> pc, request |-> NoRequest, waiting |-> {}, memory |-> << >>,
              rag |-> << >>, packed |-> NothingPacked, since |-> zero],
         build' = b, facts' = facts, last' = last, calls' = calls
  PROVE  BuildInv'
<1>1. /\ b = [pc |-> b.pc, request |-> b.request, waiting |-> b.waiting,
              memory |-> b.memory, rag |-> b.rag, packed |-> b.packed, since |-> b.since]
      /\ b.pc = pc /\ b.request = NoRequest /\ b.waiting = {}
      /\ b.memory = << >> /\ b.since = zero
  BY EndFields
<1>2. zero \in [FactIds -> 0 .. MaxCalls]
  BY IngestAssumption
<1>3. BuildOK'
  BY <1>1, <1>2 DEF BuildOK, Building, TellsCurrent
<1>4. FactsOK' /\ calls' \in 0 .. MaxCalls
  BY DEF BuildInv, FactsOK
<1>5. QED
  BY <1>3, <1>4 DEF BuildInv

LEMMA NoBuildAt ==
  ASSUME NEW pc, NEW zero, zero = [id \in FactIds |-> 0]
  PROVE  /\ NoBuild = [pc |-> "idle", request |-> NoRequest, waiting |-> {}, memory |-> << >>,
                       rag |-> << >>, packed |-> NothingPacked, since |-> zero]
         /\ [NoBuild EXCEPT !.pc = pc] =
              [pc |-> pc, request |-> NoRequest, waiting |-> {}, memory |-> << >>,
               rag |-> << >>, packed |-> NothingPacked, since |-> zero]
<1> DEFINE none == {}
           empty == << >>
<1>1. NoBuild = [pc |-> "idle", request |-> NoRequest, waiting |-> none, memory |-> empty,
                 rag |-> empty, packed |-> NothingPacked, since |-> zero]
  BY NoBuildFields
<1> HIDE DEF none, empty
<1>2. [NoBuild EXCEPT !.pc = pc] =
        [pc |-> pc, request |-> NoRequest, waiting |-> none, memory |-> empty,
         rag |-> empty, packed |-> NothingPacked, since |-> zero]
  <2> DEFINE idle == "idle"
  <2>1. NoBuild = [pc |-> idle, request |-> NoRequest, waiting |-> none, memory |-> empty,
                   rag |-> empty, packed |-> NothingPacked, since |-> zero]
    BY <1>1
  <2> HIDE DEF idle
  <2>2. QED
    BY <2>1, EndedWith
<1>3. QED
  BY <1>1, <1>2 DEF none, empty

LEMMA BuildKept == ASSUME BuildInv, [ContextNext]_allVars PROVE BuildInv'
<1>0. calls \in calls .. MaxCalls /\ (calls < MaxCalls => calls + 1 \in calls .. MaxCalls)
  BY IngestAssumption DEF BuildInv
<1>1. ASSUME NEW w \in Workers, Load(w) PROVE BuildInv'
  <2>1. facts' = facts /\ last' = last /\ build' = build
    BY <1>1 DEF Load, contextVars
  <2>2. calls' = calls \/ (calls < MaxCalls /\ calls' = calls + 1)
    BY <1>1 DEF Load, Begin, Step, Delete, Skip, Proceed, ParseRaises, Embed, Store, Insert, Fail
  <2>3. QED
    BY <1>0, <2>1, <2>2, BuildUntouched
<1>2. ASSUME NEW id \in FactIds, DeleteFact(id) \/ \E session \in Sessions : StoreFact(id, session)
      PROVE  BuildInv'
  BY <1>2, DeleteFactStep, StoreFactStep
<1>3. ASSUME NEW request \in Requests, BeginBuild(request) PROVE BuildInv'
  BY <1>3, BeginBuildStep
<1>4. CASE FetchMemory
  BY <1>4, FetchMemoryStep
<1>5. CASE FetchRag
  BY <1>5, FetchRagStep
<1>6. CASE FetchRaises \/ ContextRestart
  <2> DEFINE zero == [id \in FactIds |-> 0]
  <2>1. facts' = facts /\ last' = last /\ calls' = calls
    BY <1>6 DEF FetchRaises, ContextRestart, Restart, vars
  <2>2. \/ build' = [NoBuild EXCEPT !.pc = "raised"]
        \/ build' = NoBuild
    BY <1>6 DEF FetchRaises, ContextRestart
  <2>3. zero = [id \in FactIds |-> 0]
    OBVIOUS
  <2> HIDE DEF zero
  <2>4. PICK pc \in {"idle", "raised"} :
          build' = [pc |-> pc, request |-> NoRequest, waiting |-> {}, memory |-> << >>,
                    rag |-> << >>, packed |-> NothingPacked, since |-> zero]
    BY <2>2, <2>3, NoBuildAt
  <2>5. QED
    BY <2>1, <2>3, <2>4, BuildEnds
<1>8. CASE UNCHANGED allVars
  BY <1>0, <1>8, BuildUntouched DEF allVars, vars, contextVars
<1>9. CASE Quiet /\ UNCHANGED contextVars
  BY <1>8, <1>9 DEF Quiet, allVars
<1>10. QED
  BY <1>1, <1>2, <1>3, <1>4, <1>5, <1>6, <1>8, <1>9 DEF ContextNext

THEOREM BuildInvariant == ContextSpec => []BuildInv
<1>1. BuildInv /\ [ContextNext]_allVars => BuildInv'
  BY BuildKept
<1>2. QED
  BY <1>1, BuildStarts, PTL DEF ContextSpec

\* MemoriesAreCurrent: a fact told in a prompt is at least as new as the last store() or
\* delete() of it that had finished when the build began, is told once and belongs to the
\* prompt's session.
THEOREM MemoriesAreNew == ContextSpec => []MemoriesAreCurrent
<1>1. BuildInv => MemoriesAreCurrent
  BY DEF BuildInv, BuildOK, Building, TellsCurrent, MemoriesAreCurrent
<1>2. QED
  BY <1>1, BuildInvariant, PTL

-----------------------------------------------------------------------------
(* What build() packs                                                      *)

Names == {"system", "conversation", "memory", "rag", "tools"}

Item == [bucket : Names, place : Nat, token_count : Nat]

Bundle == [items : Seq(Item), total_tokens : 0 .. TotalBudget, dropped_buckets : Seq(Names)]

\* The limits of the buckets add up to a number.
LEMMA BudgetType == TotalBudget \in Nat
<1> DEFINE total == {i \in DOMAIN Allocations : Allocations[i].bucket = "total"}
           limits == [i \in DOMAIN Allocations |-> Allocations[i].tokens]
<1>1. \A i \in DOMAIN Allocations : Allocations[i].tokens \in Nat
  <2> DEFINE R == [bucket : STRING, tokens : Nat]
  <2>1. \A e \in R : e.tokens \in Nat
    OBVIOUS
  <2>2. Allocations \in Seq(R)
    BY ContextAssumption
  <2> HIDE DEF R
  <2>3. QED
    BY <2>1, <2>2
<1>2. limits \in Seq(Nat)
  <2>1. Len(Allocations) \in Nat /\ DOMAIN Allocations = 1 .. Len(Allocations)
    BY ContextAssumption
  <2>2. limits \in [1 .. Len(Allocations) -> Nat]
    BY <1>1, <2>1
  <2> HIDE DEF limits
  <2>3. QED
    BY <2>1, <2>2
<1>3. Summed(limits) \in Nat
  <2>1. PICK f : Sums(f, limits) /\ Summed(limits) = f[Len(limits)]
    BY <1>2, SummedSteps
  <2>2. Len(limits) \in 0 .. Len(limits)
    BY <1>2
  <2> HIDE DEF limits
  <2>3. QED
    BY <2>1, <2>2 DEF Sums
<1>4. CASE total = {}
  BY <1>3, <1>4 DEF TotalBudget
<1>5. CASE total # {}
  <2>1. TotalBudget = Allocations[CHOOSE i \in total : TRUE].tokens
    BY <1>5 DEF TotalBudget
  <2>2. (CHOOSE i \in total : TRUE) \in DOMAIN Allocations
    BY <1>5
  <2> HIDE DEF total
  <2>3. QED
    BY <1>1, <2>1, <2>2
<1>6. QED
  BY <1>4, <1>5

\* An item is taken when it fits, and only then.
LEMMA TakeKeeps ==
  ASSUME NEW packed \in Bundle, NEW item \in Item
  PROVE  LET next == Take(packed, item)
         IN  /\ next \in Bundle
             /\ packed.total_tokens + item.token_count <= TotalBudget =>
                  /\ next.items = Append(packed.items, item)
                  /\ next.total_tokens = packed.total_tokens + item.token_count
             /\ ~ (packed.total_tokens + item.token_count <= TotalBudget) =>
                  next.items = packed.items /\ next.total_tokens = packed.total_tokens
<1>1. /\ packed.total_tokens \in 0 .. TotalBudget /\ item.token_count \in Nat
      /\ packed.items \in Seq(Item) /\ packed.dropped_buckets \in Seq(Names)
      /\ item.bucket \in Names /\ TotalBudget \in Nat
  BY BudgetType DEF Bundle, Item
<1>2. CASE packed.total_tokens + item.token_count <= TotalBudget
  <2> DEFINE kept == Append(packed.items, item)
             sum == packed.total_tokens + item.token_count
             next == [packed EXCEPT !.items = kept, !.total_tokens = sum]
  <2>1. Take(packed, item) = next
    BY <1>2 DEF Take
  <2>2. kept \in Seq(Item) /\ sum \in 0 .. TotalBudget
    BY <1>1, <1>2
  <2> HIDE DEF kept, sum
  <2>3. next = [items |-> kept, total_tokens |-> sum, dropped_buckets |-> packed.dropped_buckets]
    <3> DEFINE half == [packed EXCEPT !.items = kept]
    <3>1. half = [items |-> kept, total_tokens |-> packed.total_tokens,
                  dropped_buckets |-> packed.dropped_buckets]
      BY DEF Bundle
    <3>2. next = [half EXCEPT !.total_tokens = sum]
      BY DEF Bundle
    <3> HIDE DEF half
    <3>3. QED
      BY <3>1, <3>2
  <2> HIDE DEF next
  <2>4. next \in Bundle /\ next.items = kept /\ next.total_tokens = sum
    BY <1>1, <2>2, <2>3 DEF Bundle
  <2>5. QED
    BY <1>2, <2>1, <2>4 DEF kept, sum
<1>3. CASE ~ (packed.total_tokens + item.token_count <= TotalBudget)
  <2> DEFINE dropped == Append(packed.dropped_buckets, item.bucket)
             next == [packed EXCEPT !.dropped_buckets = dropped]
  <2>1. Take(packed, item) = next
    BY <1>3 DEF Take
  <2>2. dropped \in Seq(Names)
    BY <1>1
  <2> HIDE DEF dropped
  <2>3. next \in Bundle /\ next.items = packed.items /\ next.total_tokens = packed.total_tokens
    BY <2>2 DEF Bundle
  <2> HIDE DEF next
  <2>4. QED
    BY <1>3, <2>1, <2>3
<1>4. QED
  BY <1>2, <1>3

\* The bundles pack() makes on its way through the items.
Packing(f, order) ==
  /\ f \in [0 .. Len(order) -> Bundle]
  /\ f[0] = NothingPacked
  /\ \A i \in 1 .. Len(order) : f[i] = Take(f[i - 1], order[i])

LEMMA EmptyBundle ==
  NothingPacked \in Bundle /\ NothingPacked.items = << >> /\ NothingPacked.total_tokens = 0
  BY BudgetType DEF Bundle, NothingPacked

LEMMA PackSteps ==
  ASSUME NEW buckets, InOrder(buckets) \in Seq(Item)
  PROVE  \E f : Packing(f, InOrder(buckets)) /\ pack(buckets) = f[Len(InOrder(buckets))]
<1> DEFINE order == InOrder(buckets)
           n == Len(order)
           t == [i \in 1 .. n |-> [b \in Bundle |-> Take(b, order[i])]]
           Fixed(h) == h = [i \in 0 .. n |->
                              IF i = 0 THEN NothingPacked ELSE Take(h[i - 1], order[i])]
<1>0. pack(buckets) = (CHOOSE h : Fixed(h))[n]
  BY DEF pack
<1>1. n \in Nat /\ \A i \in 1 .. n : order[i] \in Item
  <2> HIDE DEF order
  <2>1. order \in Seq(Item)
    BY DEF order
  <2>2. QED
    BY <2>1
<1> HIDE DEF order
<1>2. \A i \in 1 .. n : \A b \in Bundle : Take(b, order[i]) \in Bundle
  BY <1>1, TakeKeeps
<1>3. PICK f \in [0 .. n -> Bundle] : Unfolds(f, n, NothingPacked, t)
  <2>1. t \in [1 .. n -> [Bundle -> Bundle]]
    BY <1>2
  <2> HIDE DEF t, n
  <2>2. QED
    BY <1>1, <2>1, EmptyBundle, UnfoldExists
<1> HIDE DEF n
<1>4. Fixed(f)
  <2>1. \A i \in 1 .. n : f[i] = t[i][f[i - 1]]
    <3> HIDE DEF t
    <3>1. QED
      BY <1>3 DEF Unfolds
  <2>2. \A i \in 1 .. n : f[i - 1] \in Bundle
    BY <1>1, <1>3
  <2>3. \A i \in 1 .. n : f[i] = Take(f[i - 1], order[i])
    BY <2>1, <2>2
  <2>4. f[0] = NothingPacked /\ f = [i \in 0 .. n |-> f[i]] /\ \A i \in 0 .. n : i = 0 \/ i \in 1 .. n
    <3> HIDE DEF t
    <3>1. QED
      BY <1>1, <1>3 DEF Unfolds
  <2> HIDE DEF t
  <2>5. QED
    BY <2>3, <2>4
<1>5. PICK h : h = CHOOSE g : Fixed(g)
  OBVIOUS
<1>6. Fixed(h)
  <2> HIDE DEF Fixed
  <2>1. QED
    BY <1>4, <1>5
<1>7. pack(buckets) = h[n]
  <2> HIDE DEF Fixed
  <2>1. QED
    BY <1>0, <1>5
<1>8. h = [i \in 0 .. n |-> h[i]] /\ h[0] = NothingPacked
  BY <1>1, <1>6
<1>9. ASSUME NEW i \in 1 .. n PROVE h[i] = Take(h[i - 1], order[i])
  <2>1. i \in 0 .. n /\ i # 0
    BY <1>1
  <2>2. QED
    BY <1>6, <2>1
<1> HIDE DEF Fixed
<1>10. \A i \in 0 .. n : h[i] \in Bundle
  <2> DEFINE S == {i \in 0 .. n : h[i] \in Bundle}
  <2>1. 0 \in S
    BY <1>1, <1>8, EmptyBundle
  <2>2. ASSUME NEW i \in 1 .. n, i - 1 \in S PROVE i \in S
    <3>1. h[i - 1] \in Bundle /\ i \in 0 .. n
      BY <1>1, <2>2
    <3>2. QED
      BY <1>2, <1>9, <3>1
  <2>3. \A i \in 0 .. n : i \in S
    <3> HIDE DEF S
    <3>1. QED
      BY <1>1, <2>1, <2>2, Climb
  <2>4. QED
    BY <2>3
<1>11. Packing(h, order)
  <2>1. h \in [0 .. n -> Bundle]
    BY <1>8, <1>10
  <2>2. QED
    BY <1>8, <1>9, <2>1 DEF Packing, n
<1>12. QED
  BY <1>7, <1>11 DEF n, order

\* The places of an order that pack() takes are those that fit when their turn comes.
Fitting(f, order) ==
  {i \in DOMAIN order : f[i - 1].total_tokens + order[i].token_count <= TotalBudget}

\* What is in a bundle on the way: the places so far that fitted, and their tokens.
LEMMA PackedSoFar ==
  ASSUME NEW order \in Seq(Item), NEW f, Packing(f, order), NEW g,
         Sums(g, [i \in DOMAIN order |->
                    IF i \in Fitting(f, order) THEN order[i].token_count ELSE 0]),
         NEW m \in 0 .. Len(order)
  PROVE  /\ ToSet(f[m].items) = {order[i] : i \in {j \in Fitting(f, order) : j <= m}}
         /\ f[m].total_tokens = g[m]
<1> DEFINE n == Len(order)
           In == Fitting(f, order)
           counts == [i \in DOMAIN order |-> IF i \in In THEN order[i].token_count ELSE 0]
           UpTo(k) == {order[i] : i \in {j \in In : j <= k}}
           S == {k \in 0 .. n : ToSet(f[k].items) = UpTo(k) /\ f[k].total_tokens = g[k]}
<1>1. n \in Nat /\ DOMAIN order = 1 .. n /\ \A i \in 1 .. n : order[i] \in Item
  OBVIOUS
<1>2. In \subseteq 1 .. n
  BY <1>1 DEF Fitting
<1>3. /\ f \in [0 .. n -> Bundle] /\ f[0] = NothingPacked
      /\ \A i \in 1 .. n : f[i] = Take(f[i - 1], order[i])
  BY DEF Packing
<1>4. /\ g[0] = 0 /\ \A i \in 1 .. n : g[i] = g[i - 1] + (IF i \in In THEN order[i].token_count ELSE 0)
  <2>1. Len(counts) = n
    BY <1>1
  <2>2. Sums(g, counts)
    OBVIOUS
  <2>3. \A i \in 1 .. n : counts[i] = IF i \in In THEN order[i].token_count ELSE 0
    BY <1>1
  <2> HIDE DEF counts, n, In
  <2>4. QED
    BY <2>1, <2>2, <2>3 DEF Sums
<1>5. \A i \in 1 .. n : i \in In <=> f[i - 1].total_tokens + order[i].token_count <= TotalBudget
  BY <1>1 DEF Fitting
<1> HIDE DEF In, n
<1>6. 0 \in S
  <2>1. UpTo(0) = {}
    BY <1>1, <1>2
  <2>2. ToSet(<< >>) = {}
    BY DEF ToSet
  <2>3. f[0].items = << >> /\ f[0].total_tokens = 0
    BY <1>3, EmptyBundle
  <2>4. ToSet(f[0].items) = UpTo(0) /\ f[0].total_tokens = g[0]
    BY <1>4, <2>1, <2>2, <2>3
  <2> HIDE DEF UpTo
  <2>5. QED
    BY <1>1, <2>4
<1>7. ASSUME NEW i \in 1 .. n, i - 1 \in S PROVE i \in S
  <2> DEFINE a == f[i - 1]
             b == f[i]
             item == order[i]
  <2>1. /\ i - 1 \in 0 .. n /\ i \in 0 .. n
        /\ ToSet(a.items) = UpTo(i - 1) /\ a.total_tokens = g[i - 1]
    BY <1>1, <1>7
  <2>2. a \in Bundle /\ b = Take(a, item) /\ item \in Item
    BY <1>1, <1>3, <2>1
  <2>3. g[i] = g[i - 1] + (IF i \in In THEN item.token_count ELSE 0)
    BY <1>4
  <2>4. a.items \in Seq(Item) /\ a.total_tokens \in Nat
    BY <2>2, BudgetType DEF Bundle
  <2>5. i \in In <=> a.total_tokens + item.token_count <= TotalBudget
    BY <1>5
  <2> HIDE DEF a, b, item
  <2>6. CASE i \in In
    <3>1. b.items = Append(a.items, item) /\ b.total_tokens = a.total_tokens + item.token_count
      BY <2>2, <2>5, <2>6, TakeKeeps
    <3>2. ToSet(b.items) = ToSet(a.items) \union {item}
      <4> DEFINE s == a.items
      <4>1. s \in Seq(Item)
        BY <2>4
      <4> HIDE DEF s
      <4>2. ToSet(Append(s, item)) = ToSet(s) \union {item}
        <5>1. Len(Append(s, item)) = Len(s) + 1 /\ Len(s) \in Nat
          BY <4>1
        <5>2. \A j \in 1 .. Len(s) : Append(s, item)[j] = s[j]
          BY <4>1
        <5>3. Append(s, item)[Len(s) + 1] = item
          BY <4>1
        <5>4. DOMAIN Append(s, item) = 1 .. Len(s) + 1 /\ DOMAIN s = 1 .. Len(s)
          BY <4>1
        <5>5. \A j \in 1 .. Len(s) + 1 : j \in 1 .. Len(s) \/ j = Len(s) + 1
          BY <5>1
        <5>6. Len(s) + 1 \in 1 .. Len(s) + 1 /\ \A j \in 1 .. Len(s) : j \in 1 .. Len(s) + 1
          BY <5>1
        <5>7. QED
          BY <5>2, <5>3, <5>4, <5>5, <5>6 DEF ToSet
      <4>3. QED
        BY <3>1, <4>2 DEF s
    <3>3. UpTo(i) = UpTo(i - 1) \union {order[i]}
      <4>1. {j \in In : j <= i} = {j \in In : j <= i - 1} \union {i}
        <5>1. \A j \in In : j \in Int
          BY <1>1, <1>2
        <5>2. \A j \in In : j <= i <=> (j <= i - 1 \/ j = i)
          BY <1>1, <5>1
        <5>3. QED
          BY <2>6, <5>2, Zenon
      <4>2. QED
        BY <4>1
    <3>4. b.total_tokens = g[i]
      BY <2>1, <2>3, <2>6, <3>1
    <3>5. QED
      BY <2>1, <3>2, <3>3, <3>4 DEF b, item
  <2>7. CASE i \notin In
    <3>1. b.items = a.items /\ b.total_tokens = a.total_tokens
      BY <2>2, <2>5, <2>7, TakeKeeps
    <3>2. {j \in In : j <= i} = {j \in In : j <= i - 1}
      <4>1. \A j \in In : j \in Int
        BY <1>1, <1>2
      <4>2. \A j \in In : j # i
        BY <2>7
      <4>3. \A j \in In : j <= i <=> j <= i - 1
        BY <1>1, <4>1, <4>2
      <4>4. QED
        BY <4>3, Zenon
    <3>3. b.total_tokens = g[i]
      BY <2>1, <2>3, <2>4, <2>7, <3>1
    <3>4. QED
      BY <2>1, <3>1, <3>2, <3>3 DEF b
  <2>8. QED
    BY <2>6, <2>7
<1>8. \A k \in 0 .. n : k \in S
  <2> HIDE DEF S
  <2>1. QED
    BY <1>1, <1>6, <1>7, Climb
<1>9. m \in S
  BY <1>8 DEF n
<1>10. QED
  BY <1>9 DEF In

\* Of two selections that keep the budget, pack()'s is the one that has the first item on
\* which they differ.
LEMMA PackIsFirst ==
  ASSUME NEW order \in Seq(Item), NEW f, Packing(f, order),
         NEW other \in SUBSET DOMAIN order, TokensAt(order, other) <= TotalBudget,
         other # Fitting(f, order)
  PROVE  \E i \in Fitting(f, order) \ other :
           \A j \in 1 .. i - 1 : j \in Fitting(f, order) <=> j \in other
<1> DEFINE n == Len(order)
           In == Fitting(f, order)
           tokens(s) == [i \in DOMAIN order |-> IF i \in s THEN order[i].token_count ELSE 0]
           differ == {i \in 1 .. n : (i \in In) # (i \in other)}
<1>1. n \in Nat /\ DOMAIN order = 1 .. n /\ \A i \in 1 .. n : order[i] \in Item
  OBVIOUS
<1>2. \A i \in 1 .. n : order[i].token_count \in Nat
  BY <1>1 DEF Item
<1>3. In \subseteq 1 .. n /\ other \subseteq 1 .. n
  BY <1>1 DEF Fitting
<1>4. ASSUME NEW s PROVE tokens(s) \in Seq(Nat) /\ Len(tokens(s)) = n
  BY <1>1, <1>2
<1>5. PICK g : Sums(g, tokens(In))
  <2> HIDE DEF tokens
  <2>1. QED
    BY <1>4, SummedSteps
<1>6. PICK h : Sums(h, tokens(other)) /\ TokensAt(order, other) = h[n]
  <2>1. TokensAt(order, other) = Summed(tokens(other))
    BY DEF TokensAt
  <2> HIDE DEF tokens, n
  <2>2. QED
    BY <1>4, <2>1, SummedSteps
<1>7. /\ g \in [0 .. n -> Nat] /\ g[0] = 0
      /\ \A i \in 1 .. n : g[i] = g[i - 1] + (IF i \in In THEN order[i].token_count ELSE 0)
  <2>1. \A i \in 1 .. n : tokens(In)[i] = IF i \in In THEN order[i].token_count ELSE 0
    BY <1>1
  <2> HIDE DEF tokens, n, In
  <2>2. QED
    BY <1>4, <1>5, <2>1 DEF Sums
<1>8. /\ h \in [0 .. n -> Nat] /\ h[0] = 0
      /\ \A i \in 1 .. n : h[i] = h[i - 1] + (IF i \in other THEN order[i].token_count ELSE 0)
  <2>1. \A i \in 1 .. n : tokens(other)[i] = IF i \in other THEN order[i].token_count ELSE 0
    BY <1>1
  <2> HIDE DEF tokens, n
  <2>2. QED
    BY <1>4, <1>6, <2>1 DEF Sums
<1>9. \A m \in 0 .. n : f[m].total_tokens = g[m]
  <2>1. Sums(g, [i \in DOMAIN order |->
                   IF i \in Fitting(f, order) THEN order[i].token_count ELSE 0])
    BY <1>5
  <2> HIDE DEF tokens, In, differ
  <2>2. ASSUME NEW m \in 0 .. n PROVE f[m].total_tokens = g[m]
    <3>1. m \in 0 .. Len(order)
      OBVIOUS
    <3>2. QED
      BY <2>1, <3>1, PackedSoFar, SMTT(60)
  <2>3. QED
    BY <2>2
<1>10. \A i \in 1 .. n : i \in In <=> f[i - 1].total_tokens + order[i].token_count <= TotalBudget
  BY <1>1 DEF Fitting
<1>11. \A m \in 0 .. n : h[m] <= TotalBudget
  <2>1. \A m \in 0 .. n : h[m] <= h[n]
    <3> HIDE DEF tokens, n
    <3>1. QED
      BY <1>4, <1>6, SumsGrow
  <2>2. \A m \in 0 .. n : h[m] \in Nat /\ h[n] \in Nat
    <3> HIDE DEF n
    <3>1. QED
      BY <1>1, <1>8
  <2>3. h[n] <= TotalBudget
    BY <1>6
  <2> HIDE DEF n
  <2>4. QED
    BY <2>1, <2>2, <2>3, BudgetType
<1> HIDE DEF In, n, tokens
<1>12. PICK i \in differ : \A j \in differ : i <= j
  <2>1. differ # {}
    BY <1>3 DEF In
  <2>2. differ \subseteq Nat
    BY <1>1
  <2> HIDE DEF differ
  <2>3. QED
    BY <2>1, <2>2, LeastNatural
<1>13. i \in 1 .. n /\ (i \in In) # (i \in other)
  OBVIOUS
<1>14. \A j \in 1 .. i - 1 : j \in In <=> j \in other
  <2> SUFFICES ASSUME NEW j \in 1 .. i - 1 PROVE j \in In <=> j \in other
    OBVIOUS
  <2>1. j \in 1 .. n /\ ~ (i <= j)
    BY <1>1, <1>13
  <2>2. j \notin differ
    BY <1>12, <2>1
  <2>3. QED
    BY <2>1, <2>2
<1>15. g[i - 1] = h[i - 1]
  <2> DEFINE S == {k \in 0 .. i - 1 : g[k] = h[k]}
  <2>1. 0 \in S
    BY <1>1, <1>7, <1>8, <1>13
  <2>2. ASSUME NEW k \in 1 .. i - 1, k - 1 \in S PROVE k \in S
    <3>1. k \in 1 .. n /\ k \in 0 .. i - 1 /\ g[k - 1] = h[k - 1]
      BY <1>1, <1>13, <2>2
    <3>2. g[k] = g[k - 1] + (IF k \in In THEN order[k].token_count ELSE 0)
      BY <1>7, <3>1
    <3>3. h[k] = h[k - 1] + (IF k \in other THEN order[k].token_count ELSE 0)
      BY <1>8, <3>1
    <3>4. k \in In <=> k \in other
      BY <1>14
    <3>5. QED
      BY <3>1, <3>2, <3>3, <3>4
  <2>3. i - 1 \in Nat /\ i - 1 \in 0 .. i - 1
    BY <1>1, <1>13
  <2>4. \A k \in 0 .. i - 1 : k \in S
    <3> DEFINE top == i - 1
    <3> HIDE DEF S
    <3>1. top \in Nat /\ \A k \in 1 .. top : k - 1 \in S => k \in S
      BY <2>2, <2>3
    <3> HIDE DEF top
    <3>2. \A k \in 0 .. top : k \in S
      BY <2>1, <3>1, Climb
    <3>3. QED
      BY <3>2 DEF top
  <2>5. QED
    BY <2>3, <2>4
<1>16. i \in In
  <2> SUFFICES ASSUME i \notin In PROVE FALSE
    OBVIOUS
  <2>1. i \in other
    BY <1>13
  <2>2. i \in 0 .. n /\ i - 1 \in 0 .. n
    BY <1>1, <1>13
  <2>3. h[i] = h[i - 1] + order[i].token_count /\ h[i] <= TotalBudget
    BY <1>8, <1>11, <1>13, <2>1, <2>2
  <2>4. f[i - 1].total_tokens = h[i - 1]
    BY <1>9, <1>15, <2>2
  <2>5. QED
    BY <1>10, <1>13, <2>3, <2>4
<1>17. QED
  BY <1>13, <1>14, <1>16 DEF In

\* A sequence of different items of some buckets.
Distinct(s, K) ==
  /\ s \in Seq(Item)
  /\ \A i \in DOMAIN s : s[i].bucket \in K
  /\ \A i, j \in DOMAIN s : s[i] = s[j] => i = j

LEMMA ItemsDiffer ==
  ASSUME NEW bucket \in Names, NEW counts \in Seq(Nat)
  PROVE  Distinct(Items(bucket, counts), {bucket})
<1> DEFINE s == Items(bucket, counts)
           item(i) == [bucket |-> bucket, place |-> i, token_count |-> counts[i]]
<1>1. \A i \in DOMAIN counts : i \in Nat /\ counts[i] \in Nat
  OBVIOUS
<1>2. \A i \in DOMAIN counts : item(i) \in Item /\ item(i).bucket = bucket /\ item(i).place = i
  BY <1>1 DEF Item
<1>3. DOMAIN s = DOMAIN counts /\ \A i \in DOMAIN counts : s[i] = item(i)
  BY DEF Items
<1>4. s = [i \in 1 .. Len(counts) |-> item(i)] /\ Len(counts) \in Nat
  BY DEF Items
<1> HIDE DEF item
<1>5. s \in Seq(Item)
  <2>1. \A i \in 1 .. Len(counts) : item(i) \in Item
    BY <1>2
  <2> HIDE DEF s
  <2>2. QED
    BY <1>4, <2>1
<1> HIDE DEF s
<1>6. \A i, j \in DOMAIN s : s[i] = s[j] => i = j
  BY <1>2, <1>3
<1>7. Distinct(s, {bucket})
  BY <1>2, <1>3, <1>5, <1>6 DEF Distinct
<1>8. QED
  BY <1>7 DEF s

LEMMA DistinctJoined ==
  ASSUME NEW s, NEW t, NEW K, NEW L, Distinct(s, K), Distinct(t, L), K \cap L = {}
  PROVE  Distinct(s \o t, K \union L)
<1> DEFINE u == s \o t
<1>1. /\ s \in Seq(Item) /\ t \in Seq(Item) /\ Len(s) \in Nat /\ Len(t) \in Nat
      /\ DOMAIN s = 1 .. Len(s) /\ DOMAIN t = 1 .. Len(t)
  BY DEF Distinct
<1>2. u \in Seq(Item) /\ DOMAIN u = 1 .. Len(s) + Len(t)
  BY <1>1
<1>3. /\ \A i \in 1 .. Len(s) : u[i] = s[i]
      /\ \A i \in Len(s) + 1 .. Len(s) + Len(t) : u[i] = t[i - Len(s)] /\ i - Len(s) \in 1 .. Len(t)
  BY <1>1
<1> HIDE DEF u
<1>4. \A i \in DOMAIN u : i \in 1 .. Len(s) \/ i \in Len(s) + 1 .. Len(s) + Len(t)
  BY <1>1, <1>2
<1>5. \A i \in 1 .. Len(s) : u[i].bucket \in K
  BY <1>1, <1>3 DEF Distinct
<1>6. \A i \in Len(s) + 1 .. Len(s) + Len(t) : u[i].bucket \in L
  BY <1>1, <1>3 DEF Distinct
<1>7. ASSUME NEW i \in DOMAIN u, NEW j \in DOMAIN u, u[i] = u[j] PROVE i = j
  <2>1. CASE i \in 1 .. Len(s) /\ j \in 1 .. Len(s)
    BY <1>1, <1>3, <1>7, <2>1 DEF Distinct
  <2>2. CASE i \in Len(s) + 1 .. Len(s) + Len(t) /\ j \in Len(s) + 1 .. Len(s) + Len(t)
    <3>1. t[i - Len(s)] = t[j - Len(s)] /\ i - Len(s) \in DOMAIN t /\ j - Len(s) \in DOMAIN t
      BY <1>1, <1>3, <1>7, <2>2
    <3>2. i - Len(s) = j - Len(s)
      BY <3>1 DEF Distinct
    <3>3. QED
      BY <1>1, <2>2, <3>2
  <2>3. QED
    BY <1>4, <1>5, <1>6, <1>7, <2>1, <2>2
<1>8. Distinct(u, K \union L)
  BY <1>2, <1>4, <1>5, <1>6, <1>7 DEF Distinct
<1>9. QED
  BY <1>8 DEF u

\* A chunk is at least one token.
LEMMA ChunkTokens ==
  ASSUME NEW text \in Texts \union {Blank}, NEW k \in DOMAIN chunk(text)
  PROVE  count(chunk(text)[k]) \in Nat
<1>1. chunk(text) = [j \in 1 .. Cardinality(Kept(text)) |-> Content(text, Nth(Kept(text), j))]
  BY DEF chunk, Kept, Content
<1>2. IsFiniteSet(Kept(text)) /\ Kept(text) \subseteq Int
  <2>1. text.len \in Int /\ 0 \in Int
    BY TextType
  <2>2. IsFiniteSet(0 .. text.len) /\ Kept(text) \subseteq 0 .. text.len /\ 0 .. text.len \subseteq Int
    BY <2>1, FS_Interval DEF Kept
  <2>3. QED
    BY <2>2, FS_Subset
<1>3. k \in 1 .. Cardinality(Kept(text))
  BY <1>1
<1> DEFINE i == Nth(Kept(text), k)
<1>4. i \in Kept(text)
  BY <1>2, <1>3, NthRank
<1>5. chunk(text)[k] = Content(text, i)
  BY <1>1, <1>3
<1> HIDE DEF i
<1>6. i \in Nat /\ i * Stride \in Nat /\ i * Stride < text.len /\ text.len \in Nat
  <2>1. i \in 0 .. text.len /\ Reached(text, i)
    BY <1>4 DEF Kept
  <2>2. i \in Nat
    BY <2>1, TextType
  <2>3. i * Stride \in Nat
    BY <2>2, ChunkSizes, MultiplesGrow
  <2>4. QED
    BY <2>1, <2>2, <2>3, TextType DEF Reached
<1>7. WindowEnd(text, i * Stride) \in Nat
  <2>1. text # Blank
    BY <1>6 DEF Blank
  <2>2. text \in Texts /\ Normalised(text)
    BY <2>1, TextType
  <2> DEFINE start == i * Stride
  <2>3. start \in Nat /\ start < text.len
    BY <1>6
  <2> HIDE DEF start
  <2>4. WindowEnd(text, start) \in Nat
    BY <2>2, <2>3, WindowEndType
  <2>5. QED
    BY <2>4 DEF start
<1>8. Content(text, i).from \in Int /\ Content(text, i).to \in Int
  BY <1>6, <1>7 DEF Content, Stripped
<1> DEFINE c == Content(text, i)
<1>9. count(c) \in Nat
  <2> HIDE DEF c
  <2>1. c.from \in Int /\ c.to \in Int
    BY <1>8 DEF c
  <2>2. (c.to - c.from) \div 4 \in Int
    BY <2>1
  <2>3. QED
    BY <2>2 DEF count
<1>10. QED
  BY <1>5, <1>9

Found == {c \in RowType : c.index \in DOMAIN chunk(c.text)}

RequestType ==
  [session : Sessions \union {AllSessions}, system : Nat, conversation : Seq(Nat), tools : Seq(Nat)]

\* The items of a build are different.
LEMMA OrderDiffers ==
  ASSUME NEW b, b.request \in RequestType, b.memory \in Seq(Fact), b.rag \in Seq(Found)
  PROVE  Distinct(InOrder(Buckets(b)), Names)
<1> DEFINE system == Items("system", << b.request.system >>)
           conversation == Items("conversation", b.request.conversation)
           memory == Items("memory", [i \in DOMAIN b.memory |-> FactTokens])
           tokens == [i \in DOMAIN b.rag |-> count(chunk(b.rag[i].text)[b.rag[i].index])]
           rag == Items("rag", tokens)
           tools == Items("tools", b.request.tools)
<1>1. /\ b.request.system \in Nat /\ b.request.conversation \in Seq(Nat)
      /\ b.request.tools \in Seq(Nat)
  BY DEF RequestType
<1>d. \A bucket \in Names : \A counts \in Seq(Nat) : Distinct(Items(bucket, counts), {bucket})
  BY ItemsDiffer
<1>n. /\ "system" \in Names /\ "conversation" \in Names /\ "memory" \in Names
      /\ "rag" \in Names /\ "tools" \in Names
  BY DEF Names
<1>2. Distinct(system, {"system"})
  <2>1. << b.request.system >> \in Seq(Nat)
    BY <1>1
  <2>2. QED
    BY <1>d, <1>n, <2>1, Zenon
<1>3. Distinct(conversation, {"conversation"})
  BY <1>1, <1>d, <1>n, Zenon
<1>4. Distinct(memory, {"memory"})
  <2>1. [i \in DOMAIN b.memory |-> FactTokens] \in Seq(Nat)
    BY ContextAssumption
  <2>2. QED
    BY <1>d, <1>n, <2>1, Zenon
<1>5. Distinct(rag, {"rag"})
  <2>1. \A c \in Found : count(chunk(c.text)[c.index]) \in Nat
    BY ChunkTokens DEF Found, RowType
  <2>2. \A i \in DOMAIN b.rag : b.rag[i] \in Found
    OBVIOUS
  <2>3. \A i \in DOMAIN b.rag : tokens[i] \in Nat
    BY <2>1, <2>2
  <2>4. tokens = [i \in 1 .. Len(b.rag) |-> tokens[i]] /\ Len(b.rag) \in Nat
        /\ DOMAIN b.rag = 1 .. Len(b.rag)
    OBVIOUS
  <2>5. tokens \in Seq(Nat)
    <3> DEFINE n == Len(b.rag)
    <3>1. n \in Nat /\ tokens = [i \in 1 .. n |-> tokens[i]] /\ \A i \in 1 .. n : tokens[i] \in Nat
      BY <2>3, <2>4
    <3> HIDE DEF tokens, n
    <3>2. tokens \in [1 .. n -> Nat]
      BY <3>1
    <3>3. QED
      BY <3>1, <3>2
  <2> HIDE DEF tokens
  <2>6. QED
    BY <1>d, <1>n, <2>5, Zenon
<1>6. Distinct(tools, {"tools"})
  BY <1>1, <1>d, <1>n, Zenon
<1>7. InOrder(Buckets(b)) = system \o conversation \o memory \o rag \o tools
  BY DEF InOrder, Buckets
<1> HIDE DEF system, conversation, memory, rag, tools
<1>8. Distinct(system \o conversation, {"system", "conversation"})
  <2>1. {"system"} \cap {"conversation"} = {}
        /\ {"system"} \union {"conversation"} = {"system", "conversation"}
    OBVIOUS
  <2>2. Distinct(system \o conversation, {"system"} \union {"conversation"})
    BY <1>2, <1>3, <2>1, DistinctJoined
  <2>3. QED
    BY <2>1, <2>2
<1>9. Distinct(system \o conversation \o memory, {"system", "conversation", "memory"})
  <2>1. {"system", "conversation"} \cap {"memory"} = {}
        /\ {"system", "conversation"} \union {"memory"} = {"system", "conversation", "memory"}
    OBVIOUS
  <2>2. Distinct(system \o conversation \o memory, {"system", "conversation"} \union {"memory"})
    BY <1>4, <1>8, <2>1, DistinctJoined
  <2>3. QED
    BY <2>1, <2>2
<1>10. Distinct(system \o conversation \o memory \o rag,
                {"system", "conversation", "memory", "rag"})
  <2>1. {"system", "conversation", "memory"} \cap {"rag"} = {}
        /\ {"system", "conversation", "memory"} \union {"rag"}
             = {"system", "conversation", "memory", "rag"}
    OBVIOUS
  <2>2. Distinct(system \o conversation \o memory \o rag,
                 {"system", "conversation", "memory"} \union {"rag"})
    BY <1>5, <1>9, <2>1, DistinctJoined
  <2>3. QED
    BY <2>1, <2>2
<1>11. Distinct(system \o conversation \o memory \o rag \o tools,
                {"system", "conversation", "memory", "rag", "tools"})
  <2>1. {"system", "conversation", "memory", "rag"} \cap {"tools"} = {}
        /\ {"system", "conversation", "memory", "rag"} \union {"tools"}
             = {"system", "conversation", "memory", "rag", "tools"}
    OBVIOUS
  <2>2. Distinct(system \o conversation \o memory \o rag \o tools,
                 {"system", "conversation", "memory", "rag"} \union {"tools"})
    BY <1>6, <1>10, <2>1, DistinctJoined
  <2>3. QED
    BY <2>1, <2>2
<1>12. QED
  BY <1>7, <1>11 DEF Names

\* What a build has found are facts and rows, and what it has packed is what pack() makes
\* of them.
PackOK ==
  /\ build.memory \in Seq(Fact)
  /\ build.rag \in Seq(Found)
  /\ build.packed = IF build.pc = "built" THEN pack(Buckets(build)) ELSE NothingPacked

PackInv == IsFiniteSet(facts) /\ PackOK

\* The items depend on nothing else.
LEMMA SameItems ==
  ASSUME NEW b, NEW c, b.request = c.request, b.memory = c.memory, b.rag = c.rag
  PROVE  Buckets(b) = Buckets(c)
  BY DEF Buckets

LEMMA RequestsTyped ==
  ASSUME NEW request \in Requests \union {NoRequest}
  PROVE  request \in RequestType
<1>1. NoRequest \in RequestType
  BY DEF NoRequest, RequestType
<1>2. Requests \subseteq RequestType
  BY ContextAssumption DEF RequestType
<1>3. QED
  BY <1>1, <1>2

\* A search returns a sequence of rows.
LEMMA NearestRows ==
  ASSUME NEW S, IsFiniteSet(S), NEW k, NEW found \in Nearest(S, k)
  PROVE  found \in Seq(S)
<1>1. PICK T \in SUBSET S : found \in SetToSeqs(T)
  BY DEF Nearest, kSubset
<1>2. Cardinality(T) \in Nat
  BY FS_Subset, FS_CardinalityType
<1>3. found \in [1 .. Cardinality(T) -> T]
  BY <1>1 DEF SetToSeqs
<1>4. QED
  BY <1>2, <1>3

\* When a build goes on with another answer, it packs or waits for the rest.
LEMMA AnswerPacked ==
  ASSUME PackInv, BuildInv, Building, facts' = facts, NEW b,
         b = [pc |-> b.pc, request |-> b.request, waiting |-> b.waiting, memory |-> b.memory,
              rag |-> b.rag, packed |-> b.packed, since |-> b.since],
         b.pc = "gather", b.packed = build.packed,
         b.memory \in Seq(Fact), b.rag \in Seq(Found), build' = Fetched(b)
  PROVE  PackInv'
<1>1. /\ build'.pc = IF b.waiting # {} THEN b.pc ELSE "built"
      /\ build'.request = b.request /\ build'.memory = b.memory /\ build'.rag = b.rag
      /\ build'.packed = IF b.waiting # {} THEN b.packed ELSE pack(Buckets(b))
  BY FetchedFields
<1>2. b.packed = NothingPacked
  BY DEF PackInv, PackOK, Building
<1>3. Buckets(build') = Buckets(b)
  BY <1>1, SameItems
<1>4. build'.packed = IF build'.pc = "built" THEN pack(Buckets(build')) ELSE NothingPacked
  BY <1>1, <1>2, <1>3
<1>5. PackOK'
  BY <1>1, <1>4 DEF PackOK
<1>6. QED
  BY <1>5 DEF PackInv

LEMMA FactsFinite ==
  ASSUME BuildInv, PackInv, NEW id \in FactIds,
         DeleteFact(id) \/ \E session \in Sessions : StoreFact(id, session)
  PROVE  IsFiniteSet(facts') /\ build' = build
<1>1. CASE DeleteFact(id)
  <2>1. facts' \subseteq facts /\ build' = build
    BY <1>1 DEF DeleteFact
  <2>2. QED
    BY <2>1, FS_Subset DEF PackInv
<1>2. ASSUME NEW session \in Sessions, StoreFact(id, session)
      PROVE  IsFiniteSet(facts') /\ build' = build
  <2>1. facts' = upsert(id, session, calls + 1) /\ build' = build
    BY <1>2 DEF StoreFact
  <2> DEFINE new == [id |-> id, session |-> session, version |-> calls + 1]
             written == {[f EXCEPT !.version = calls + 1] : f \in facts}
  <2>2. IsFiniteSet(facts)
    BY DEF PackInv
  <2>3. IsFiniteSet(facts \union {new})
    BY <2>2, FS_AddElement
  <2>4. IsFiniteSet(written)
    <3> DEFINE move == [f \in facts |-> [f EXCEPT !.version = calls + 1]]
    <3>1. move \in Surjection(facts, written)
      BY DEF Surjection
    <3>2. QED
      BY <2>2, <3>1, FS_Surjection
  <2>5. facts' \subseteq facts \union written \/ facts' = facts \union {new}
    BY <2>1 DEF upsert
  <2>6. IsFiniteSet(facts \union written)
    BY <2>2, <2>4, FS_Union
  <2> HIDE DEF written, new
  <2>7. IsFiniteSet(facts')
    BY <2>3, <2>5, <2>6, FS_Subset
  <2>8. QED
    BY <2>1, <2>7
<1>3. QED
  BY <1>1, <1>2

LEMMA PackMemory ==
  ASSUME BuildInv, PackInv, FetchMemory
  PROVE  PackInv'
<1>1. PICK found \in memory_search(build.request.session) :
        build' = Fetched([build EXCEPT !.memory = found, !.waiting = @ \ {"memory"}])
  BY DEF FetchMemory
<1>2. "memory" \in build.waiting /\ facts' = facts
  BY DEF FetchMemory
<1>3. Building /\ build.pc = "gather"
  BY <1>2 DEF BuildInv, BuildOK, Building
<1> DEFINE b == [pc |-> build.pc, request |-> build.request,
                 waiting |-> build.waiting \ {"memory"}, memory |-> found, rag |-> build.rag,
                 packed |-> build.packed, since |-> build.since]
<1>4. build' = Fetched(b)
  <2>1. [build EXCEPT !.memory = found, !.waiting = @ \ {"memory"}] = b
    BY AnswerTaken DEF BuildInv, BuildOK
  <2>2. QED
    BY <1>1, <2>1
<1>5. found \in Seq(Fact)
  <2> DEFINE S == IF build.request.session = AllSessions THEN facts
                  ELSE {f \in facts : f.session = build.request.session}
  <2>1. found \in Nearest(S, Limit)
    BY DEF memory_search
  <2>2. S \subseteq facts /\ S \subseteq Fact
    BY DEF BuildInv, FactsOK
  <2> HIDE DEF S
  <2>3. IsFiniteSet(S)
    BY <2>2, FS_Subset DEF PackInv
  <2>4. found \in Seq(S)
    BY <2>1, <2>3, NearestRows
  <2>5. QED
    BY <2>2, <2>4
<1>6. /\ b = [pc |-> b.pc, request |-> b.request, waiting |-> b.waiting, memory |-> b.memory,
              rag |-> b.rag, packed |-> b.packed, since |-> b.since]
      /\ b.pc = "gather" /\ b.packed = build.packed /\ b.memory = found /\ b.rag = build.rag
  BY <1>3
<1>7. build.rag \in Seq(Found)
  BY DEF PackInv, PackOK
<1> HIDE DEF b
<1>8. QED
  BY <1>2, <1>3, <1>4, <1>5, <1>6, <1>7, AnswerPacked

LEMMA PackRag ==
  ASSUME IngestInv, BuildInv, PackInv, FetchRag
  PROVE  PackInv'
<1>1. PICK matching \in SUBSET Documents, top_k \in 1 .. Limit :
        \E found \in rag_search(matching) :
          build' = Fetched([build EXCEPT !.rag = rerank(found, top_k), !.waiting = @ \ {"rag"}])
  BY DEF FetchRag
<1>2. PICK found \in rag_search(matching) :
        build' = Fetched([build EXCEPT !.rag = rerank(found, top_k), !.waiting = @ \ {"rag"}])
  BY <1>1
<1>3. "rag" \in build.waiting /\ facts' = facts
  BY DEF FetchRag
<1>4. Building /\ build.pc = "gather"
  BY <1>3 DEF BuildInv, BuildOK, Building
<1>5. chunks \subseteq Found /\ IsFiniteSet(chunks)
  BY DEF IngestInv, RowsOK, Found
<1>6. found \in Seq(Found)
  <2>1. PICK all \in Nearest(chunks, Limit) :
          found = Picked(all, {i \in DOMAIN all : all[i].doc \in matching})
    BY DEF rag_search
  <2>2. all \in Seq(chunks)
    BY <1>5, NearestRows
  <2>3. all \in Seq(Found)
    BY <1>5, <2>2
  <2> DEFINE S == {i \in DOMAIN all : all[i].doc \in matching}
  <2>4. S \subseteq DOMAIN all
    OBVIOUS
  <2> HIDE DEF S
  <2>5. Picked(all, S) \in Seq(Found)
    BY <2>3, <2>4, PickedElements
  <2>6. QED
    BY <2>1, <2>5 DEF S
<1> DEFINE told == rerank(found, top_k)
           b == [pc |-> build.pc, request |-> build.request,
                 waiting |-> build.waiting \ {"rag"}, memory |-> build.memory, rag |-> told,
                 packed |-> build.packed, since |-> build.since]
<1>7. told \in Seq(Found)
  <2> DEFINE m == IF Len(found) < top_k THEN Len(found) ELSE top_k
  <2>1. m \in 0 .. Len(found)
    BY <1>6, ContextAssumption
  <2>2. told = SubSeq(found, 1, m)
    BY DEF rerank
  <2> HIDE DEF m, told
  <2>3. QED
    BY <1>6, <2>1, <2>2
<1> HIDE DEF told
<1>8. build' = Fetched(b)
  <2>1. [build EXCEPT !.rag = told, !.waiting = @ \ {"rag"}] = b
    BY AnswerTaken DEF BuildInv, BuildOK
  <2>2. build' = Fetched([build EXCEPT !.rag = told, !.waiting = @ \ {"rag"}])
    BY <1>2 DEF told
  <2>3. QED
    BY <2>1, <2>2
<1>9. /\ b = [pc |-> b.pc, request |-> b.request, waiting |-> b.waiting, memory |-> b.memory,
              rag |-> b.rag, packed |-> b.packed, since |-> b.since]
      /\ b.pc = "gather" /\ b.packed = build.packed /\ b.memory = build.memory /\ b.rag = told
  BY <1>4
<1>10. build.memory \in Seq(Fact)
  BY DEF PackInv, PackOK
<1> HIDE DEF b
<1>11. QED
  BY <1>3, <1>4, <1>7, <1>8, <1>9, <1>10, AnswerPacked

\* A build that has not got both answers has packed nothing.
LEMMA PackNothing ==
  ASSUME IsFiniteSet(facts'), build'.memory = << >>, build'.rag = << >>,
         build'.packed = NothingPacked, build'.pc # "built"
  PROVE  PackInv'
  BY DEF PackInv, PackOK

LEMMA PackKept == ASSUME IngestInv, BuildInv, PackInv, [ContextNext]_allVars PROVE PackInv'
<1>1. ASSUME build' = build, IsFiniteSet(facts') PROVE PackInv'
  <2>1. PackOK'
    BY <1>1 DEF PackInv, PackOK
  <2>2. QED
    BY <1>1, <2>1 DEF PackInv
<1>2. IsFiniteSet(facts)
  BY DEF PackInv
<1>3. ASSUME NEW w \in Workers, Load(w) PROVE PackInv'
  BY <1>1, <1>2, <1>3 DEF Load, contextVars
<1>4. ASSUME NEW id \in FactIds, DeleteFact(id) \/ \E session \in Sessions : StoreFact(id, session)
      PROVE  PackInv'
  BY <1>1, <1>4, FactsFinite
<1>5. ASSUME NEW request \in Requests, BeginBuild(request) PROVE PackInv'
  <2>1. build' = [NoBuild EXCEPT !.pc = "gather", !.request = request,
                                 !.waiting = {"memory", "rag"}, !.since = last]
        /\ facts' = facts
    BY <1>5 DEF BeginBuild
  <2>2. build' = [pc |-> "gather", request |-> request, waiting |-> {"memory", "rag"},
                  memory |-> << >>, rag |-> << >>, packed |-> NothingPacked, since |-> last]
    BY <2>1, NoBuildFields
  <2>3. /\ build'.memory = << >> /\ build'.rag = << >> /\ build'.packed = NothingPacked
        /\ build'.pc # "built"
    BY <2>2
  <2>4. QED
    BY <1>2, <2>1, <2>3, PackNothing
<1>6. CASE FetchMemory
  BY <1>6, PackMemory
<1>7. CASE FetchRag
  BY <1>7, PackRag
<1>8. CASE FetchRaises \/ ContextRestart
  <2> DEFINE zero == [id \in FactIds |-> 0]
  <2>1. facts' = facts
    BY <1>8 DEF FetchRaises, ContextRestart
  <2>2. \/ build' = [NoBuild EXCEPT !.pc = "raised"]
        \/ build' = NoBuild
    BY <1>8 DEF FetchRaises, ContextRestart
  <2>3. zero = [id \in FactIds |-> 0]
    OBVIOUS
  <2> HIDE DEF zero
  <2>4. PICK pc \in {"idle", "raised"} :
          build' = [pc |-> pc, request |-> NoRequest, waiting |-> {}, memory |-> << >>,
                    rag |-> << >>, packed |-> NothingPacked, since |-> zero]
    BY <2>2, <2>3, NoBuildAt
  <2>5. /\ build'.memory = << >> /\ build'.rag = << >> /\ build'.packed = NothingPacked
        /\ build'.pc # "built"
    BY <2>4
  <2>6. QED
    BY <1>2, <2>1, <2>5, PackNothing
<1>9. CASE UNCHANGED allVars
  BY <1>1, <1>2, <1>9 DEF allVars, contextVars
<1>10. CASE Quiet /\ UNCHANGED contextVars
  BY <1>1, <1>2, <1>10 DEF contextVars
<1>11. QED
  BY <1>3, <1>4, <1>5, <1>6, <1>7, <1>8, <1>9, <1>10 DEF ContextNext

LEMMA PackStarts == ASSUME ContextInit PROVE PackInv
<1>1. build = NoBuild /\ facts = {}
  BY DEF ContextInit
<1>2. IsFiniteSet(facts)
  BY <1>1, FS_EmptySet
<1>3. /\ build.memory = << >> /\ build.rag = << >> /\ build.packed = NothingPacked
      /\ build.pc # "built"
  BY <1>1, NoBuildFields
<1>4. QED
  BY <1>2, <1>3 DEF PackInv, PackOK

\* What a finished build has packed is what pack() makes of what it found.
THEOREM PackInvariant == ContextSpec => [](IngestInv /\ BuildInv /\ PackInv)
<1>1. IngestInv /\ BuildInv /\ PackInv /\ [ContextNext]_allVars => PackInv'
  BY PackKept
<1>2. QED
  BY <1>1, PackStarts, IngestInvariant, BuildInvariant, PTL DEF ContextSpec

\* The steps of pack() that led to a finished build.
LEMMA BuiltInSteps ==
  ASSUME BuildInv, PackInv, build.pc = "built"
  PROVE  LET order == InOrder(Buckets(build))
         IN  /\ Distinct(order, Names)
             /\ \E f : Packing(f, order) /\ build.packed = f[Len(order)]
<1>1. build.request \in RequestType
  BY RequestsTyped DEF BuildInv, BuildOK
<1>2. Distinct(InOrder(Buckets(build)), Names)
  BY <1>1, OrderDiffers DEF PackInv, PackOK
<1>3. InOrder(Buckets(build)) \in Seq(Item)
  BY <1>2 DEF Distinct
<1>4. build.packed = pack(Buckets(build))
  BY DEF PackInv, PackOK
<1>5. QED
  BY <1>2, <1>3, <1>4, PackSteps

\* Every variable keeps its type; the tokens of a prompt are a number.
THEOREM TypeCorrect == ContextSpec => []ContextTypeOK
<1>1. IngestInv /\ BuildInv /\ PackInv => ContextTypeOK
  <2> SUFFICES ASSUME IngestInv, BuildInv, PackInv PROVE ContextTypeOK
    OBVIOUS
  <2>1. build.packed.total_tokens \in Nat
    <3>1. CASE build.pc = "built"
      <4> DEFINE order == InOrder(Buckets(build))
      <4>1. PICK f : Distinct(order, Names) /\ Packing(f, order) /\ build.packed = f[Len(order)]
        BY <3>1, BuiltInSteps
      <4> HIDE DEF order
      <4>2. Len(order) \in 0 .. Len(order)
        BY <4>1 DEF Distinct
      <4>3. build.packed \in Bundle
        BY <4>1, <4>2 DEF Packing
      <4>4. QED
        BY <4>3, BudgetType DEF Bundle
    <3>2. CASE build.pc # "built"
      BY <3>2, EmptyBundle DEF PackInv, PackOK
    <3>3. QED
      BY <3>1, <3>2
  <2>2. TypeOK
    BY IngestTypes
  <2>3. /\ facts \subseteq [id : FactIds, session : Sessions, version : 1 .. MaxCalls]
        /\ \A f, g \in facts : f.id = g.id => f = g
        /\ last \in [FactIds -> 0 .. MaxCalls]
    BY DEF BuildInv, FactsOK, Fact
  <2>4. /\ build.pc \in {"idle", "gather", "built", "raised"}
        /\ Building <=> build.waiting # {}
        /\ build.request \in Requests \union {NoRequest}
    BY DEF BuildInv, BuildOK
  <2>5. QED
    BY <2>1, <2>2, <2>3, <2>4 DEF ContextTypeOK
<1>2. QED
  BY <1>1, PackInvariant, PTL

\* PacksByPriority: a prompt whose system prompt fits keeps the budget, and wherever another selection of the items
\* that keeps it too differs from the prompt, the item of highest priority on which they
\* differ is in the prompt.
THEOREM PromptsKeepPriority == ContextSpec => []PacksByPriority
<1>1. BuildInv /\ PackInv => PacksByPriority
  <2> SUFFICES ASSUME BuildInv, PackInv, build.pc = "built" PROVE PacksByPriority
    BY DEF PacksByPriority
  <2> DEFINE order == InOrder(Buckets(build))
             n == Len(order)
             kept == ToSet(build.packed.items)
             in == {i \in DOMAIN order : order[i] \in kept}
             others == \A other \in SUBSET DOMAIN order :
                         TokensAt(order, other) <= TotalBudget /\ other # in =>
                           \E i \in in \ other : \A j \in 1 .. i - 1 : j \in in <=> j \in other
  <2>1. PICK f : Distinct(order, Names) /\ Packing(f, order) /\ build.packed = f[n]
    BY BuiltInSteps
  <2>0. (/\ TokensAt(order, in) = build.packed.total_tokens
         /\ TokensAt(order, in) <= TotalBudget
         /\ others) => PacksByPriority
    BY DEF PacksByPriority
  <2> HIDE DEF order
  <2>2. order \in Seq(Item) /\ n \in Nat /\ DOMAIN order = 1 .. n
    BY <2>1 DEF Distinct
  <2> DEFINE In == Fitting(f, order)
             counts == [i \in DOMAIN order |-> IF i \in In THEN order[i].token_count ELSE 0]
  <2>3. PICK g : Sums(g, counts) /\ Summed(counts) = g[Len(counts)]
    <3>1. \A i \in 1 .. n : order[i].token_count \in Nat
      <4>1. \A i \in 1 .. n : order[i] \in Item
        BY <2>2
      <4> HIDE DEF n
      <4>2. QED
        BY <4>1 DEF Item
    <3>2. counts = [i \in 1 .. n |-> IF i \in In THEN order[i].token_count ELSE 0]
      BY <2>2
    <3>3. counts \in Seq(Nat)
      <4> HIDE DEF counts, In, n
      <4>1. QED
        BY <2>2, <3>1, <3>2
    <3> HIDE DEF counts
    <3>4. QED
      BY <3>3, SummedSteps
  <2>4. Len(counts) = n
    BY <2>2
  <2>5. In \subseteq 1 .. n
    BY <2>2 DEF Fitting
  <2>6. /\ ToSet(f[n].items) = {order[i] : i \in {j \in In : j <= n}}
        /\ f[n].total_tokens = g[n]
    <3>1. n \in 0 .. Len(order) /\ Sums(g, counts)
      BY <2>2, <2>3
    <3> HIDE DEF n
    <3>2. QED
      BY <2>1, <2>2, <3>1, PackedSoFar
  <2>7. in = In
    <3>1. {j \in In : j <= n} = In
      BY <2>2, <2>5
    <3>2. kept = {order[i] : i \in In}
      BY <2>1, <2>6, <3>1
    <3>3. \A i, j \in DOMAIN order : order[i] = order[j] => i = j
      BY <2>1 DEF Distinct
    <3>4. In \subseteq DOMAIN order
      BY <2>2, <2>5
    <3> HIDE DEF kept, In, n
    <3>5. \A i \in DOMAIN order : order[i] \in kept <=> i \in In
      BY <3>2, <3>3, <3>4, Zenon
    <3>6. QED
      BY <3>4, <3>5
  <2>8. TokensAt(order, In) = f[n].total_tokens
    <3>1. TokensAt(order, In) = Summed(counts)
      BY DEF TokensAt
    <3> HIDE DEF counts, n
    <3>2. QED
      BY <2>3, <2>4, <2>6, <3>1
  <2>9. f[n].total_tokens <= TotalBudget
    <3>1. n \in 0 .. n
      BY <2>2
    <3> HIDE DEF n
    <3>2. f[n] \in Bundle
      BY <2>1, <3>1 DEF Packing, n
    <3>3. QED
      BY <3>2, BudgetType DEF Bundle
  <2>10. ASSUME NEW other \in SUBSET DOMAIN order, TokensAt(order, other) <= TotalBudget,
                other # In
         PROVE  \E i \in In \ other : \A j \in 1 .. i - 1 : j \in In <=> j \in other
    BY <2>1, <2>2, <2>10, PackIsFirst
  <2> HIDE DEF In, in, n
  <2>11. others
    BY <2>7, <2>10
  <2> HIDE DEF others
  <2>12. QED
    BY <2>0, <2>1, <2>7, <2>8, <2>9, <2>11
<1>2. QED
  BY <1>1, PackInvariant, PTL
=============================================================================
