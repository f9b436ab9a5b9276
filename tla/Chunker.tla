------------------------------ MODULE Chunker -------------------------------
(***************************************************************************)
(* DocumentParser.parse() and SlidingWindowChunker.chunk() as operators.   *)
(* Of a text only its length and the places of its spaces matter; places   *)
(* count from 0, and an interval [from, to] stands for the characters      *)
(* from .. to - 1.  parse() leaves one space between words and none at     *)
(* either end, so the texts of this module are in that form already.       *)
(***************************************************************************)
EXTENDS Integers, FiniteSets, Sequences, Ordering

CONSTANTS
  ChunkSize,   \* SlidingWindowChunker(chunk_size), in tokens
  Overlap      \* SlidingWindowChunker(overlap), in tokens

\* __init__ raises ValueError otherwise.
ASSUME ChunkerAssumption ==
  /\ ChunkSize \in Nat
  /\ Overlap \in Nat
  /\ Overlap < ChunkSize

CHARS_PER_TOKEN == 4
ChunkChars == ChunkSize * CHARS_PER_TOKEN
OverlapChars == Overlap * CHARS_PER_TOKEN

\* Mutant: the windows do not overlap.
StrideWithoutOverlap == ChunkChars

\* From the start of a window to the start of the next.
Stride == ChunkChars - OverlapChars

Blank == [len |-> 0, spaces |-> {}]

\* What " ".join(content.split()) returns for a content with words.
Normalised(text) ==
  /\ text.len \in Nat \ {0}
  /\ text.spaces \subseteq 1 .. text.len - 2
  /\ \A p \in text.spaces : p + 1 \notin text.spaces

\* The last space at or after "from" and before "to", or -1.
rfind(text, from, to) ==
  LET found == {p \in text.spaces : from <= p /\ p < to}
  IN  IF found = {} THEN -1 ELSE CHOOSE p \in found : \A q \in found : q <= p

\* Where the window that begins at "start" ends: full length, cut back to a space.
WindowEnd(text, start) ==
  LET full == start + ChunkChars
      boundary == rfind(text, start, full)
  IN  CASE full >= text.len -> text.len
        [] full < text.len /\ boundary > start -> boundary
        [] OTHER -> full

\* text[start:end].strip()
Stripped(text, from, to) ==
  [from |-> IF from \in text.spaces THEN from + 1 ELSE from,
   to |-> IF to - 1 \in text.spaces THEN to - 1 ELSE to]

\* The loop makes window i if none before it reached the end of the text.
Reached(text, i) ==
  /\ i * Stride < text.len
  /\ \A j \in 0 .. i - 1 : WindowEnd(text, j * Stride) < text.len

\* The contents of the chunks, in order of chunk_index: windows that are not blank.
chunk(text) ==
  LET content(i) == Stripped(text, i * Stride, WindowEnd(text, i * Stride))
      kept == {i \in 0 .. text.len : Reached(text, i) /\ content(i).from < content(i).to}
  IN  [k \in 1 .. Cardinality(kept) |-> content(Nth(kept, k))]

-----------------------------------------------------------------------------

\* The words of a normalised text, as intervals.
Words(text) ==
  LET edges == text.spaces \union {-1, text.len}
      adjacent == {e \in edges \X edges :
                     e[1] < e[2] /\ \A r \in edges : r <= e[1] \/ e[2] <= r}
  IN  {[from |-> e[1] + 1, to |-> e[2]] : e \in adjacent}

Within(word, content) == content.from <= word.from /\ word.to <= content.to
=============================================================================
