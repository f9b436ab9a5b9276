--------------------------- MODULE SummaryMemory ---------------------------
(***************************************************************************)
(* One session of athenai.memory: ConversationMemory, a table of messages, *)
(* and SummaryMemory.get_recent() on top of it, which reads the table      *)
(* three times (count, window, recent messages) and awaits the model in    *)
(* between.  The table survives a restart, the dictionary of summaries     *)
(* does not.                                                               *)
(*                                                                         *)
(* A summary is the set of the rows it was generated from, and the empty   *)
(* set where none is told: there is none, or the model answered with       *)
(* nothing.  The clock is the number of time.time() readings, so           *)
(* created_at values are distinct.                                         *)
(***************************************************************************)
EXTENDS Integers, FiniteSets

CONSTANTS
  Readers,      \* coroutines in SummaryMemory.get_recent()
  Writers,      \* coroutines in ConversationMemory.add_message()
  MaxRaw,       \* max_raw_messages
  KeepRecent,   \* keep_recent
  MaxMessages,  \* bound on the messages of the session
  MaxClock      \* bound on the calls of add_message()

ASSUME MemoryAssumption ==
  /\ MaxRaw \in Nat
  /\ KeepRecent \in Nat
  /\ MaxMessages \in Nat
  /\ MaxClock \in Nat

VARIABLES
  rows,     \* conversation_messages: id and created_at
  clock,    \* time.time() readings so far
  sent,     \* messages callers have produced: ids 1 .. sent
  adding,   \* per writer: the row it is inserting, if any
  unsure,   \* ids whose add_message() raised: the caller may retry
  summary,  \* _summaries[session_id]; the empty set is no summary
  reader,   \* per reader: where it is in get_recent(), and what it has read
  cleared   \* history: ids of the messages clear() has deleted

vars == <<rows, clock, sent, adding, unsure, summary, reader, cleared>>

Row == [id : 1 .. MaxMessages, created_at : 1 .. MaxClock]
NoRow == [id |-> 0, created_at |-> 0]
Idle == [pc |-> "idle", window |-> {}, older |-> {}, recent |-> {}]
Between == {"idle", "returned", "raised"}

-----------------------------------------------------------------------------
(* ConversationMemory                                                      *)

\* Mutant: the oldest messages are returned instead of the latest.
get_recent_oldest(n) ==
  {m \in rows : Cardinality({o \in rows : o.created_at < m.created_at}) < n}

\* Mutant: the LIMIT is lost.
get_recent_unlimited(n) == rows

\* get_recent(n): ORDER BY created_at DESC LIMIT n.
get_recent(n) ==
  {m \in rows : Cardinality({o \in rows : o.created_at > m.created_at}) < n}

\* Mutant: a row with the same id is overwritten.
insert_updates(row) == {m \in rows : m.id # row.id} \union {row}

\* INSERT ... ON CONFLICT (id) DO NOTHING
insert(row) == IF \E m \in rows : m.id = row.id THEN rows ELSE rows \union {row}

\* add_message() reads the clock, then awaits the INSERT.
Send(w, id) ==
  /\ adding[w] = NoRow
  /\ clock < MaxClock
  /\ \/ id = sent + 1 /\ id <= MaxMessages /\ UNCHANGED unsure
     \/ id \in unsure /\ unsure' = unsure \ {id}
  /\ sent' = IF id > sent THEN id ELSE sent
  /\ clock' = clock + 1
  /\ adding' = [adding EXCEPT ![w] = [id |-> id, created_at |-> clock + 1]]
  /\ UNCHANGED <<rows, summary, reader, cleared>>

Added(w) ==
  /\ adding[w] # NoRow
  /\ rows' = insert(adding[w])
  /\ adding' = [adding EXCEPT ![w] = NoRow]
  /\ UNCHANGED <<clock, sent, unsure, summary, reader, cleared>>

\* The INSERT raises; it may have been committed all the same.
AddRaises(w) ==
  /\ adding[w] # NoRow
  /\ rows' \in {rows, insert(adding[w])}
  /\ adding' = [adding EXCEPT ![w] = NoRow]
  /\ unsure' = unsure \union {adding[w].id}
  /\ UNCHANGED <<clock, sent, summary, reader, cleared>>

\* clear(): the messages go, the summary of them stays.
Clear ==
  /\ rows # {}
  /\ rows' = {}
  /\ cleared' = cleared \union {m.id : m \in rows}
  /\ UNCHANGED <<clock, sent, adding, unsure, summary, reader>>

-----------------------------------------------------------------------------
(* SummaryMemory.get_recent()                                              *)

Move(r, fields) ==
  /\ reader' = [reader EXCEPT ![r] = fields]
  /\ UNCHANGED <<rows, clock, sent, adding, unsure, cleared>>

Begin(r) ==
  /\ reader[r].pc \in Between
  /\ Move(r, [Idle EXCEPT !.pc = "count"])
  /\ UNCHANGED summary

Count(r) ==
  /\ reader[r].pc = "count"
  /\ Move(r, [reader[r] EXCEPT !.pc = IF Cardinality(rows) > MaxRaw THEN "window" ELSE "recent"])
  /\ UNCHANGED summary

\* Mutant: the whole window is summarised, recent messages included.
OlderIsAll(all) == all

\* all_messages[:-keep_recent]: everything before the last keep_recent messages of
\* the window, and nothing at all for keep_recent = 0.
Older(all) ==
  IF KeepRecent = 0 THEN {}
  ELSE {m \in all : Cardinality({o \in all : o.created_at > m.created_at}) >= KeepRecent}

\* _compress() up to the model call.
Window(r) ==
  LET all == get_recent(MaxRaw)
  IN  /\ reader[r].pc = "window"
      /\ Move(r, [reader[r] EXCEPT !.window = all, !.older = Older(all),
                                   !.pc = IF Older(all) = {} THEN "recent" ELSE "model"])
      /\ UNCHANGED summary

\* The model answers: its summary, which may be '', replaces whatever is there.
Summarise(r) ==
  /\ reader[r].pc = "model"
  /\ summary' \in {reader[r].older, {}}
  /\ Move(r, [reader[r] EXCEPT !.pc = "recent"])

\* The SELECT of the recent messages.  Its answer and the release of the connection
\* are awaited.
Fetch(r) ==
  /\ reader[r].pc = "recent"
  /\ Move(r, [reader[r] EXCEPT !.recent = get_recent(KeepRecent), !.pc = "answer"])
  /\ UNCHANGED summary

\* The recent messages have arrived, and the summary of this later moment is put
\* before them.
Return(r) ==
  /\ reader[r].pc = "answer"
  /\ Move(r, [Idle EXCEPT !.pc = "returned"])
  /\ UNCHANGED summary

\* The database or the model raises.
Raises(r) ==
  /\ reader[r].pc \notin Between
  /\ Move(r, [Idle EXCEPT !.pc = "raised"])
  /\ UNCHANGED summary

-----------------------------------------------------------------------------

\* Calls in progress and the dictionary are lost.  (An INSERT that was committed although
\* its answer is lost is AddRaises before the restart.)
Restart ==
  /\ adding' = [w \in Writers |-> NoRow]
  /\ unsure' = unsure \union {adding[w].id : w \in {v \in Writers : adding[v] # NoRow}}
  /\ summary' = {}
  /\ reader' = [r \in Readers |-> Idle]
  /\ UNCHANGED <<rows, clock, sent, cleared>>

-----------------------------------------------------------------------------

Init ==
  /\ rows = {}
  /\ clock = 0
  /\ sent = 0
  /\ adding = [w \in Writers |-> NoRow]
  /\ unsure = {}
  /\ summary = {}
  /\ reader = [r \in Readers |-> Idle]
  /\ cleared = {}

Write(w) == (\E id \in 1 .. MaxMessages : Send(w, id)) \/ Added(w) \/ AddRaises(w)

Read(r) ==
  \/ Begin(r) \/ Count(r) \/ Window(r) \/ Summarise(r)
  \/ Fetch(r) \/ Return(r) \/ Raises(r)

Next == (\E w \in Writers : Write(w)) \/ Clear \/ (\E r \in Readers : Read(r)) \/ Restart

Spec == Init /\ [][Next]_vars

-----------------------------------------------------------------------------

TypeOK ==
  /\ rows \subseteq Row
  /\ clock \in 0 .. MaxClock
  /\ sent \in 0 .. MaxMessages
  /\ adding \in [Writers -> Row \union {NoRow}]
  /\ unsure \subseteq 1 .. sent
  /\ summary \subseteq Row
  /\ Cardinality(summary) <= MaxRaw
  /\ reader \in [Readers -> [pc : Between \union {"count", "window", "model", "recent", "answer"},
                              window : SUBSET Row, older : SUBSET Row, recent : SUBSET Row]]
  /\ cleared \subseteq 1 .. MaxMessages

\* A retried add_message() neither duplicates a message nor moves it, even when the
\* first attempt was committed although it raised, and whatever else was added in
\* between: only clear() takes rows away (conversation.py:74-76).
RetryKeepsPlace ==
  [][/\ rows' # {} => rows \subseteq rows'
     /\ \A m, n \in rows' : m.id = n.id => m = n]_vars

Returns(r) == reader[r].pc = "answer" /\ reader'[r].pc = "returned"

\* The recent messages that the summary of this moment covers too, whatever created_at
\* it knew them by, except those clear() had deleted before they were sent again.
ToldTwice(r) == {m \in reader[r].recent : m.id \notin cleared /\ \E s \in summary : s.id = m.id}

\* A get_recent() tells a message twice, in the summary and raw, only for a newer one it
\* has missed: the summary put in front, made by whichever call and however long ago or
\* late, covers no more of the messages it returns raw than messages have become one of
\* the latest keep_recent since it fetched them (summary.py:78-91).
TellsTwiceForMissed ==
  [][\A r \in Readers : Returns(r) =>
       Cardinality(ToldTwice(r)) <= Cardinality(get_recent(KeepRecent) \ reader[r].recent)]_vars

\* A get_recent() that has summarised, and finds its summary in place at the end, leaves a
\* message of its window untold only for a newer one it returns, whatever was added or
\* cleared between its three reads of the table and during the model call
\* (summary.py:72-91, 98-114).
LosesForNewer ==
  [][\A r \in Readers : Returns(r) /\ reader[r].older # {} /\ summary = reader[r].older =>
       Cardinality((reader[r].window \intersect rows) \ (summary \union reader[r].recent))
         <= Cardinality(reader[r].recent \ reader[r].window)]_vars

=============================================================================
