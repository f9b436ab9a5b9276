------------------------ MODULE SummaryMemoryProofs ------------------------
(***************************************************************************)
(* Proofs about SummaryMemory, for every number of readers and writers,    *)
(* every max_raw_messages and keep_recent.  The inductive invariant says   *)
(* that no two messages share an id or a created_at, inserts under way     *)
(* included, that a message once summarised, or about to be, keeps at      *)
(* least keep_recent newer ones in the table for as long as it is there,   *)
(* that only clear() takes away what a reader has seen, and that a reader  *)
(* misses no more of its window than it has fetched newer messages.        *)
(***************************************************************************)
EXTENDS SummaryMemory, FiniteSetTheorems, OrderLemmas

\* The messages newer than m.
Newer(m) == {o \in rows : o.created_at > m.created_at}

\* What some get_recent() has undertaken to summarise.
Told(m) == m \in summary \/ \E r \in Readers : m \in reader[r].older

\* What some get_recent() has read.
Seen(m) ==
  \/ m \in summary
  \/ \E r \in Readers : m \in reader[r].window \/ m \in reader[r].recent

RowsOK ==
  /\ IsFiniteSet(rows)
  /\ rows \subseteq Row
  /\ \A m \in rows : m.created_at <= clock
  /\ \A m, n \in rows : m.id = n.id \/ m.created_at = n.created_at => m = n

\* An insert under way has a created_at of its own.
AddingOK ==
  \A w \in Writers : adding[w] # NoRow =>
    /\ adding[w].created_at <= clock
    /\ adding[w].id <= sent
    /\ \A m \in rows : m.created_at # adding[w].created_at
    /\ \A v \in Writers \ {w} : adding[v].created_at # adding[w].created_at
    /\ \A m \in Row : Seen(m) => m.created_at # adding[w].created_at

SeenOK ==
  \A m \in Row : Seen(m) =>
    /\ m.created_at <= clock
    /\ m \in rows \/ m.id \in cleared

ToldOK == \A m \in rows : Told(m) => Cardinality(Newer(m)) >= KeepRecent

\* The messages of a reader's window that it does not summarise and has not fetched.
Missing(rd) == (rd.window \intersect rows) \ (rd.older \union rd.recent)

ReaderOK(rd) ==
  /\ rd.older \subseteq rd.window
  /\ Cardinality(rd.older) <= MaxRaw
  /\ rd.pc # "answer" => rd.recent = {}
  /\ Cardinality(rd.recent) <= KeepRecent
  /\ IsFiniteSet(rd.window) /\ IsFiniteSet(rd.recent)
  /\ rd.older # {} => Cardinality(rd.window \ rd.older) <= KeepRecent
  /\ rd.older # {} /\ rd.pc = "answer" =>
       Cardinality(Missing(rd)) <= Cardinality(rd.recent \ rd.window)

ReadersOK == \A r \in Readers : ReaderOK(reader[r])

ReaderType == [pc : Between \union {"count", "window", "model", "recent", "answer"},
               window : SUBSET Row, older : SUBSET Row, recent : SUBSET Row]

TypesOK ==
  /\ clock \in 0 .. MaxClock
  /\ sent \in 0 .. MaxMessages
  /\ adding \in [Writers -> Row \union {NoRow}]
  /\ unsure \subseteq 1 .. sent
  /\ summary \subseteq Row
  /\ Cardinality(summary) <= MaxRaw
  /\ reader \in [Readers -> ReaderType]
  /\ cleared \subseteq 1 .. MaxMessages

MemoryInv == TypesOK /\ RowsOK /\ AddingOK /\ SeenOK /\ ToldOK /\ ReadersOK

-----------------------------------------------------------------------------
(* ConversationMemory.get_recent()                                         *)

LEMMA NewerFinite ==
  ASSUME RowsOK, NEW S \in SUBSET rows
  PROVE  IsFiniteSet(S) /\ Cardinality(S) \in Nat
  BY FS_Subset, FS_CardinalityType DEF RowsOK

\* Of any messages, one is the oldest.
LEMMA Oldest ==
  ASSUME RowsOK, NEW S \in SUBSET rows, S # {}
  PROVE  \E m \in S : \A o \in S : m.created_at <= o.created_at
<1> DEFINE f == [m \in S |-> m.created_at]
<1>1. f \in [S -> Nat]
  BY DEF RowsOK, Row
<1>2. \A m \in S : f[m] = m.created_at
  OBVIOUS
<1> HIDE DEF f
<1>3. QED
  BY <1>1, <1>2, LeastMeasure

\* The latest n of any messages are no more than n.
LEMMA LatestBound ==
  ASSUME RowsOK, NEW S \in SUBSET rows, NEW n \in Nat
  PROVE  Cardinality({m \in S : Cardinality({o \in S : o.created_at > m.created_at}) < n}) <= n
<1> DEFINE after(m) == {o \in S : o.created_at > m.created_at}
           L == {m \in S : Cardinality(after(m)) < n}
<1>1. L \in SUBSET rows /\ L \subseteq S /\ \A m \in L : Cardinality(after(m)) < n
  OBVIOUS
<1>2. \A m \in S : after(m) \in SUBSET rows
  OBVIOUS
<1>3. ASSUME NEW m \in L, \A o \in L : m.created_at <= o.created_at
      PROVE  L \subseteq after(m) \union {m}
  BY <1>1, <1>3 DEF RowsOK, Row
<1> HIDE DEF L, after
<1>4. CASE L = {}
  <2>1. Cardinality(L) <= n
    BY <1>4, FS_EmptySet
  <2>2. QED
    BY <2>1 DEF L, after
<1>5. CASE L # {}
  <2>1. PICK m \in L : \A o \in L : m.created_at <= o.created_at
    BY <1>1, <1>5, Oldest
  <2> DEFINE N == after(m)
  <2>2. L \subseteq N \union {m} /\ Cardinality(N) < n /\ N \in SUBSET rows
    BY <1>1, <1>2, <1>3, <2>1
  <2> HIDE DEF N
  <2>3. IsFiniteSet(N) /\ Cardinality(N) \in Nat
    BY <2>2, NewerFinite
  <2>4. /\ IsFiniteSet(N \union {m})
        /\ Cardinality(N \union {m}) = Cardinality(N) \/ Cardinality(N \union {m}) = Cardinality(N) + 1
    BY <2>3, FS_AddElement, ZenonT(30)
  <2>5. Cardinality(L) <= Cardinality(N \union {m}) /\ Cardinality(L) \in Nat
    BY <1>1, <2>2, <2>4, FS_Subset, NewerFinite
  <2>6. Cardinality(L) <= n
    BY <2>2, <2>3, <2>4, <2>5
  <2>7. QED
    BY <2>6 DEF L, after
<1>6. QED
  BY <1>4, <1>5

\* LIMIT n is kept.
LEMMA RecentBound ==
  ASSUME RowsOK, NEW n \in Nat
  PROVE  Cardinality(get_recent(n)) <= n /\ get_recent(n) \subseteq rows
<1>1. rows \in SUBSET rows
  OBVIOUS
<1>2. QED
  BY <1>1, LatestBound DEF get_recent

\* And no n messages are more than the latest n.
LEMMA RecentIsFull ==
  ASSUME RowsOK, clock \in Nat, NEW n \in Nat, NEW S \in SUBSET rows, Cardinality(S) <= n
  PROVE  Cardinality(S) <= Cardinality(get_recent(n))
<1> DEFINE G == get_recent(n)
<1>1. G \in SUBSET rows /\ G = {m \in rows : Cardinality(Newer(m)) < n}
  BY DEF get_recent, Newer
<1> HIDE DEF G
<1>2. IsFiniteSet(G) /\ Cardinality(G) \in Nat /\ Cardinality(S) \in Nat
  BY <1>1, NewerFinite
<1>3. CASE S \subseteq G
  BY <1>2, <1>3, FS_Subset DEF G
<1>4. ASSUME NEW x \in S, x \notin G
      PROVE  n <= Cardinality(G)
  <2>1. PICK m \in rows \ G : \A o \in rows \ G : o.created_at <= m.created_at
    <3> DEFINE B == rows \ G
               f == [o \in B |-> clock - o.created_at]
    <3>1. f \in [B -> Nat] /\ B # {}
      BY <1>4 DEF RowsOK, Row
    <3>2. \A o \in B : f[o] = clock - o.created_at /\ o.created_at \in Nat
      BY DEF RowsOK, Row
    <3> HIDE DEF f, B
    <3>3. \E m \in B : \A o \in B : f[m] <= f[o]
      BY <3>1, LeastMeasure
    <3>4. \E m \in B : \A o \in B : o.created_at <= m.created_at
      BY <3>2, <3>3
    <3>5. QED
      BY <3>4 DEF B
  <2>2. Newer(m) \subseteq G
    BY <2>1 DEF Newer, RowsOK, Row
  <2>3. Cardinality(Newer(m)) <= Cardinality(G) /\ Cardinality(Newer(m)) \in Nat
    BY <1>2, <2>2, NewerFinite, FS_Subset DEF Newer
  <2>4. ~ (Cardinality(Newer(m)) < n)
    BY <1>1, <2>1
  <2>5. QED
    BY <1>2, <2>3, <2>4
<1>5. QED
  BY <1>2, <1>3, <1>4 DEF G

\* Of two sets, the one that is no larger has no more elements of its own.
LEMMA FewerOfItsOwn ==
  ASSUME NEW A, NEW B, IsFiniteSet(A), IsFiniteSet(B), Cardinality(A) <= Cardinality(B)
  PROVE  Cardinality(A \ B) <= Cardinality(B \ A)
<1>1. /\ Cardinality(A \ B) = Cardinality(A) - Cardinality(A \intersect B)
      /\ Cardinality(B \ A) = Cardinality(B) - Cardinality(B \intersect A)
  BY FS_Difference, ZenonT(30)
<1>2. A \intersect B = B \intersect A /\ IsFiniteSet(A \intersect B)
  BY FS_Intersection
<1>3. Cardinality(A) \in Nat /\ Cardinality(B) \in Nat /\ Cardinality(A \intersect B) \in Nat
  BY <1>2, FS_CardinalityType
<1> DEFINE a == Cardinality(A)  b == Cardinality(B)  c == Cardinality(A \intersect B)
<1>4. Cardinality(A \ B) = a - c /\ Cardinality(B \ A) = b - c
  BY <1>1, <1>2
<1> HIDE DEF c
<1>5. QED
  BY <1>3, <1>4 DEF c

\* What _compress() summarises: the window without its last keep_recent messages.
LEMMA OlderOfWindow ==
  ASSUME RowsOK, MemoryAssumption, NEW all, all = get_recent(MaxRaw)
  PROVE  /\ all \subseteq rows /\ Older(all) \subseteq all
         /\ IsFiniteSet(all) /\ Cardinality(Older(all)) <= MaxRaw
         /\ \A m \in Older(all) : Cardinality(Newer(m)) >= KeepRecent
         /\ Older(all) # {} => Cardinality(all \ Older(all)) <= KeepRecent
<1> DEFINE after(m) == {o \in all : o.created_at > m.created_at}
<1>1. all \in SUBSET rows /\ Cardinality(all) <= MaxRaw
  BY RecentBound, MemoryAssumption
<1>2. /\ Older(all) \subseteq all
      /\ \A m \in Older(all) : Cardinality(after(m)) >= KeepRecent
  BY DEF Older
<1>3. /\ IsFiniteSet(all) /\ Cardinality(all) \in Nat
      /\ Cardinality(Older(all)) <= Cardinality(all) /\ Cardinality(Older(all)) \in Nat
  BY <1>1, <1>2, NewerFinite, FS_Subset
<1>4. ASSUME NEW m \in Older(all)
      PROVE  Cardinality(Newer(m)) >= KeepRecent
  <2>1. after(m) \subseteq Newer(m) /\ Newer(m) \in SUBSET rows /\ after(m) \in SUBSET rows
    BY <1>1 DEF Newer
  <2>2. Cardinality(after(m)) >= KeepRecent
    BY <1>2
  <2> HIDE DEF after
  <2>3. IsFiniteSet(Newer(m)) /\ Cardinality(Newer(m)) \in Nat /\ Cardinality(after(m)) \in Nat
    BY <2>1, NewerFinite
  <2>4. Cardinality(after(m)) <= Cardinality(Newer(m))
    BY <2>1, <2>3, FS_Subset
  <2>5. QED
    BY <2>2, <2>3, <2>4, MemoryAssumption
<1>5. ASSUME Older(all) # {}
      PROVE  Cardinality(all \ Older(all)) <= KeepRecent
  <2>1. KeepRecent # 0
    BY <1>5 DEF Older
  <2>2. \A m \in all : Cardinality(after(m)) \in Nat
    BY <1>1, NewerFinite
  <2>3. all \ Older(all) = {m \in all : Cardinality(after(m)) < KeepRecent}
    BY <2>1, <2>2, MemoryAssumption DEF Older
  <2>4. Cardinality({m \in all : Cardinality(after(m)) < KeepRecent}) <= KeepRecent
    BY <1>1, LatestBound, MemoryAssumption
  <2>5. QED
    BY <2>3, <2>4
<1>6. QED
  BY <1>1, <1>2, <1>3, <1>4, <1>5, MemoryAssumption

-----------------------------------------------------------------------------
(* ConversationMemory.add_message() and clear()                            *)

\* A reader that has read nothing.
LEMMA IdleOK == ReaderOK(Idle)
BY FS_EmptySet, MemoryAssumption DEF ReaderOK, Idle

\* What is to be summarised has been read.
LEMMA ToldIsSeen ==
  ASSUME MemoryInv
  PROVE  \A m : Told(m) => Seen(m)
BY DEF MemoryInv, ReadersOK, ReaderOK, Told, Seen

\* Inserts under way stay apart from one another when one of them ends.
LEMMA OthersStillAdd ==
  ASSUME MemoryInv, UNCHANGED <<clock, sent>>,
         adding' \in [Writers -> Row \union {NoRow}],
         \A w \in Writers : adding'[w] \in {adding[w], NoRow},
         \A w \in Writers, m \in rows' : adding'[w] # NoRow => m.created_at # adding'[w].created_at,
         \A m \in Row : Seen(m)' => Seen(m) \/ m \in rows
  PROVE  AddingOK'
<1> SUFFICES ASSUME NEW v \in Writers, adding'[v] # NoRow
             PROVE  /\ adding'[v].created_at <= clock'
                    /\ adding'[v].id <= sent'
                    /\ \A m \in rows' : m.created_at # adding'[v].created_at
                    /\ \A u \in Writers \ {v} : adding'[u].created_at # adding'[v].created_at
                    /\ \A m \in Row : Seen(m)' => m.created_at # adding'[v].created_at
  BY DEF AddingOK
<1>1. adding'[v] = adding[v] /\ adding[v] \in Row
  BY DEF MemoryInv, TypesOK
<1>2. adding[v].created_at # 0
  BY <1>1 DEF Row
<1>3. \A u \in Writers \ {v} : adding'[u].created_at # adding'[v].created_at
  BY <1>1, <1>2 DEF MemoryInv, AddingOK, NoRow
<1>4. \A m \in Row : Seen(m)' => m.created_at # adding'[v].created_at
  BY <1>1 DEF MemoryInv, AddingOK
<1>5. QED
  BY <1>1, <1>3, <1>4 DEF MemoryInv, AddingOK

\* A new message is newer than some, pushes none of the summarised ones back, and is in
\* nobody's window yet.
LEMMA InsertKeepsMemory ==
  ASSUME MemoryInv, NEW w \in Writers, adding[w] # NoRow,
         rows' \in {rows, insert(adding[w])},
         adding' = [adding EXCEPT ![w] = NoRow],
         UNCHANGED <<clock, sent, summary, reader, cleared>>
  PROVE  RowsOK' /\ AddingOK' /\ SeenOK' /\ ToldOK' /\ ReadersOK'
<1> USE DEF MemoryInv, TypesOK
<1>0. \A m : (Told(m)' <=> Told(m)) /\ (Seen(m)' <=> Seen(m))
  BY DEF Told, Seen
<1>1. adding[w] \in Row /\ adding[w].created_at \in Nat
  BY DEF Row
<1>2. \A m \in rows' : m \in rows \/ m = adding[w]
  BY DEF insert
<1>3. rows \subseteq rows' /\ IsFiniteSet(rows')
  BY FS_AddElement DEF insert, RowsOK
<1>4. rows' \subseteq Row /\ \A m \in rows' : m.created_at <= clock'
  BY <1>1, <1>2 DEF RowsOK, AddingOK
<1>5. \A m, n \in rows' : m.id = n.id \/ m.created_at = n.created_at => m = n
  <2>1. CASE rows' = rows
    BY <2>1 DEF RowsOK
  <2>2. CASE rows' # rows
    <3>1. rows' = rows \union {adding[w]} /\ \A m \in rows : m.id # adding[w].id
      BY <2>2 DEF insert
    <3>2. QED
      BY <3>1 DEF RowsOK, AddingOK
  <2>3. QED
    BY <2>1, <2>2
<1>6. RowsOK'
  BY <1>3, <1>4, <1>5 DEF RowsOK
<1>7. AddingOK'
  <2>1. /\ adding' \in [Writers -> Row \union {NoRow}]
        /\ \A v \in Writers : adding'[v] \in {adding[v], NoRow}
    BY DEF NoRow
  <2>2. \A v \in Writers, m \in rows' :
          adding'[v] # NoRow => m.created_at # adding'[v].created_at
    <3> SUFFICES ASSUME NEW v \in Writers, NEW m \in rows', adding'[v] # NoRow
                 PROVE  m.created_at # adding'[v].created_at
      OBVIOUS
    <3>1. v # w /\ adding'[v] = adding[v] /\ adding[v] # NoRow
      OBVIOUS
    <3>2. QED
      BY <1>2, <3>1 DEF AddingOK
  <2>3. QED
    BY <1>0, <2>1, <2>2, OthersStillAdd
<1>8. ToldOK'
  <2> SUFFICES ASSUME NEW m \in rows', Told(m)
               PROVE  Cardinality(Newer(m))' >= KeepRecent
    BY <1>0 DEF ToldOK
  <2>1. m \in rows
    BY <1>1, <1>2, ToldIsSeen DEF AddingOK
  <2>2. Cardinality(Newer(m)) >= KeepRecent
    BY <2>1 DEF ToldOK
  <2>3. Newer(m) \subseteq Newer(m)' /\ Newer(m)' \subseteq rows'
    BY <1>3 DEF Newer
  <2>4. IsFiniteSet(Newer(m)')
    BY <1>3, <2>3, FS_Subset
  <2>5. Cardinality(Newer(m)) <= Cardinality(Newer(m)')
    BY <2>3, <2>4, FS_Subset
  <2>6. Cardinality(Newer(m)) \in Nat /\ Cardinality(Newer(m)') \in Nat
    BY <2>3, <2>4, FS_Subset, FS_CardinalityType
  <2>7. QED
    BY <2>2, <2>5, <2>6, MemoryAssumption
<1>9. SeenOK'
  BY <1>0, <1>3 DEF SeenOK
<1>10. ReadersOK'
  <2> SUFFICES ASSUME NEW r \in Readers
               PROVE  ReaderOK(reader[r])'
    BY DEF ReadersOK
  <2>1. \A m \in reader[r].window : m \in rows' => m \in rows
    <3> SUFFICES ASSUME adding[w] \in reader[r].window
                 PROVE  FALSE
      BY <1>2
    <3>1. Seen(adding[w])
      BY DEF Seen
    <3>2. QED
      BY <1>1, <3>1 DEF AddingOK
  <2>2. Missing(reader[r])' = Missing(reader[r])
    BY <1>3, <2>1 DEF Missing
  <2>3. QED
    BY <2>2 DEF ReadersOK, ReaderOK
<1>11. QED
  BY <1>6, <1>7, <1>8, <1>9, <1>10

\* The new insert has read the clock last.
LEMMA SendKeepsMemory ==
  ASSUME MemoryInv, NEW w \in Writers, NEW id \in 1 .. MaxMessages, Send(w, id)
  PROVE  MemoryInv'
<1> USE DEF MemoryInv
<1> DEFINE row == [id |-> id, created_at |-> clock + 1]
<1>0. MaxClock \in Nat /\ MaxMessages \in Nat /\ clock \in Nat /\ sent \in Nat
  BY MemoryAssumption DEF TypesOK
<1>1. /\ clock' = clock + 1 /\ clock' \in 0 .. MaxClock
      /\ sent' \in Nat /\ sent' >= sent /\ sent' >= id /\ sent' \in 0 .. MaxMessages
      /\ row \in Row /\ row # NoRow /\ row.id = id /\ row.created_at = clock + 1
  BY <1>0 DEF Send, TypesOK, Row, NoRow
<1>2. adding' = [adding EXCEPT ![w] = row] /\ UNCHANGED <<rows, summary, reader, cleared>>
  BY DEF Send
<1>3. unsure' \subseteq 1 .. sent'
  <2>1. unsure' \subseteq unsure /\ unsure \subseteq 1 .. sent
    BY DEF Send, TypesOK
  <2>2. \A i \in 1 .. sent : i \in 1 .. sent'
    BY <1>0, <1>1
  <2>3. QED
    BY <2>1, <2>2
<1> HIDE DEF row
<1>4. \A m : (Told(m)' <=> Told(m)) /\ (Seen(m)' <=> Seen(m))
  BY <1>2 DEF Told, Seen
<1>5. RowsOK'
  BY <1>0, <1>1, <1>2 DEF RowsOK, Row
<1>6. TypesOK'
  BY <1>1, <1>2, <1>3 DEF TypesOK
<1>7. AddingOK'
  <2> SUFFICES ASSUME NEW v \in Writers, adding'[v] # NoRow
               PROVE  /\ adding'[v].created_at <= clock'
                      /\ adding'[v].id <= sent'
                      /\ \A m \in rows' : m.created_at # adding'[v].created_at
                      /\ \A u \in Writers \ {v} : adding'[u].created_at # adding'[v].created_at
                      /\ \A m \in Row : Seen(m)' => m.created_at # adding'[v].created_at
    BY DEF AddingOK
  <2>1. \A u \in Writers : adding[u].created_at \in 0 .. clock /\ adding[u].id \in 0 .. sent
    BY <1>0 DEF AddingOK, TypesOK, Row, NoRow
  <2>2. adding'[w] = row /\ \A u \in Writers \ {w} : adding'[u] = adding[u]
    BY <1>2 DEF TypesOK
  <2>3. CASE v = w
    <3>1. \A m \in rows : m.created_at # clock + 1
      BY <1>0 DEF RowsOK, Row
    <3>2. \A m \in Row : Seen(m) => m.created_at # clock + 1
      BY <1>0 DEF SeenOK, Row
    <3>3. QED
      BY <1>0, <1>1, <1>2, <1>4, <2>1, <2>2, <2>3, <3>1, <3>2
  <2>4. CASE v # w
    <3>1. adding'[v] = adding[v] /\ adding[v] # NoRow
      BY <2>2, <2>4
    <3>2. adding[v].created_at <= clock' /\ adding[v].id <= sent'
      BY <1>0, <1>1, <2>1
    <3>3. \A u \in Writers \ {v} : adding'[u].created_at # adding[v].created_at
      BY <1>0, <1>1, <2>1, <2>2, <2>4, <3>1 DEF AddingOK
    <3>4. QED
      BY <1>2, <1>4, <3>1, <3>2, <3>3 DEF AddingOK
  <2>5. QED
    BY <2>3, <2>4
<1>8. ToldOK' /\ SeenOK' /\ ReadersOK'
  <2>1. \A m \in Row : m.created_at \in Nat
    BY DEF Row
  <2>2. \A m : Newer(m)' = Newer(m)
    BY <1>2 DEF Newer
  <2>3. ToldOK'
    BY <1>2, <1>4, <2>2 DEF ToldOK
  <2>4. SeenOK'
    BY <1>0, <1>1, <1>2, <1>4, <2>1 DEF SeenOK
  <2>5. ReadersOK'
    BY <1>2 DEF ReadersOK, ReaderOK, Missing
  <2>6. QED
    BY <2>3, <2>4, <2>5
<1>9. QED
  BY <1>5, <1>6, <1>7, <1>8

LEMMA WriteKeepsMemory ==
  ASSUME MemoryInv, NEW w \in Writers, Write(w)
  PROVE  MemoryInv'
<1>1. CASE \E id \in 1 .. MaxMessages : Send(w, id)
  BY <1>1, SendKeepsMemory
<1>2. CASE Added(w) \/ AddRaises(w)
  <2>1. /\ adding[w] # NoRow /\ rows' \in {rows, insert(adding[w])}
        /\ adding' = [adding EXCEPT ![w] = NoRow] /\ reader' = reader
        /\ clock' = clock /\ sent' = sent /\ summary' = summary /\ cleared' = cleared
        /\ unsure' \in {unsure, unsure \union {adding[w].id}}
    BY <1>2 DEF Added, AddRaises
  <2>2. RowsOK' /\ AddingOK' /\ SeenOK' /\ ToldOK' /\ ReadersOK'
    BY <2>1, InsertKeepsMemory
  <2>3. adding[w].id \in 1 .. sent
    BY <2>1 DEF MemoryInv, AddingOK, TypesOK, Row
  <2>4. TypesOK'
    BY <2>1, <2>3 DEF MemoryInv, TypesOK
  <2>5. QED
    BY <2>2, <2>4 DEF MemoryInv
<1>3. QED
  BY <1>1, <1>2 DEF Write

\* Nothing is left to be missing, and what was seen is among the cleared.
LEMMA ClearKeepsMemory ==
  ASSUME MemoryInv, Clear
  PROVE  MemoryInv'
<1>1. /\ rows' = {} /\ reader' = reader /\ clock' = clock /\ sent' = sent
      /\ adding' = adding /\ unsure' = unsure /\ summary' = summary
      /\ cleared' = cleared \union {m.id : m \in rows}
  BY DEF Clear
<1>2. \A m : (Told(m)' <=> Told(m)) /\ (Seen(m)' <=> Seen(m))
  BY <1>1 DEF Told, Seen
<1>3. TypesOK'
  <2>1. \A m \in rows : m.id \in 1 .. MaxMessages
    BY DEF MemoryInv, RowsOK, Row
  <2>2. cleared' \subseteq 1 .. MaxMessages
    BY <1>1, <2>1 DEF MemoryInv, TypesOK
  <2>3. QED
    BY <1>1, <2>2 DEF MemoryInv, TypesOK
<1>4. RowsOK' /\ AddingOK' /\ ToldOK'
  BY <1>1, <1>2, FS_EmptySet DEF MemoryInv, RowsOK, AddingOK, ToldOK
<1>5. SeenOK'
  BY <1>1, <1>2 DEF MemoryInv, SeenOK
<1>6. ReadersOK'
  <2> SUFFICES ASSUME NEW r \in Readers
               PROVE  ReaderOK(reader[r])'
    BY DEF ReadersOK
  <2>1. Missing(reader[r])' = {}
    BY <1>1 DEF Missing
  <2>2. ReaderOK(reader[r])
    BY DEF MemoryInv, ReadersOK
  <2>3. Cardinality(reader[r].recent \ reader[r].window) \in Nat
    BY <2>2, FS_Difference, FS_CardinalityType DEF ReaderOK
  <2>4. Cardinality(Missing(reader[r])') = 0
    BY <2>1, FS_EmptySet
  <2>5. QED
    BY <1>1, <2>2, <2>3, <2>4 DEF ReaderOK
<1>7. QED
  BY <1>3, <1>4, <1>5, <1>6 DEF MemoryInv

-----------------------------------------------------------------------------
(* SummaryMemory.get_recent()                                              *)

\* A reader may take up what is in the table, and summarise of it what has enough newer
\* messages.
LEMMA ReaderMoves ==
  ASSUME MemoryInv, NEW r \in Readers, NEW rd \in ReaderType, Move(r, rd), ReaderOK(rd),
         summary' \subseteq Row, Cardinality(summary') <= MaxRaw,
         \A m \in summary' : Told(m),
         \A m \in rd.older : Told(m) \/ Cardinality(Newer(m)) >= KeepRecent,
         \A m \in rd.window \union rd.recent : Seen(m) \/ m \in rows
  PROVE  MemoryInv'
<1> USE DEF MemoryInv
<1>1. /\ reader' = [reader EXCEPT ![r] = rd] /\ rows' = rows /\ clock' = clock
      /\ sent' = sent /\ adding' = adding /\ unsure' = unsure /\ cleared' = cleared
  BY DEF Move
<1>2. reader'[r] = rd /\ \A q \in Readers \ {r} : reader'[q] = reader[q]
  BY <1>1 DEF TypesOK
<1>3. \A m : Told(m)' => Told(m) \/ m \in rd.older
  BY <1>2 DEF Told
<1>4. \A m : Seen(m)' => Seen(m) \/ m \in rows
  BY <1>2, ToldIsSeen DEF Seen
<1>5. \A m : Newer(m)' = Newer(m)
  BY <1>1 DEF Newer
<1>6. TypesOK'
  BY <1>1 DEF TypesOK
<1>7. RowsOK' /\ SeenOK' /\ ToldOK'
  BY <1>1, <1>3, <1>4, <1>5 DEF RowsOK, SeenOK, ToldOK
<1>8. AddingOK'
  <2>1. \A w \in Writers, m \in rows' : adding'[w] # NoRow => m.created_at # adding'[w].created_at
    BY <1>1 DEF AddingOK
  <2>2. adding' \in [Writers -> Row \union {NoRow}] /\ \A w \in Writers : adding'[w] \in {adding[w], NoRow}
    BY <1>1 DEF TypesOK
  <2>3. QED
    BY <1>1, <1>4, <2>1, <2>2, OthersStillAdd
<1>9. ReadersOK'
  <2> SUFFICES ASSUME NEW q \in Readers
               PROVE  ReaderOK(reader[q])'
    BY DEF ReadersOK
  <2>1. CASE q = r
    BY <1>1, <1>2, <2>1 DEF ReaderOK, Missing
  <2>2. CASE q # r
    BY <1>1, <1>2, <2>2 DEF ReadersOK, ReaderOK, Missing
  <2>3. QED
    BY <2>1, <2>2
<1>10. QED
  BY <1>6, <1>7, <1>8, <1>9

\* For each message of the window that is neither summarised nor among the latest now, one
\* that is not of the window is.
LEMMA FetchMisses ==
  ASSUME MemoryInv, NEW r \in Readers, reader[r].older # {},
         NEW recent, recent = get_recent(KeepRecent)
  PROVE  Cardinality((reader[r].window \intersect rows) \ (reader[r].older \union recent))
           <= Cardinality(recent \ reader[r].window)
<1> DEFINE left == reader[r].window \ reader[r].older
           A == left \intersect rows
<1>1. ReaderOK(reader[r]) /\ RowsOK /\ clock \in Nat /\ KeepRecent \in Nat
  BY MemoryAssumption DEF MemoryInv, ReadersOK, TypesOK
<1>2. IsFiniteSet(left) /\ Cardinality(left) <= KeepRecent
  BY <1>1, FS_Difference DEF ReaderOK
<1>3. A \in SUBSET rows /\ IsFiniteSet(A) /\ Cardinality(A) <= KeepRecent
  <2>1. A \subseteq left /\ A \in SUBSET rows
    OBVIOUS
  <2> HIDE DEF A, left
  <2>2. IsFiniteSet(A) /\ Cardinality(A) <= Cardinality(left)
    BY <1>2, <2>1, FS_Subset
  <2>3. Cardinality(A) \in Nat /\ Cardinality(left) \in Nat
    BY <1>2, <2>2, FS_CardinalityType
  <2>4. QED
    BY <1>1, <1>2, <2>1, <2>2, <2>3
<1>4. recent \in SUBSET rows /\ IsFiniteSet(recent)
  BY <1>1, RecentBound, NewerFinite
<1>5. \A m \in recent : m \notin reader[r].older
  <2> SUFFICES ASSUME NEW m \in recent, m \in reader[r].older
               PROVE  FALSE
    OBVIOUS
  <2>1. m \in rows /\ Cardinality(Newer(m)) < KeepRecent
    BY DEF get_recent, Newer
  <2>2. Cardinality(Newer(m)) >= KeepRecent
    BY <2>1 DEF MemoryInv, ToldOK, Told
  <2>3. Cardinality(Newer(m)) \in Nat
    BY <1>1, NewerFinite DEF Newer
  <2>4. QED
    BY <1>1, <2>1, <2>2, <2>3
<1>6. /\ (reader[r].window \intersect rows) \ (reader[r].older \union recent) = A \ recent
      /\ recent \ reader[r].window = recent \ A
  BY <1>4, <1>5
<1> HIDE DEF A
<1>7. Cardinality(A) <= Cardinality(recent)
  BY <1>1, <1>3, RecentIsFull
<1>8. Cardinality(A \ recent) <= Cardinality(recent \ A)
  BY <1>3, <1>4, <1>7, FewerOfItsOwn
<1>9. QED
  BY <1>6, <1>8

LEMMA ReadKeepsMemory ==
  ASSUME MemoryInv, NEW r \in Readers, Read(r)
  PROVE  MemoryInv'
<1>0. /\ reader[r] \in ReaderType /\ ReaderOK(reader[r]) /\ RowsOK
      /\ summary \subseteq Row /\ Cardinality(summary) <= MaxRaw
      /\ \A m \in summary : Told(m)
      /\ \A m \in reader[r].older : Told(m)
      /\ \A m \in reader[r].window \union reader[r].recent : Seen(m)
  BY DEF MemoryInv, TypesOK, ReadersOK, Told, Seen
<1>1. ASSUME NEW pc \in {"count", "returned", "raised"}, Move(r, [Idle EXCEPT !.pc = pc]),
             UNCHANGED summary
      PROVE  MemoryInv'
  <2> DEFINE rd == [Idle EXCEPT !.pc = pc]
  <2>1. rd.pc = pc /\ rd.window = {} /\ rd.older = {} /\ rd.recent = {} /\ rd \in ReaderType
    BY <1>1 DEF Idle, ReaderType, Between
  <2> HIDE DEF rd
  <2>2. ReaderOK(rd)
    BY <1>1, <2>1, FS_EmptySet, MemoryAssumption DEF ReaderOK
  <2>3. Move(r, rd)
    BY <1>1 DEF rd
  <2>4. QED
    BY <1>0, <1>1, <2>1, <2>2, <2>3, ReaderMoves
<1>2. ASSUME NEW pc \in {"window", "recent"}, reader[r].pc \in {"count", "model"},
             Move(r, [reader[r] EXCEPT !.pc = pc]),
             summary' \in {summary, reader[r].older, {}}
      PROVE  MemoryInv'
  <2> DEFINE rd == [reader[r] EXCEPT !.pc = pc]
  <2>1. /\ rd.pc = pc /\ rd.window = reader[r].window /\ rd.older = reader[r].older
        /\ rd.recent = reader[r].recent /\ rd \in ReaderType
    BY <1>0, <1>2 DEF ReaderType
  <2> HIDE DEF rd
  <2>2. ReaderOK(rd)
    BY <1>0, <1>2, <2>1 DEF ReaderOK
  <2>3. /\ summary' \subseteq Row /\ Cardinality(summary') <= MaxRaw
        /\ \A m \in summary' : Told(m)
    BY <1>0, <1>2, FS_EmptySet, MemoryAssumption DEF ReaderType, ReaderOK
  <2>4. Move(r, rd)
    BY <1>2 DEF rd
  <2>5. QED
    BY <1>0, <2>1, <2>2, <2>3, <2>4, ReaderMoves
<1>3. CASE Count(r)
  BY <1>2, <1>3 DEF Count
<1>4. CASE Summarise(r)
  BY <1>2, <1>4 DEF Summarise
<1>5. CASE Begin(r) \/ Return(r) \/ Raises(r)
  BY <1>1, <1>5 DEF Begin, Return, Raises
<1>6. CASE Window(r)
  <2> DEFINE all == get_recent(MaxRaw)
             older == Older(all)
             rd == [reader[r] EXCEPT !.window = all, !.older = older,
                                     !.pc = IF older = {} THEN "recent" ELSE "model"]
  <2>1. /\ reader[r].pc = "window" /\ summary' = summary /\ Move(r, rd)
    BY <1>6 DEF Window
  <2>2. /\ all \subseteq rows /\ older \subseteq all /\ rows \subseteq Row
        /\ IsFiniteSet(all) /\ Cardinality(older) <= MaxRaw
        /\ \A m \in older : Cardinality(Newer(m)) >= KeepRecent
        /\ older # {} => Cardinality(all \ older) <= KeepRecent
    BY <1>0, OlderOfWindow, MemoryAssumption DEF RowsOK
  <2> HIDE DEF older, all
  <2>3. /\ rd.pc \in {"recent", "model"} /\ rd.window = all /\ rd.older = older
        /\ rd.recent = reader[r].recent /\ rd \in ReaderType
    BY <1>0, <2>2 DEF ReaderType
  <2> HIDE DEF rd
  <2>4. ReaderOK(rd)
    BY <1>0, <2>1, <2>2, <2>3 DEF ReaderOK
  <2>5. /\ \A m \in rd.older : Cardinality(Newer(m)) >= KeepRecent
        /\ \A m \in rd.window \union rd.recent : Seen(m) \/ m \in rows
    BY <1>0, <2>2, <2>3
  <2>6. QED
    BY <1>0, <2>1, <2>3, <2>4, <2>5, ReaderMoves
<1>7. CASE Fetch(r)
  <2> DEFINE recent == get_recent(KeepRecent)
             rd == [reader[r] EXCEPT !.recent = recent, !.pc = "answer"]
  <2>1. /\ summary' = summary /\ Move(r, rd)
    BY <1>7 DEF Fetch
  <2>2. /\ recent \in SUBSET rows /\ rows \subseteq Row /\ Cardinality(recent) <= KeepRecent
        /\ IsFiniteSet(recent)
    BY <1>0, RecentBound, NewerFinite, MemoryAssumption DEF RowsOK
  <2>3. reader[r].older # {} =>
          Cardinality((reader[r].window \intersect rows) \ (reader[r].older \union recent))
            <= Cardinality(recent \ reader[r].window)
    BY FetchMisses
  <2> HIDE DEF recent
  <2>4. /\ rd.pc = "answer" /\ rd.window = reader[r].window /\ rd.older = reader[r].older
        /\ rd.recent = recent /\ rd \in ReaderType
    BY <1>0, <2>2 DEF ReaderType
  <2> HIDE DEF rd
  <2>5. ReaderOK(rd)
    BY <1>0, <2>2, <2>3, <2>4 DEF ReaderOK, Missing
  <2>6. \A m \in rd.window \union rd.recent : Seen(m) \/ m \in rows
    BY <1>0, <2>2, <2>4
  <2>7. QED
    BY <1>0, <2>1, <2>4, <2>5, <2>6, ReaderMoves
<1>8. QED
  BY <1>3, <1>4, <1>5, <1>6, <1>7 DEF Read

\* The summary and the calls under way are lost, the messages are not.
LEMMA RestartKeepsMemory ==
  ASSUME MemoryInv, Restart
  PROVE  MemoryInv'
<1> USE DEF MemoryInv
<1>1. /\ rows' = rows /\ clock' = clock /\ sent' = sent /\ cleared' = cleared
      /\ adding' = [w \in Writers |-> NoRow] /\ summary' = {}
      /\ reader' = [r \in Readers |-> Idle]
      /\ unsure' = unsure \union {adding[w].id : w \in {v \in Writers : adding[v] # NoRow}}
  BY DEF Restart
<1>2. \A w \in Writers : adding[w] # NoRow => adding[w].id \in 1 .. sent
  BY DEF AddingOK, TypesOK, Row
<1>3. TypesOK'
  <2>1. unsure' \subseteq 1 .. sent
    BY <1>1, <1>2 DEF TypesOK
  <2>2. Idle \in ReaderType
    BY DEF Idle, ReaderType, Between
  <2>3. Cardinality({}) <= MaxRaw
    BY FS_EmptySet, MemoryAssumption
  <2>4. QED
    BY <1>1, <2>1, <2>2, <2>3 DEF TypesOK
<1>4. \A m : ~ Told(m)' /\ ~ Seen(m)'
  BY <1>1 DEF Told, Seen, Idle
<1>5. RowsOK' /\ SeenOK' /\ ToldOK' /\ AddingOK'
  BY <1>1, <1>4 DEF RowsOK, SeenOK, ToldOK, AddingOK
<1>6. ReadersOK'
  BY <1>1, IdleOK DEF ReadersOK, ReaderOK, Idle, Missing
<1>7. QED
  BY <1>3, <1>5, <1>6

LEMMA InitMemory == Init => MemoryInv
<1> SUFFICES ASSUME Init PROVE MemoryInv
  OBVIOUS
<1>1. TypesOK
  BY FS_EmptySet, MemoryAssumption DEF Init, TypesOK, ReaderType, Idle, Between
<1>2. \A m : ~ Told(m) /\ ~ Seen(m)
  BY DEF Init, Told, Seen, Idle
<1>3. RowsOK /\ AddingOK /\ SeenOK /\ ToldOK
  BY <1>2, FS_EmptySet DEF Init, RowsOK, AddingOK, SeenOK, ToldOK
<1>4. ReadersOK
  BY IdleOK DEF Init, ReadersOK
<1>5. QED
  BY <1>1, <1>3, <1>4 DEF MemoryInv

LEMMA StepKeepsMemory == MemoryInv /\ [Next]_vars => MemoryInv'
<1> SUFFICES ASSUME MemoryInv, [Next]_vars PROVE MemoryInv'
  OBVIOUS
<1>1. CASE UNCHANGED vars
  BY <1>1 DEF vars, MemoryInv, TypesOK, RowsOK, AddingOK, SeenOK, ToldOK, ReadersOK, ReaderOK,
              Missing, Told, Seen, Newer
<1>2. CASE Next
  BY <1>2, WriteKeepsMemory, ClearKeepsMemory, ReadKeepsMemory, RestartKeepsMemory DEF Next
<1>3. QED
  BY <1>1, <1>2

THEOREM MemoryInvariant == Spec => []MemoryInv
  BY InitMemory, StepKeepsMemory, PTL DEF Spec

\* The table, the clock, the summary and every get_recent() keep their types, and a
\* summary covers at most max_raw_messages messages.
THEOREM TypeCorrect == Spec => []TypeOK
<1>1. MemoryInv => TypeOK
  BY DEF MemoryInv, TypesOK, RowsOK, TypeOK, ReaderType
<1>2. QED
  BY <1>1, MemoryInvariant, PTL

\* A retried add_message() adds nothing twice and moves nothing.
THEOREM RetriesKeepPlace == Spec => RetryKeepsPlace
<1>1. MemoryInv /\ MemoryInv' /\ [Next]_vars =>
        [/\ rows' # {} => rows \subseteq rows'
         /\ \A m, n \in rows' : m.id = n.id => m = n]_vars
  <2> SUFFICES ASSUME MemoryInv, MemoryInv', [Next]_vars
               PROVE  /\ rows' # {} => rows \subseteq rows'
                      /\ \A m, n \in rows' : m.id = n.id => m = n
    OBVIOUS
  <2>1. \A m, n \in rows' : m.id = n.id => m = n
    BY DEF MemoryInv, RowsOK
  <2>2. rows' # {} => rows \subseteq rows'
    BY DEF Next, Write, Read, Send, Added, AddRaises, insert, Clear, Begin, Count, Window,
           Summarise, Fetch, Return, Raises, Move, Restart, vars
  <2>3. QED
    BY <2>1, <2>2
<1>2. QED
  BY <1>1, MemoryInvariant, PTL DEF Spec, RetryKeepsPlace

-----------------------------------------------------------------------------
(* What a get_recent() tells                                               *)

\* A message told twice is one that newer messages have since displaced among the latest.
LEMMA TwiceForMissed ==
  ASSUME MemoryInv, NEW r \in Readers
  PROVE  Cardinality(ToldTwice(r)) <= Cardinality(get_recent(KeepRecent) \ reader[r].recent)
<1> DEFINE T == ToldTwice(r)
           G == get_recent(KeepRecent)
           A == reader[r].recent \intersect rows
<1>1. /\ ReaderOK(reader[r]) /\ reader[r] \in ReaderType /\ RowsOK /\ clock \in Nat
      /\ KeepRecent \in Nat /\ summary \subseteq Row
  BY MemoryAssumption DEF MemoryInv, ReadersOK, TypesOK
<1>2. A \in SUBSET rows /\ IsFiniteSet(A) /\ Cardinality(A) <= KeepRecent
  <2>1. A \subseteq reader[r].recent /\ IsFiniteSet(reader[r].recent)
        /\ Cardinality(reader[r].recent) <= KeepRecent
    BY <1>1 DEF ReaderOK
  <2>2. IsFiniteSet(A) /\ Cardinality(A) <= Cardinality(reader[r].recent)
    BY <2>1, FS_Subset
  <2>3. Cardinality(A) \in Nat /\ Cardinality(reader[r].recent) \in Nat
    BY <2>1, <2>2, FS_CardinalityType
  <2>4. QED
    BY <1>1, <2>1, <2>2, <2>3
<1>3. G \in SUBSET rows /\ IsFiniteSet(G)
  BY <1>1, RecentBound, NewerFinite
<1>4. ASSUME NEW m \in T
      PROVE  m \in A \ G
  <2>1. m \in reader[r].recent /\ m.id \notin cleared /\ \E s \in summary : s.id = m.id
    BY DEF ToldTwice
  <2>2. PICK s \in summary : s.id = m.id
    BY <2>1
  <2>3. m \in Row /\ s \in Row /\ Seen(m) /\ Seen(s) /\ Told(s)
    BY <1>1, <2>1, <2>2 DEF ReaderType, Seen, Told
  <2>4. m \in rows /\ s \in rows
    BY <2>1, <2>2, <2>3 DEF MemoryInv, SeenOK
  <2>5. s = m
    BY <1>1, <2>2, <2>4 DEF RowsOK
  <2>6. Cardinality(Newer(m)) >= KeepRecent /\ Cardinality(Newer(m)) \in Nat
    BY <1>1, <2>3, <2>4, <2>5, NewerFinite DEF MemoryInv, ToldOK, Newer
  <2>7. m \notin G
    BY <1>1, <2>6 DEF get_recent, Newer
  <2>8. QED
    BY <2>1, <2>4, <2>7
<1>5. G \ A = G \ reader[r].recent
  BY <1>3
<1> HIDE DEF A, G, T
<1>6. Cardinality(A) <= Cardinality(G)
  BY <1>1, <1>2, RecentIsFull DEF G
<1>7. Cardinality(A \ G) <= Cardinality(G \ A) /\ IsFiniteSet(A \ G) /\ IsFiniteSet(G \ A)
  BY <1>2, <1>3, <1>6, FewerOfItsOwn, FS_Difference
<1>8. T \subseteq A \ G
  BY <1>4
<1>9. IsFiniteSet(T) /\ Cardinality(T) <= Cardinality(A \ G)
  BY <1>7, <1>8, FS_Subset
<1>10. /\ Cardinality(T) \in Nat /\ Cardinality(A \ G) \in Nat
       /\ Cardinality(G \ A) \in Nat
  BY <1>7, <1>9, FS_CardinalityType
<1>11. Cardinality(T) <= Cardinality(G \ A)
  BY <1>7, <1>9, <1>10
<1>12. QED
  BY <1>5, <1>11 DEF T, G

\* get_recent() tells no more messages twice than it has missed newer ones.
THEOREM TwiceOnlyForMissed == Spec => TellsTwiceForMissed
<1>1. MemoryInv /\ [Next]_vars =>
        [\A r \in Readers : Returns(r) =>
           Cardinality(ToldTwice(r)) <= Cardinality(get_recent(KeepRecent) \ reader[r].recent)]_vars
  BY TwiceForMissed
<1>2. QED
  BY <1>1, MemoryInvariant, PTL DEF Spec, TellsTwiceForMissed

\* get_recent() with its own summary loses no more messages of its window than it returns
\* newer ones.
THEOREM LossesAreReplaced == Spec => LosesForNewer
<1>1. MemoryInv /\ [Next]_vars =>
        [\A r \in Readers : Returns(r) /\ reader[r].older # {} /\ summary = reader[r].older =>
           Cardinality((reader[r].window \intersect rows) \ (summary \union reader[r].recent))
             <= Cardinality(reader[r].recent \ reader[r].window)]_vars
  BY DEF MemoryInv, ReadersOK, ReaderOK, Missing, Returns
<1>2. QED
  BY <1>1, MemoryInvariant, PTL DEF Spec, LosesForNewer
=============================================================================
