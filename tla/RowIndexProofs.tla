------------------------------ MODULE RowIndexProofs ------------------------------
(*******************************************************************************)
(* Proofs about RowIndex for every file, every set of keys and every hash.     *)
(*                                                                             *)
(* A table is sound when the probe for each of its keys meets the key's bucket *)
(* before a free one (Findable).  Placing a row where its probe stopped keeps  *)
(* a table sound, because the free bucket proves that the key is absent, and   *)
(* so does replacing the row of the same key; rows never leave a table.  The   *)
(* inductive invariant IInv adds where a call is (Order), what the larger      *)
(* table holds while rows move into it (Moves), where the probe may stand      *)
(* (Probing), and that there is a free bucket (Roomy).                         *)
(*******************************************************************************)
EXTENDS RowIndex, FiniteSetTheorems, TLAPS

\* Bucket c is met before bucket b by a probe that starts at bucket h.
Before(h, c, b) == IF h <= b THEN h <= c /\ c < b ELSE h <= c \/ c < b

\* A probe for the key has come to bucket b: all buckets before it are used, and
\* not by the key.
Probed(t, key, b) ==
  \A c \in 0 .. t.cap - 1 :
    Before(Home(key, t.cap), c, b) => c \in Used(t) /\ t.rows[c].key # key

\* A probe for any key of the table meets its bucket.
Findable(t) ==
  \A b \in Used(t) : Probed(t, t.rows[b].key, b)

\* What holds of a table between two changes.
Sound(t) ==
  /\ IsTable(t)
  /\ Findable(t)
  /\ t.len = Cardinality(Used(t))

\* A probe visits the buckets in a cycle.
LEMMA HomeIsBucket ==
  ASSUME NEW key \in Keys, NEW cap \in Nat, cap > 0
  PROVE  Home(key, cap) \in 0 .. cap - 1
<1>1. Hash[key] \in Nat
  BY IndexAssumption
<1> QED
  BY <1>1 DEF Home

LEMMA NextProbe ==
  ASSUME NEW t, NEW key \in Keys, IsTable(t), t.cap > 0,
         NEW b \in 0 .. t.cap - 1,
         Probed(t, key, b), b \in Used(t), t.rows[b].key # key
  PROVE  /\ (b + 1) % t.cap \in 0 .. t.cap - 1
         /\ Probed(t, key, (b + 1) % t.cap)
<1> DEFINE h == Home(key, t.cap)
<1>1. t.cap \in Nat
  BY DEF IsTable
<1>2. h \in 0 .. t.cap - 1
  BY <1>1, HomeIsBucket
<1>3. (b + 1) % t.cap = IF b + 1 = t.cap THEN 0 ELSE b + 1
  BY <1>1
<1>4. (b + 1) % t.cap \in 0 .. t.cap - 1
  BY <1>1, <1>3
<1>5. ASSUME NEW c \in 0 .. t.cap - 1, Before(h, c, (b + 1) % t.cap)
      PROVE  Before(h, c, b) \/ c = b
  BY <1>1, <1>2, <1>3, <1>5 DEF Before
<1> QED
  BY <1>4, <1>5 DEF Probed

\* The free bucket a probe stops at proves that the key is not in the table.
LEMMA Absent ==
  ASSUME NEW t, NEW key \in Keys, IsTable(t), Findable(t), t.cap > 0,
         NEW b \in 0 .. t.cap - 1, Probed(t, key, b), b \notin Used(t)
  PROVE  \A c \in Used(t) : t.rows[c].key # key
<1> SUFFICES ASSUME NEW c \in Used(t), t.rows[c].key = key PROVE FALSE
  OBVIOUS
<1> DEFINE h == Home(key, t.cap)
<1>1. t.cap \in Nat /\ c \in 0 .. t.cap - 1
  BY DEF IsTable
<1>2. h \in 0 .. t.cap - 1
  BY <1>1, HomeIsBucket
<1>3. Before(h, c, b) \/ Before(h, b, c) \/ b = c
  BY <1>1, <1>2 DEF Before
<1>4. ~Before(h, c, b)
  BY <1>1 DEF Probed
<1>5. ~Before(h, b, c)
  BY <1>1 DEF Probed, Findable
<1> QED
  BY <1>3, <1>4, <1>5

\* Two buckets never hold the same key.
LEMMA OneBucketPerKey ==
  ASSUME NEW t, IsTable(t), Findable(t),
         NEW b \in Used(t), NEW c \in Used(t), t.rows[b].key = t.rows[c].key
  PROVE  b = c
<1> DEFINE h == Home(t.rows[b].key, t.cap)
<1>1. t.cap \in Nat /\ b \in 0 .. t.cap - 1 /\ c \in 0 .. t.cap - 1
  BY DEF IsTable
<1>2. t.rows[b] \in Row
  BY DEF IsTable
<1>3. t.rows[b].key \in Keys
  BY <1>2 DEF Row
<1>4. h \in 0 .. t.cap - 1
  BY <1>1, <1>3, HomeIsBucket
<1>5. Before(h, c, b) \/ Before(h, b, c) \/ b = c
  BY <1>1, <1>4 DEF Before
<1>6. ~Before(h, c, b) /\ ~Before(h, b, c)
  BY <1>1 DEF Probed, Findable
<1> QED
  BY <1>5, <1>6

\* A table with fewer rows than buckets has a free bucket.
LEMMA TableIsFinite ==
  ASSUME NEW t, IsTable(t)
  PROVE  /\ IsFiniteSet(Used(t))
         /\ Cardinality(Used(t)) \in Nat
         /\ Cardinality(Used(t)) < t.cap => \E b \in 0 .. t.cap - 1 : b \notin Used(t)
<1>1. t.cap \in Nat /\ Used(t) \in SUBSET (0 .. t.cap - 1)
  BY DEF IsTable
<1>2. IsFiniteSet(0 .. t.cap - 1) /\ (t.cap > 0 => Cardinality(0 .. t.cap - 1) = t.cap)
  <2>1. t.cap - 1 \in Int
    BY <1>1
  <2>2. /\ IsFiniteSet(0 .. t.cap - 1)
        /\ Cardinality(0 .. t.cap - 1) = IF 0 > t.cap - 1 THEN 0 ELSE (t.cap - 1) - 0 + 1
    BY <2>1, FS_Interval
  <2> QED
    BY <1>1, <2>2
<1>3. IsFiniteSet(Used(t)) /\ Cardinality(Used(t)) \in Nat
  BY <1>1, <1>2, FS_Subset, FS_CardinalityType
<1>4. ASSUME Cardinality(Used(t)) < t.cap, \A b \in 0 .. t.cap - 1 : b \in Used(t)
      PROVE  FALSE
  <2>1. Used(t) = 0 .. t.cap - 1
    BY <1>1, <1>4
  <2> QED
    BY <1>1, <1>2, <1>3, <1>4, <2>1
<1> QED
  BY <1>3, <1>4

\* A row is placed in the free bucket where the probe for its key stopped.
LEMMA Placing ==
  ASSUME NEW t, Sound(t), t.cap > 0, NEW r \in Row,
         NEW b \in 0 .. t.cap - 1, b \notin Used(t), Probed(t, r.key, b),
         NEW u, u = [cap |-> t.cap, len |-> t.len + 1, rows |-> WithRow(t, b, r)]
  PROVE  /\ Sound(u)
         /\ u.cap = t.cap
         /\ u.len = t.len + 1
         /\ RowsOf(u) = RowsOf(t) \cup {r}
<1>1. /\ t.cap \in Nat /\ t.len \in Nat /\ t.rows \in [Used(t) -> Row]
      /\ Used(t) \subseteq 0 .. t.cap - 1
  BY DEF Sound, IsTable
<1>3. u.cap = t.cap /\ u.len = t.len + 1 /\ u.rows = WithRow(t, b, r)
  OBVIOUS
<1>4. Used(u) = Used(t) \cup {b}
  BY <1>3 DEF Used, WithRow
<1>5. u.rows[b] = r /\ \A c \in Used(t) : c # b /\ u.rows[c] = t.rows[c]
  BY <1>3 DEF WithRow
<1>6. u.rows \in [Used(u) -> Row]
  <2>1. \A c \in Used(t) \cup {b} : (IF c = b THEN r ELSE t.rows[c]) \in Row
    BY <1>1
  <2> QED
    BY <1>3, <1>4, <2>1 DEF WithRow
<1>7. IsTable(u)
  BY <1>1, <1>3, <1>4, <1>6 DEF IsTable
<1>8. RowsOf(u) = RowsOf(t) \cup {r}
  BY <1>4, <1>5 DEF RowsOf
<1>9. Findable(u)
  <2>1. r.key \in Keys
    BY DEF Row
  <2>2. \A c \in Used(t) : t.rows[c].key # r.key
    BY <2>1, Absent DEF Sound
  <2>3. Probed(u, u.rows[b].key, b)
    BY <1>3, <1>4, <1>5 DEF Probed
  <2>4. ASSUME NEW c \in Used(t) PROVE Probed(u, u.rows[c].key, c)
    <3>1. Probed(t, t.rows[c].key, c)
      BY DEF Sound, Findable
    <3> QED
      BY <1>3, <1>4, <1>5, <3>1 DEF Probed
  <2> QED
    BY <1>4, <2>3, <2>4 DEF Findable
<1>10. u.len = Cardinality(Used(u))
  <2>1. IsFiniteSet(Used(t)) /\ t.len = Cardinality(Used(t))
    BY TableIsFinite DEF Sound
  <2>2. Cardinality(Used(t) \cup {b}) = Cardinality(Used(t)) + 1
    BY <2>1, FS_AddElement
  <2> QED
    BY <1>3, <1>4, <2>1, <2>2
<1> QED
  BY <1>3, <1>7, <1>8, <1>9, <1>10 DEF Sound

\* A row replaces the one of its key.
LEMMA Replacing ==
  ASSUME NEW t, Sound(t), NEW r \in Row,
         NEW b \in Used(t), t.rows[b].key = r.key,
         NEW u, u = [cap |-> t.cap, len |-> t.len, rows |-> WithRow(t, b, r)]
  PROVE  /\ Sound(u)
         /\ u.cap = t.cap
         /\ u.len = t.len
         /\ RowsOf(u) = {x \in RowsOf(t) : x.key # r.key} \cup {r}
<1>1. /\ t.cap \in Nat /\ t.len \in Nat /\ t.rows \in [Used(t) -> Row]
      /\ Used(t) \subseteq 0 .. t.cap - 1
  BY DEF Sound, IsTable
<1>3. u.cap = t.cap /\ u.len = t.len /\ u.rows = WithRow(t, b, r)
  OBVIOUS
<1>4. Used(u) = Used(t)
  BY <1>3 DEF Used, WithRow
<1>5. u.rows[b] = r /\ \A c \in Used(t) : c # b => u.rows[c] = t.rows[c]
  BY <1>3 DEF WithRow
<1>6. u.rows \in [Used(u) -> Row]
  <2>1. \A c \in Used(t) \cup {b} : (IF c = b THEN r ELSE t.rows[c]) \in Row
    BY <1>1
  <2>2. Used(t) \cup {b} = Used(t)
    OBVIOUS
  <2> QED
    BY <1>3, <1>4, <2>1, <2>2 DEF WithRow
<1>7. IsTable(u)
  BY <1>1, <1>3, <1>4, <1>6 DEF IsTable
<1>8. \A c \in Used(t) : u.rows[c].key = t.rows[c].key
  BY <1>5
<1>9. Findable(u)
  BY <1>3, <1>4, <1>8 DEF Findable, Probed, Sound
<1>10. RowsOf(u) = {x \in RowsOf(t) : x.key # r.key} \cup {r}
  <2>1. \A c \in Used(t) : c # b => t.rows[c].key # r.key
    BY OneBucketPerKey DEF Sound
  <2> QED
    BY <1>4, <1>5, <2>1 DEF RowsOf
<1> QED
  BY <1>3, <1>4, <1>7, <1>9, <1>10 DEF Sound

-----------------------------------------------------------------------------------
(* What the index should hold after so many lines                                *)

\* Nothing, before the first line.
LEMMA NoLineRead ==
  ASSUME NEW rows \in Seq(Row)
  PROVE  LatestBefore(rows, 1) = {}
BY DEF LatestBefore, Readable

\* A line that does not parse changes nothing.
LEMMA LineSkipped ==
  ASSUME NEW rows \in Seq(Row), NEW p \in Nat, p \notin Readable(rows)
  PROVE  LatestBefore(rows, p + 1) = LatestBefore(rows, p)
<1>1. \A i \in Readable(rows) : i \in Nat /\ i # p
  BY DEF Readable
<1> QED
  BY <1>1 DEF LatestBefore

\* A row replaces the one of its key.
LEMMA LineTaken ==
  ASSUME NEW rows \in Seq(Row), NEW p \in Readable(rows)
  PROVE  LatestBefore(rows, p + 1) =
           {x \in LatestBefore(rows, p) : x.key # rows[p].key} \cup {rows[p]}
<1>1. \A i \in Readable(rows) : i \in Nat
  BY DEF Readable
<1> QED
  BY <1>1 DEF LatestBefore

\* At the end of the file, the latest rows of the file.
LEMMA AllLinesRead ==
  ASSUME NEW rows \in Seq(Row), NEW p \in Nat, p > Len(rows)
  PROVE  LatestBefore(rows, p) = LatestRows(rows)
<1>1. \A i \in Readable(rows) : i \in Nat /\ i < p
  BY DEF Readable
<1> QED
  BY <1>1 DEF LatestBefore, LatestRows

-----------------------------------------------------------------------------------
(* The invariant                                                                 *)

\* find_slot may go on at bucket b of table t.
At(t, key, b) ==
  /\ t.cap > 0
  /\ b \in 0 .. t.cap - 1
  /\ Probed(t, key, b)

\* A table with buckets has a free one.
Roomy(t) == t.cap > 0 => t.len < t.cap

Below(t, n) == {b \in Used(t) : b < n}

\* Between two calls there is no table; a row in hand has been parsed, and a query
\* looks at the table when the file has ended.
Order ==
  /\ wanted = {} \/ \E key \in Keys : wanted = {key}
  /\ pc \in {"idle", "failed"} => index = EmptyTable
  /\ pc \in {"size", "move"} \/ (pc = "find" /\ goal # "get") => pos \in Readable(file)
  /\ pc \in {"loaded", "answered"} \/ (pc = "find" /\ goal = "get") => pos > Len(file)
  /\ pc = "find" /\ goal = "get" => wanted # {}

\* The larger table holds the rows of the buckets that were moved, and will have
\* room for all of them and for the row in hand.
Moves ==
  pc = "move" \/ (pc = "find" /\ goal = "move") =>
    /\ bucket <= index.cap
    /\ index.len + 1 < grown.cap
    /\ RowsOf(grown) = {index.rows[b] : b \in Below(index, bucket)}
    /\ grown.len = Cardinality(Below(index, bucket))
    /\ pc = "find" => bucket \in Used(index)

Probing ==
  /\ pc = "find" /\ goal = "put" =>
       At(index, file[pos].key, idx) /\ index.len + 1 < index.cap
  /\ pc = "find" /\ goal = "move" => At(grown, index.rows[bucket].key, idx)
  /\ pc = "find" /\ goal = "get" => \A key \in wanted : At(index, key, idx)

IInv ==
  /\ IndexTypeOK
  /\ Sound(index) /\ Roomy(index)
  /\ Sound(grown)
  /\ Order
  /\ Moves
  /\ Probing
  /\ IndexIsLatest
  /\ AnswerIsLatest

LEMMA EmptyIsSound ==
  /\ Sound(EmptyTable) /\ Roomy(EmptyTable)
  /\ RowsOf(EmptyTable) = {} /\ Used(EmptyTable) = {}
  /\ EmptyTable.cap = 0
<1>1. /\ EmptyTable = [cap |-> 0, len |-> 0, rows |-> [b \in {} |-> b]]
      /\ Used(EmptyTable) = {}
  BY DEF EmptyTable, Allocated, Used
<1> QED
  BY <1>1, FS_EmptySet DEF Sound, IsTable, Findable, Roomy, RowsOf

LEMMA FreshIsSound ==
  ASSUME NEW cap \in Nat
  PROVE  /\ Sound(Allocated(cap))
         /\ RowsOf(Allocated(cap)) = {}
         /\ Allocated(cap).cap = cap /\ Allocated(cap).len = 0
<1>1. /\ Allocated(cap) = [cap |-> cap, len |-> 0, rows |-> [b \in {} |-> b]]
      /\ Used(Allocated(cap)) = {}
  BY DEF Allocated, Used
<1> QED
  BY <1>1, FS_EmptySet DEF Sound, IsTable, Findable, RowsOf

\* A probe that has just begun.
LEMMA Beginning ==
  ASSUME NEW t, IsTable(t), t.cap > 0, NEW key \in Keys
  PROVE  At(t, key, Home(key, t.cap))
<1>1. t.cap \in Nat
  BY DEF IsTable
<1>2. Home(key, t.cap) \in 0 .. t.cap - 1
  BY <1>1, HomeIsBucket
<1>3. \A c \in 0 .. t.cap - 1 : ~Before(Home(key, t.cap), c, Home(key, t.cap))
  BY <1>1, <1>2 DEF Before
<1> QED
  BY <1>2, <1>3 DEF At, Probed

LEMMA GrowthLeavesRoom ==
  ASSUME NEW len \in Nat, NEW cap \in Nat, ~NeedsGrowth(len, cap)
  PROVE  len < cap
BY DEF NeedsGrowth

LEMMA TableRows ==
  ASSUME NEW t, IsTable(t)
  PROVE  /\ t.cap \in Nat /\ t.len \in Nat
         /\ \A b \in Used(t) : /\ b \in 0 .. t.cap - 1
                               /\ t.rows[b] \in Row
                               /\ t.rows[b].key \in Keys
                               /\ t.rows[b] \in RowsOf(t)
<1>1. \A b \in Used(t) : t.rows[b] \in Row
  BY DEF IsTable
<1> QED
  BY <1>1 DEF IsTable, Row, RowsOf

LEMMA IndexStarts == IndexInit => IInv
<1> SUFFICES ASSUME IndexInit PROVE IInv
  OBVIOUS
<1> USE DEF IndexInit
<1>1. Sound(index) /\ Roomy(index) /\ Sound(grown)
  BY EmptyIsSound
<1>2. IndexTypeOK
  BY <1>1, IndexAssumption DEF IndexTypeOK, Sound
<1>3. Order /\ Moves /\ Probing /\ IndexIsLatest /\ AnswerIsLatest
  BY DEF Order, Moves, Probing, IndexIsLatest, AnswerIsLatest
<1> QED
  BY <1>1, <1>2, <1>3 DEF IInv

-----------------------------------------------------------------------------------
(* Every step keeps it                                                           *)

LEMMA FileKeys ==
  ASSUME IInv, NEW p \in Readable(file)
  PROVE  file[p] \in Row /\ file[p].key \in Keys /\ p \in Nat /\ p >= 1 /\ p <= Len(file)
<1>1. file \in Seq(Row) /\ p \in 1 .. Len(file)
  BY DEF IInv, IndexTypeOK, Readable
<1>2. file[p] \in Row
  BY <1>1
<1> QED
  BY <1>1, <1>2 DEF Row

\* SkipLine, TakeLine and EndOfFile do not touch the tables.
LEMMA ReadingKeeps == IInv /\ (SkipLine \/ TakeLine \/ EndOfFile) => IInv'
<1> SUFFICES ASSUME IInv, SkipLine \/ TakeLine \/ EndOfFile PROVE IInv'
  OBVIOUS
<1>1. /\ UNCHANGED <<file, wanted, index, grown, answer, bucket, goal, idx>>
      /\ pc = "read" /\ pc' \in {"read", "size", "loaded"}
  BY DEF SkipLine, TakeLine, EndOfFile
<1>2. Sound(index)' /\ Roomy(index)' /\ Sound(grown)'
  BY <1>1 DEF IInv
<1>3. pos' \in Nat \ {0} /\ next_cap' \in Nat
  BY IndexAssumption DEF SkipLine, TakeLine, EndOfFile, IInv, IndexTypeOK, IsTable
<1>4. IndexTypeOK'
  <2>1. IsTable(index)' /\ IsTable(grown)'
    BY <1>2 DEF Sound
  <2> QED
    BY <1>1, <1>3, <2>1 DEF IInv, IndexTypeOK
<1>5. Order'
  BY <1>1 DEF SkipLine, TakeLine, EndOfFile, IInv, Order
<1>6. Moves' /\ Probing'
  BY <1>1 DEF Moves, Probing
<1>7. LatestBefore(file, pos') = LatestBefore(file, pos)
  <2>1. CASE SkipLine
    BY <2>1, LineSkipped DEF SkipLine, IInv, IndexTypeOK
  <2>2. CASE TakeLine \/ EndOfFile
    BY <2>2 DEF TakeLine, EndOfFile
  <2> QED
    BY <2>1, <2>2
<1>8. IndexIsLatest' /\ AnswerIsLatest'
  BY <1>1, <1>7 DEF IInv, IndexIsLatest, AnswerIsLatest, RowsOf, Used
<1> QED
  BY <1>2, <1>4, <1>5, <1>6, <1>8 DEF IInv

\* Nothing is left when a call has failed or was answered.
LEMMA FreeingKeeps ==
  ASSUME IInv, Freed, pc' \in {"idle", "failed"}
  PROVE  IInv'
<1>1. /\ index' = EmptyTable /\ grown' = EmptyTable /\ wanted' = {} /\ pos' = 1
      /\ answer' = {} /\ next_cap' = 0 /\ bucket' = 0 /\ goal' = "put" /\ idx' = 0
      /\ file' = file
  BY DEF Freed
<1>2. Sound(index)' /\ Roomy(index)' /\ Sound(grown)'
  BY <1>1, EmptyIsSound
<1>3. IsTable(index)' /\ IsTable(grown)'
  BY <1>2 DEF Sound
<1>4. IndexTypeOK'
  BY <1>1, <1>3 DEF IInv, IndexTypeOK
<1>5. Order' /\ Moves' /\ Probing' /\ IndexIsLatest' /\ AnswerIsLatest'
  BY <1>1 DEF Order, Moves, Probing, IndexIsLatest, AnswerIsLatest
<1> QED
  BY <1>2, <1>4, <1>5 DEF IInv

LEMMA StartKeeps ==
  ASSUME IInv, NEW keys, keys = {} \/ \E key \in Keys : keys = {key}, StartLoad(keys)
  PROVE  IInv'
<1>1. /\ UNCHANGED <<file, index, grown, next_cap, bucket, goal, idx, answer>>
      /\ pc = "idle" /\ pc' = "read" /\ pos' = 1 /\ wanted' = keys
  BY DEF StartLoad
<1>2. Sound(index)' /\ Roomy(index)' /\ Sound(grown)'
  BY <1>1 DEF IInv
<1>3. IndexTypeOK'
  <2>1. IsTable(index)' /\ IsTable(grown)'
    BY <1>2 DEF Sound
  <2> QED
    BY <1>1, <2>1 DEF IInv, IndexTypeOK
<1>4. Order' /\ Moves' /\ Probing' /\ AnswerIsLatest'
  BY <1>1 DEF Order, Moves, Probing, AnswerIsLatest
<1>5. IndexIsLatest'
  <2>1. index = EmptyTable /\ file \in Seq(Row)
    BY <1>1 DEF IInv, Order, IndexTypeOK
  <2>2. RowsOf(index) = {} /\ LatestBefore(file, 1) = {}
    BY <2>1, EmptyIsSound, NoLineRead
  <2> QED
    BY <1>1, <2>2 DEF IndexIsLatest, RowsOf, Used
<1> QED
  BY <1>2, <1>3, <1>4, <1>5 DEF IInv

LEMMA DoubleKeeps == IInv /\ Double => IInv'
<1> SUFFICES ASSUME IInv, Double PROVE IInv'
  OBVIOUS
<1>1. /\ UNCHANGED <<file, wanted, pos, index, grown, bucket, goal, idx, pc, answer>>
      /\ pc = "size" /\ next_cap' = next_cap * 2
  BY DEF Double
<1>2. Sound(index)' /\ Roomy(index)' /\ Sound(grown)'
  BY <1>1 DEF IInv
<1>3. IndexTypeOK'
  <2>1. IsTable(index)' /\ IsTable(grown)'
    BY <1>2 DEF Sound
  <2>2. next_cap \in Nat
    BY DEF IInv, IndexTypeOK
  <2>3. next_cap' \in Nat
    BY <1>1, <2>2
  <2> QED
    BY <1>1, <2>1, <2>3 DEF IInv, IndexTypeOK
<1>4. Order'
  BY <1>1 DEF IInv, Order
<1>5. Moves' /\ Probing'
  BY <1>1 DEF Moves, Probing
<1>6. IndexIsLatest' /\ AnswerIsLatest'
  BY <1>1 DEF IInv, IndexIsLatest, AnswerIsLatest, RowsOf, Used
<1> QED
  BY <1>2, <1>3, <1>4, <1>5, <1>6 DEF IInv

\* What find_slot searches, by its purpose.
LEMMA Purposes ==
  ASSUME IInv, pc = "find"
  PROVE  /\ goal = "put" => Target = index /\ Sought = file[pos].key
         /\ goal = "move" => Target = grown /\ Sought = index.rows[bucket].key
         /\ goal = "get" => Target = index /\ wanted = {Sought}
         /\ goal \in {"put", "move", "get"}
         /\ Sought \in Keys
         /\ At(Target, Sought, idx)
<1>1. goal \in {"put", "move", "get"}
  BY DEF IInv, IndexTypeOK
<1>2. CASE goal = "put"
  <2>1. Target = index /\ Sought = file[pos].key
    BY <1>2 DEF Target, Sought
  <2>2. pos \in Readable(file)
    BY <1>2 DEF IInv, Order
  <2>3. file[pos].key \in Keys
    BY <2>2, FileKeys
  <2> QED
    BY <1>2, <2>1, <2>3 DEF IInv, Probing
<1>3. CASE goal = "move"
  <2>1. Target = grown /\ Sought = index.rows[bucket].key
    BY <1>3 DEF Target, Sought
  <2>2. bucket \in Used(index) /\ IsTable(index)
    BY <1>3 DEF IInv, Moves, Sound
  <2>3. index.rows[bucket].key \in Keys
    BY <2>2, TableRows
  <2> QED
    BY <1>3, <2>1, <2>3 DEF IInv, Probing
<1>4. CASE goal = "get"
  <2>1. Target = index /\ Sought = (CHOOSE key \in wanted : TRUE)
    BY <1>4 DEF Target, Sought
  <2>2. PICK key \in Keys : wanted = {key}
    BY <1>4 DEF IInv, Order
  <2>3. Sought = key
    BY <2>1, <2>2
  <2> QED
    BY <1>4, <2>1, <2>2, <2>3 DEF IInv, Probing
<1> QED
  BY <1>1, <1>2, <1>3, <1>4

LEMMA ProbeKeeps == IInv /\ NextBucket => IInv'
<1> SUFFICES ASSUME IInv, NextBucket PROVE IInv'
  OBVIOUS
<1>1. /\ UNCHANGED <<file, wanted, pos, index, grown, next_cap, bucket, goal, pc, answer>>
      /\ pc = "find" /\ idx' = (idx + 1) % Target.cap
      /\ idx \in Used(Target) /\ Target.rows[idx].key # Sought
  BY DEF NextBucket, Stops
<1>2. Sound(index)' /\ Roomy(index)' /\ Sound(grown)'
  BY <1>1 DEF IInv
<1>3. IsTable(index) /\ IsTable(grown)
  BY DEF IInv, Sound
<1>4. At(Target, Sought, idx') /\ idx' \in Nat
  <2>1. IsTable(Target) /\ At(Target, Sought, idx) /\ Sought \in Keys
    BY <1>1, <1>3, Purposes
  <2>2. Target.cap \in Nat
    BY <2>1, TableRows
  <2>3. /\ (idx + 1) % Target.cap \in 0 .. Target.cap - 1
        /\ Probed(Target, Sought, (idx + 1) % Target.cap)
    BY <1>1, <2>1, NextProbe DEF At
  <2> QED
    BY <1>1, <2>1, <2>2, <2>3 DEF At
<1>5. IndexTypeOK'
  <2>1. IsTable(index)' /\ IsTable(grown)'
    BY <1>2 DEF Sound
  <2> QED
    BY <1>1, <1>4, <2>1 DEF IInv, IndexTypeOK
<1>6. Order'
  BY <1>1 DEF IInv, Order
<1>7. Moves'
  BY <1>1 DEF IInv, Moves, RowsOf, Below, Used
<1>8. Probing'
  BY <1>1, <1>4, Purposes DEF IInv, Probing
<1>9. IndexIsLatest' /\ AnswerIsLatest'
  BY <1>1 DEF IInv, IndexIsLatest, AnswerIsLatest, RowsOf, Used
<1> QED
  BY <1>2, <1>5, <1>6, <1>7, <1>8, <1>9 DEF IInv

-----------------------------------------------------------------------------------
(* row_index_grow                                                                *)

LEMMA HasRoomKeeps == IInv /\ HasRoom => IInv'
<1> SUFFICES ASSUME IInv, HasRoom PROVE IInv'
  OBVIOUS
<1>1. /\ UNCHANGED <<file, wanted, pos, index, grown, next_cap, bucket, answer>>
      /\ pc = "size" /\ pc' = "find" /\ goal' = "put"
      /\ idx' = Home(file[pos].key, index.cap)
      /\ ~NeedsGrowth(index.len + 1, index.cap)
  BY DEF HasRoom, Find
<1>2. Sound(index)' /\ Roomy(index)' /\ Sound(grown)'
  BY <1>1 DEF IInv
<1>3. IsTable(index) /\ index.cap \in Nat /\ index.len \in Nat
  BY TableRows DEF IInv, Sound
<1>4. index.len + 1 < index.cap
  BY <1>1, <1>3, GrowthLeavesRoom
<1>5. file[pos].key \in Keys
  BY <1>1, FileKeys DEF IInv, Order
<1>6. At(index, file[pos].key, idx')
  BY <1>1, <1>3, <1>4, <1>5, Beginning
<1>7. IndexTypeOK'
  <2>1. IsTable(index)' /\ IsTable(grown)'
    BY <1>2 DEF Sound
  <2> QED
    BY <1>1, <1>3, <1>6, <2>1 DEF IInv, IndexTypeOK, At
<1>8. Order'
  BY <1>1 DEF IInv, Order
<1>9. Moves' /\ Probing'
  BY <1>1, <1>4, <1>6 DEF Moves, Probing
<1>10. IndexIsLatest' /\ AnswerIsLatest'
  BY <1>1 DEF IInv, IndexIsLatest, AnswerIsLatest, RowsOf, Used
<1> QED
  BY <1>2, <1>7, <1>8, <1>9, <1>10 DEF IInv

LEMMA AllocateKeeps == IInv /\ Allocate => IInv'
<1> SUFFICES ASSUME IInv, Allocate PROVE IInv'
  OBVIOUS
<1>1. /\ UNCHANGED <<file, wanted, pos, index, next_cap, goal, idx, answer>>
      /\ pc = "size" /\ pc' = "move" /\ bucket' = 0
      /\ grown' = Allocated(next_cap)
      /\ ~NeedsGrowth(index.len + 1, next_cap)
  BY DEF Allocate
<1>2. IsTable(index) /\ index.cap \in Nat /\ index.len \in Nat /\ next_cap \in Nat
  BY TableRows DEF IInv, Sound, IndexTypeOK
<1>3. /\ Sound(grown') /\ RowsOf(grown') = {}
      /\ grown'.cap = next_cap /\ grown'.len = 0
  BY <1>1, <1>2, FreshIsSound
<1>4. Sound(index)' /\ Roomy(index)' /\ Sound(grown)'
  BY <1>1, <1>3 DEF IInv
<1>5. IndexTypeOK'
  <2>1. IsTable(grown)' /\ IsTable(index)'
    BY <1>4 DEF Sound
  <2> QED
    BY <1>1, <2>1 DEF IInv, IndexTypeOK
<1>6. Order' /\ Probing'
  BY <1>1 DEF IInv, Order, Probing
<1>7. Moves'
  <2>1. index.len + 1 < next_cap
    BY <1>1, <1>2, GrowthLeavesRoom
  <2>2. Below(index, 0) = {}
    BY <1>2, TableRows DEF Below
  <2>3. Cardinality({}) = 0
    BY FS_EmptySet
  <2>4. bucket' <= index'.cap /\ index'.len + 1 < grown'.cap
    BY <1>1, <1>2, <1>3, <2>1
  <2>5. /\ RowsOf(grown') = {index'.rows[b] : b \in Below(index', bucket')}
        /\ grown'.len = Cardinality(Below(index', bucket'))
    BY <1>1, <1>3, <2>2, <2>3
  <2> QED
    BY <1>1, <2>4, <2>5 DEF Moves
<1>8. IndexIsLatest' /\ AnswerIsLatest'
  BY <1>1 DEF IInv, IndexIsLatest, AnswerIsLatest, RowsOf, Used
<1> QED
  BY <1>4, <1>5, <1>6, <1>7, <1>8 DEF IInv

\* One bucket further.
LEMMA BelowNext ==
  ASSUME NEW t, IsTable(t), NEW b \in Nat
  PROVE  /\ b \in Used(t) => Below(t, b + 1) = Below(t, b) \cup {b}
         /\ b \notin Used(t) => Below(t, b + 1) = Below(t, b)
         /\ b \notin Below(t, b)
         /\ IsFiniteSet(Below(t, b)) /\ Cardinality(Below(t, b)) \in Nat
         /\ Cardinality(Below(t, b)) <= Cardinality(Used(t))
         /\ Below(t, t.cap) = Used(t)
<1>1. t.cap \in Nat /\ \A c \in Used(t) : c \in Nat /\ c < t.cap
  BY TableRows
<1>2. IsFiniteSet(Used(t))
  BY TableIsFinite
<1>3. Below(t, b) \in SUBSET Used(t)
  BY DEF Below
<1>4. /\ IsFiniteSet(Below(t, b)) /\ Cardinality(Below(t, b)) \in Nat
      /\ Cardinality(Below(t, b)) <= Cardinality(Used(t))
  BY <1>2, <1>3, FS_Subset, FS_CardinalityType
<1> QED
  BY <1>1, <1>4 DEF Below

LEMMA SkipBucketKeeps == IInv /\ SkipBucket => IInv'
<1> SUFFICES ASSUME IInv, SkipBucket PROVE IInv'
  OBVIOUS
<1>1. /\ UNCHANGED <<file, wanted, pos, index, grown, next_cap, goal, idx, pc, answer>>
      /\ pc = "move" /\ bucket' = bucket + 1
      /\ bucket < index.cap /\ bucket \notin Used(index)
  BY DEF SkipBucket
<1>2. Sound(index)' /\ Roomy(index)' /\ Sound(grown)'
  BY <1>1 DEF IInv
<1>3. IsTable(index) /\ index.cap \in Nat /\ bucket \in Nat
  BY TableRows DEF IInv, Sound, IndexTypeOK
<1>4. IndexTypeOK'
  <2>1. IsTable(index)' /\ IsTable(grown)'
    BY <1>2 DEF Sound
  <2> QED
    BY <1>1, <1>3, <2>1 DEF IInv, IndexTypeOK
<1>5. Order' /\ Probing'
  BY <1>1 DEF IInv, Order, Probing
<1>6. Moves'
  <2>1. Below(index, bucket + 1) = Below(index, bucket)
    BY <1>1, <1>3, BelowNext
  <2>2. bucket + 1 <= index.cap
    BY <1>1, <1>3
  <2>3. /\ index.len + 1 < grown.cap
        /\ RowsOf(grown) = {index.rows[b] : b \in Below(index, bucket)}
        /\ grown.len = Cardinality(Below(index, bucket))
    BY <1>1 DEF IInv, Moves
  <2>4. RowsOf(grown) = {index.rows[b] : b \in Below(index, bucket + 1)}
    BY <2>1, <2>3
  <2>5. RowsOf(grown)' = RowsOf(grown)
    BY <1>1 DEF RowsOf, Used
  <2>6. {index.rows[b] : b \in Below(index, bucket)}'
          = {index.rows[b] : b \in Below(index, bucket + 1)}
    BY <1>1 DEF Below, Used
  <2>7. Below(index, bucket)' = Below(index, bucket + 1)
    BY <1>1 DEF Below, Used
  <2>8. grown'.len = Cardinality(Below(index, bucket)')
    BY <1>1, <2>1, <2>3, <2>7
  <2>9. /\ bucket' <= index'.cap
        /\ index'.len + 1 < grown'.cap
        /\ RowsOf(grown)' = {index.rows[b] : b \in Below(index, bucket)}'
        /\ pc' # "find"
    BY <1>1, <2>2, <2>3, <2>4, <2>5, <2>6
  <2> QED
    BY <2>8, <2>9 DEF Moves
<1>7. IndexIsLatest' /\ AnswerIsLatest'
  BY <1>1 DEF IInv, IndexIsLatest, AnswerIsLatest, RowsOf, Used
<1> QED
  BY <1>2, <1>4, <1>5, <1>6, <1>7 DEF IInv

LEMMA MoveBucketKeeps == IInv /\ MoveBucket => IInv'
<1> SUFFICES ASSUME IInv, MoveBucket PROVE IInv'
  OBVIOUS
<1>1. /\ UNCHANGED <<file, wanted, pos, index, grown, next_cap, bucket, answer>>
      /\ pc = "move" /\ bucket \in Used(index)
      /\ pc' = "find" /\ goal' = "move"
      /\ idx' = Home(index.rows[bucket].key, grown.cap)
  BY DEF MoveBucket, Find
<1>2. Sound(index)' /\ Roomy(index)' /\ Sound(grown)'
  BY <1>1 DEF IInv
<1>3. /\ IsTable(index) /\ IsTable(grown)
      /\ index.len \in Nat /\ grown.cap \in Nat
      /\ index.rows[bucket].key \in Keys
  BY <1>1, TableRows DEF IInv, Sound
<1>4. index.len + 1 < grown.cap
  BY <1>1 DEF IInv, Moves
<1>5. At(grown, index.rows[bucket].key, idx')
  BY <1>1, <1>3, <1>4, Beginning
<1>6. IndexTypeOK'
  <2>1. IsTable(index)' /\ IsTable(grown)'
    BY <1>2 DEF Sound
  <2> QED
    BY <1>1, <1>3, <1>5, <2>1 DEF IInv, IndexTypeOK, At
<1>7. Order'
  BY <1>1 DEF IInv, Order
<1>8. Moves'
  BY <1>1 DEF IInv, Moves, RowsOf, Below, Used
<1>9. Probing'
  BY <1>1, <1>5 DEF Probing
<1>10. IndexIsLatest' /\ AnswerIsLatest'
  BY <1>1 DEF IInv, IndexIsLatest, AnswerIsLatest, RowsOf, Used
<1> QED
  BY <1>2, <1>6, <1>7, <1>8, <1>9, <1>10 DEF IInv

\* No row of the old table is in the new one yet when it moves.
LEMMA PlaceMovedKeeps == IInv /\ PlaceMoved => IInv'
<1> SUFFICES ASSUME IInv, PlaceMoved PROVE IInv'
  OBVIOUS
<1> DEFINE row == index.rows[bucket]
<1>1. /\ UNCHANGED <<file, wanted, pos, index, next_cap, goal, idx, answer>>
      /\ pc = "find" /\ goal = "move" /\ pc' = "move" /\ bucket' = bucket + 1
      /\ grown' = [grown EXCEPT !.rows = WithRow(grown, idx, row), !.len = @ + 1]
      /\ idx \in Used(Target) => Target.rows[idx].key = Sought
  BY DEF PlaceMoved, Stops
<1>2. /\ Target = grown /\ Sought = row.key
      /\ At(grown, row.key, idx)
  BY <1>1, Purposes
<1>3. /\ bucket \in Used(index) /\ bucket \in Nat
      /\ index.len + 1 < grown.cap
      /\ RowsOf(grown) = {index.rows[b] : b \in Below(index, bucket)}
      /\ grown.len = Cardinality(Below(index, bucket))
  BY <1>1 DEF IInv, Moves, IndexTypeOK
<1>4. /\ Sound(index) /\ IsTable(index) /\ Findable(index) /\ Sound(grown) /\ IsTable(grown)
      /\ row \in Row /\ row.key \in Keys /\ bucket < index.cap /\ index.cap \in Nat
      /\ index.len \in Nat
  BY <1>3, TableRows DEF IInv, Sound
<1>5. idx \notin Used(grown)
  <2> SUFFICES ASSUME idx \in Used(grown) PROVE FALSE
    OBVIOUS
  <2>1. grown.rows[idx].key = row.key /\ grown.rows[idx] \in RowsOf(grown)
    BY <1>1, <1>2, <1>4, TableRows
  <2>2. PICK b \in Below(index, bucket) : index.rows[b] = grown.rows[idx]
    BY <1>3, <2>1
  <2>3. b = bucket
    BY <1>3, <1>4, <2>1, <2>2, OneBucketPerKey DEF Below
  <2> QED
    BY <1>3, <1>4, <2>3, BelowNext
<1>6. /\ Sound(grown') /\ grown'.cap = grown.cap /\ grown'.len = grown.len + 1
      /\ RowsOf(grown') = RowsOf(grown) \cup {row}
  <2>1. grown' = [cap |-> grown.cap, len |-> grown.len + 1,
                  rows |-> WithRow(grown, idx, row)]
    BY <1>1, <1>4 DEF IsTable
  <2>2. grown.cap > 0 /\ idx \in 0 .. grown.cap - 1 /\ Probed(grown, row.key, idx)
    BY <1>2 DEF At
  <2> HIDE DEF row
  <2> QED
    BY <1>4, <1>5, <2>1, <2>2, Placing
<1>7. Sound(index)' /\ Roomy(index)' /\ Sound(grown)'
  BY <1>1, <1>6 DEF IInv
<1>8. IndexTypeOK'
  <2>1. IsTable(grown)' /\ IsTable(index)'
    BY <1>7 DEF Sound
  <2> QED
    BY <1>1, <1>3, <2>1 DEF IInv, IndexTypeOK
<1>9. Order' /\ Probing'
  BY <1>1 DEF IInv, Order, Probing
<1>10. Moves'
  <2>1. /\ Below(index, bucket + 1) = Below(index, bucket) \cup {bucket}
        /\ bucket \notin Below(index, bucket) /\ IsFiniteSet(Below(index, bucket))
    BY <1>3, <1>4, BelowNext
  <2>2. Cardinality(Below(index, bucket + 1)) = Cardinality(Below(index, bucket)) + 1
    BY <2>1, FS_AddElement
  <2>3. RowsOf(grown') = {index.rows[b] : b \in Below(index, bucket + 1)}
    BY <1>3, <1>6, <2>1
  <2>4. /\ bucket' <= index'.cap /\ index'.len + 1 < grown'.cap
        /\ RowsOf(grown') = {index'.rows[b] : b \in Below(index', bucket')}
        /\ grown'.len = Cardinality(Below(index', bucket'))
    BY <1>1, <1>3, <1>4, <1>6, <2>2, <2>3
  <2> QED
    BY <1>1, <2>4 DEF Moves
<1>11. IndexIsLatest' /\ AnswerIsLatest'
  BY <1>1 DEF IInv, IndexIsLatest, AnswerIsLatest, RowsOf, Used
<1> QED
  BY <1>7, <1>8, <1>9, <1>10, <1>11 DEF IInv

\* All rows have moved.
LEMMA ReplaceKeeps == IInv /\ Replace => IInv'
<1> SUFFICES ASSUME IInv, Replace PROVE IInv'
  OBVIOUS
<1>1. /\ UNCHANGED <<file, wanted, pos, next_cap, bucket, answer>>
      /\ pc = "move" /\ bucket = index.cap /\ index' = grown /\ grown' = EmptyTable
      /\ pc' = "find" /\ goal' = "put" /\ idx' = Home(file[pos].key, grown.cap)
  BY DEF Replace, Find
<1>2. /\ index.len + 1 < grown.cap
      /\ RowsOf(grown) = {index.rows[b] : b \in Below(index, index.cap)}
      /\ grown.len = Cardinality(Below(index, index.cap))
  BY <1>1 DEF IInv, Moves
<1>3. /\ IsTable(index) /\ IsTable(grown) /\ index.cap \in Nat /\ index.len \in Nat
      /\ grown.cap \in Nat /\ index.len = Cardinality(Used(index))
  BY TableRows DEF IInv, Sound
<1>4. Below(index, index.cap) = Used(index)
  BY <1>3, BelowNext
<1>5. RowsOf(grown) = RowsOf(index) /\ grown.len = index.len
  BY <1>2, <1>3, <1>4 DEF RowsOf
<1>6. Sound(index') /\ Roomy(index') /\ Sound(grown')
  BY <1>1, <1>2, <1>3, <1>5, EmptyIsSound DEF IInv, Roomy
<1>7. Sound(index)' /\ Roomy(index)' /\ Sound(grown)'
  BY <1>6
<1>8. file[pos].key \in Keys
  BY <1>1, FileKeys DEF IInv, Order
<1>9. At(grown, file[pos].key, idx')
  BY <1>1, <1>2, <1>3, <1>8, Beginning
<1>10. IndexTypeOK'
  <2>1. IsTable(grown)' /\ IsTable(index)'
    BY <1>7 DEF Sound
  <2>2. idx' \in Nat
    BY <1>3, <1>9 DEF At
  <2> QED
    BY <1>1, <2>1, <2>2 DEF IInv, IndexTypeOK
<1>11. Order' /\ Moves'
  BY <1>1 DEF IInv, Order, Moves
<1>12. Probing'
  BY <1>1, <1>2, <1>5, <1>9 DEF Probing
<1>13. IndexIsLatest' /\ AnswerIsLatest'
  <2>1. RowsOf(index') = LatestBefore(file', pos')
    BY <1>1, <1>5 DEF IInv, IndexIsLatest
  <2> QED
    BY <1>1, <2>1 DEF IndexIsLatest, AnswerIsLatest
<1> QED
  BY <1>7, <1>10, <1>11, <1>12, <1>13 DEF IInv

-----------------------------------------------------------------------------------
(* row_index_put                                                                 *)

\* Insert and Overwrite alike, once the table is known to be right.
LEMMA PuttingKeeps ==
  ASSUME IInv, pc = "find", goal = "put", pc' = "read", pos' = pos + 1,
         UNCHANGED <<file, wanted, grown, next_cap, bucket, goal, idx, answer>>,
         Sound(index'), Roomy(index'),
         RowsOf(index') = {x \in RowsOf(index) : x.key # file[pos].key} \cup {file[pos]}
  PROVE  IInv'
<1>1. pos \in Readable(file) /\ file \in Seq(Row)
  BY DEF IInv, Order, IndexTypeOK
<1>2. Sound(index)' /\ Roomy(index)' /\ Sound(grown)'
  BY DEF IInv
<1>3. IndexTypeOK'
  <2>1. IsTable(grown)' /\ IsTable(index)'
    BY <1>2 DEF Sound
  <2> QED
    BY <2>1 DEF IInv, IndexTypeOK
<1>4. Order' /\ Moves' /\ Probing'
  BY DEF IInv, Order, Moves, Probing
<1>5. IndexIsLatest'
  <2>1. RowsOf(index) = LatestBefore(file, pos)
    BY DEF IInv, IndexIsLatest
  <2>2. RowsOf(index') = LatestBefore(file, pos + 1)
    BY <1>1, <2>1, LineTaken
  <2> QED
    BY <2>2 DEF IndexIsLatest
<1>6. AnswerIsLatest'
  BY DEF AnswerIsLatest
<1> QED
  BY <1>2, <1>3, <1>4, <1>5, <1>6 DEF IInv

LEMMA InsertKeeps == IInv /\ Insert => IInv'
<1> SUFFICES ASSUME IInv, Insert PROVE IInv'
  OBVIOUS
<1> DEFINE row == file[pos]
<1>1. /\ UNCHANGED <<file, wanted, grown, next_cap, bucket, goal, idx, answer>>
      /\ pc = "find" /\ goal = "put" /\ pc' = "read" /\ pos' = pos + 1
      /\ idx \notin Used(index)
      /\ index' = [index EXCEPT !.rows = WithRow(index, idx, row), !.len = @ + 1]
  BY DEF Insert
<1>2. row \in Row /\ row.key \in Keys
  BY <1>1, FileKeys DEF IInv, Order
<1>3. /\ Sound(index) /\ IsTable(index) /\ Findable(index)
      /\ index.len \in Nat /\ index.cap \in Nat
  BY TableRows DEF IInv, Sound
<1>4. /\ index.cap > 0 /\ idx \in 0 .. index.cap - 1 /\ Probed(index, row.key, idx)
      /\ index.len + 1 < index.cap
  BY <1>1 DEF IInv, Probing, At
<1>5. index' = [cap |-> index.cap, len |-> index.len + 1,
                rows |-> WithRow(index, idx, row)]
  BY <1>1, <1>3 DEF IsTable
<1> HIDE DEF row
<1>6. /\ Sound(index') /\ index'.cap = index.cap /\ index'.len = index.len + 1
      /\ RowsOf(index') = RowsOf(index) \cup {row}
  <2>1. idx \notin Used(index) /\ row \in Row /\ Sound(index)
    BY <1>1, <1>2, <1>3
  <2> QED
    BY <1>4, <1>5, <2>1, Placing
<1>7. Roomy(index')
  BY <1>3, <1>4, <1>6 DEF Roomy
<1>8. \A b \in Used(index) : index.rows[b].key # row.key
  BY <1>1, <1>2, <1>3, <1>4, Absent
<1>9. RowsOf(index') = {x \in RowsOf(index) : x.key # row.key} \cup {row}
  BY <1>6, <1>8 DEF RowsOf
<1> QED
  BY <1>1, <1>6, <1>7, <1>9, PuttingKeeps DEF row

LEMMA OverwriteKeeps == IInv /\ Overwrite => IInv'
<1> SUFFICES ASSUME IInv, Overwrite PROVE IInv'
  OBVIOUS
<1> DEFINE row == file[pos]
<1>1. /\ UNCHANGED <<file, wanted, grown, next_cap, bucket, goal, idx, answer>>
      /\ pc = "find" /\ goal = "put" /\ pc' = "read" /\ pos' = pos + 1
      /\ idx \in Used(index) /\ Target.rows[idx].key = Sought
      /\ index' = [index EXCEPT !.rows = WithRow(index, idx, row)]
  BY DEF Overwrite, Stops, Target
<1>2. row \in Row
  BY <1>1, FileKeys DEF IInv, Order
<1>3. index.rows[idx].key = row.key /\ idx \in Used(index)
  BY <1>1, Purposes
<1>4. Sound(index) /\ IsTable(index) /\ Roomy(index)
  BY DEF IInv, Sound
<1>5. index' = [cap |-> index.cap, len |-> index.len, rows |-> WithRow(index, idx, row)]
  BY <1>1, <1>4 DEF IsTable
<1> HIDE DEF row
<1>6. /\ Sound(index') /\ index'.cap = index.cap /\ index'.len = index.len
      /\ RowsOf(index') = {x \in RowsOf(index) : x.key # row.key} \cup {row}
  BY <1>2, <1>3, <1>4, <1>5, Replacing
<1>7. Roomy(index')
  BY <1>4, <1>6 DEF Roomy
<1> QED
  BY <1>1, <1>6, <1>7, PuttingKeeps DEF row

-----------------------------------------------------------------------------------
(* The end of a query                                                            *)

\* An answer given at the end of the file.
LEMMA AnsweringKeeps ==
  ASSUME IInv, pc' = "answered", pos > Len(file),
         UNCHANGED <<file, wanted, pos, index, grown, next_cap, bucket, goal, idx>>,
         answer' = {row \in LatestRows(file) : wanted = {} \/ row.key \in wanted}
  PROVE  IInv'
<1>1. Sound(index)' /\ Roomy(index)' /\ Sound(grown)'
  BY DEF IInv
<1>2. IndexTypeOK'
  <2>1. IsTable(grown)' /\ IsTable(index)'
    BY <1>1 DEF Sound
  <2>2. \A i \in Readable(file) : file[i] \in Row
    BY FileKeys
  <2>3. answer' \subseteq Row
    BY <2>2 DEF LatestRows
  <2> QED
    BY <2>1, <2>3 DEF IInv, IndexTypeOK
<1>3. Order'
  BY DEF IInv, Order
<1>4. Moves' /\ Probing' /\ IndexIsLatest' /\ AnswerIsLatest'
  BY DEF Moves, Probing, IndexIsLatest, AnswerIsLatest
<1> QED
  BY <1>1, <1>2, <1>3, <1>4 DEF IInv

\* At the end of the file the index holds what the file says.
LEMMA LoadedIsLatest ==
  ASSUME IInv, pc = "loaded" \/ (pc = "find" /\ goal = "get")
  PROVE  pos > Len(file) /\ RowsOf(index) = LatestRows(file)
<1>1. pos > Len(file) /\ pos \in Nat /\ file \in Seq(Row)
  BY DEF IInv, Order, IndexTypeOK
<1>2. RowsOf(index) = LatestBefore(file, pos)
  BY DEF IInv, IndexIsLatest
<1> QED
  BY <1>1, <1>2, AllLinesRead

LEMMA ScanKeeps == IInv /\ Scan => IInv'
<1> SUFFICES ASSUME IInv, Scan PROVE IInv'
  OBVIOUS
<1>1. /\ UNCHANGED <<file, wanted, pos, index, grown, next_cap, bucket, goal, idx>>
      /\ pc = "loaded" /\ pc' = "answered" /\ wanted = {} /\ answer' = RowsOf(index)
  BY DEF Scan
<1>2. pos > Len(file) /\ RowsOf(index) = LatestRows(file)
  BY <1>1, LoadedIsLatest
<1>3. answer' = {row \in LatestRows(file) : wanted = {} \/ row.key \in wanted}
  BY <1>1, <1>2
<1> QED
  BY <1>1, <1>2, <1>3, AnsweringKeeps

LEMMA GetFromNothingKeeps == IInv /\ GetFromNothing => IInv'
<1> SUFFICES ASSUME IInv, GetFromNothing PROVE IInv'
  OBVIOUS
<1>1. /\ UNCHANGED <<file, wanted, pos, index, grown, next_cap, bucket, goal, idx>>
      /\ pc = "loaded" /\ pc' = "answered" /\ index.cap = 0 /\ answer' = {}
  BY DEF GetFromNothing
<1>2. pos > Len(file) /\ RowsOf(index) = LatestRows(file)
  BY <1>1, LoadedIsLatest
<1>3. Used(index) = {}
  BY <1>1 DEF IInv, Sound, IsTable
<1>4. RowsOf(index) = {}
  BY <1>3 DEF RowsOf
<1>5. answer' = {row \in LatestRows(file) : wanted = {} \/ row.key \in wanted}
  BY <1>1, <1>2, <1>4
<1> QED
  BY <1>1, <1>2, <1>5, AnsweringKeeps

LEMMA GetKeeps == IInv /\ Get => IInv'
<1> SUFFICES ASSUME IInv, Get PROVE IInv'
  OBVIOUS
<1>1. /\ UNCHANGED <<file, wanted, pos, index, grown, next_cap, bucket, answer>>
      /\ pc = "loaded" /\ wanted # {} /\ index.cap # 0
      /\ pc' = "find" /\ goal' = "get"
      /\ idx' = Home(CHOOSE key \in wanted : TRUE, index.cap)
  BY DEF Get, Find
<1>2. PICK key \in Keys : wanted = {key}
  BY <1>1 DEF IInv, Order
<1>3. idx' = Home(key, index.cap)
  BY <1>1, <1>2
<1>4. IsTable(index) /\ index.cap \in Nat
  BY TableRows DEF IInv, Sound
<1>5. At(index, key, idx')
  BY <1>1, <1>3, <1>4, Beginning
<1>6. Sound(index)' /\ Roomy(index)' /\ Sound(grown)'
  BY <1>1 DEF IInv
<1>7. IndexTypeOK'
  <2>1. IsTable(index)' /\ IsTable(grown)'
    BY <1>6 DEF Sound
  <2> QED
    BY <1>1, <1>4, <1>5, <2>1 DEF IInv, IndexTypeOK, At
<1>8. Order' /\ Moves'
  BY <1>1 DEF IInv, Order, Moves
<1>9. Probing'
  BY <1>1, <1>2, <1>5 DEF Probing
<1>10. IndexIsLatest' /\ AnswerIsLatest'
  BY <1>1 DEF IInv, IndexIsLatest, AnswerIsLatest, RowsOf, Used
<1> QED
  BY <1>6, <1>7, <1>8, <1>9, <1>10 DEF IInv

\* The probe of row_index_get ends at the row of the key, or shows it is absent.
LEMMA GotKeeps == IInv /\ Got => IInv'
<1> SUFFICES ASSUME IInv, Got PROVE IInv'
  OBVIOUS
<1>1. /\ UNCHANGED <<file, wanted, pos, index, grown, next_cap, bucket, goal, idx>>
      /\ pc = "find" /\ goal = "get" /\ pc' = "answered"
      /\ answer' = IF idx \in Used(index) THEN {index.rows[idx]} ELSE {}
      /\ idx \in Used(index) => index.rows[idx].key = Sought
  BY DEF Got, Stops, Target
<1>2. pos > Len(file) /\ RowsOf(index) = LatestRows(file)
  BY <1>1, LoadedIsLatest
<1>3. wanted = {Sought} /\ Sought \in Keys /\ At(index, Sought, idx)
  BY <1>1, Purposes
<1>4. IsTable(index) /\ Findable(index)
  BY DEF IInv, Sound
<1>5. answer' = {row \in RowsOf(index) : row.key = Sought}
  <2>1. CASE idx \in Used(index)
    <3>1. \A b \in Used(index) : index.rows[b].key = Sought => b = idx
      BY <1>1, <1>4, <2>1, OneBucketPerKey
    <3> QED
      BY <1>1, <2>1, <3>1 DEF RowsOf
  <2>2. CASE idx \notin Used(index)
    <3>1. \A b \in Used(index) : index.rows[b].key # Sought
      BY <1>3, <1>4, <2>2, Absent DEF At
    <3> QED
      BY <1>1, <2>2, <3>1 DEF RowsOf
  <2> QED
    BY <2>1, <2>2
<1>6. answer' = {row \in LatestRows(file) : wanted = {} \/ row.key \in wanted}
  BY <1>2, <1>3, <1>5
<1> QED
  BY <1>1, <1>2, <1>6, AnsweringKeeps

\* Others write only while no query has the lock.
LEMMA FileChangesKeeps == IInv /\ FileChanges => IInv'
<1> SUFFICES ASSUME IInv, FileChanges PROVE IInv'
  OBVIOUS
<1>1. /\ UNCHANGED <<wanted, pos, index, grown, next_cap, bucket, goal, idx, pc, answer>>
      /\ pc = "idle" /\ file' \in Seq(Row)
  BY DEF FileChanges
<1>2. Sound(index)' /\ Roomy(index)' /\ Sound(grown)'
  BY <1>1 DEF IInv
<1>3. IndexTypeOK'
  <2>1. IsTable(index)' /\ IsTable(grown)'
    BY <1>2 DEF Sound
  <2> QED
    BY <1>1, <2>1 DEF IInv, IndexTypeOK
<1>4. Order' /\ Moves' /\ Probing' /\ IndexIsLatest' /\ AnswerIsLatest'
  BY <1>1 DEF IInv, Order, Moves, Probing, IndexIsLatest, AnswerIsLatest
<1> QED
  BY <1>2, <1>3, <1>4 DEF IInv

LEMMA IndexKeeps == IInv /\ [IndexNext]_indexVars => IInv'
<1> SUFFICES ASSUME IInv, [IndexNext]_indexVars PROVE IInv'
  OBVIOUS
<1>1. CASE SkipLine \/ TakeLine \/ EndOfFile
  BY <1>1, ReadingKeeps
<1>2. CASE LoadFails \/ Release
  <2>1. Freed /\ pc' \in {"idle", "failed"}
    BY <1>2 DEF LoadFails, Release
  <2> QED
    BY <2>1, FreeingKeeps
<1>3. CASE Double \/ HasRoom \/ Allocate
  BY <1>3, DoubleKeeps, HasRoomKeeps, AllocateKeeps
<1>4. CASE SkipBucket \/ MoveBucket \/ Replace
  BY <1>4, SkipBucketKeeps, MoveBucketKeeps, ReplaceKeeps
<1>5. CASE NextBucket \/ PlaceMoved
  BY <1>5, ProbeKeeps, PlaceMovedKeeps
<1>6. CASE Put
  BY <1>6, InsertKeeps, OverwriteKeeps DEF Put
<1>7. CASE Scan \/ GetFromNothing \/ Get \/ Got
  BY <1>7, ScanKeeps, GetFromNothingKeeps, GetKeeps, GotKeeps
<1>8. CASE StartLoad({}) \/ \E key \in Keys : StartLoad({key})
  BY <1>8, StartKeeps
<1>9. CASE FileChanges
  BY <1>9, FileChangesKeeps
<1>10. CASE UNCHANGED indexVars
  <2>1. /\ UNCHANGED <<file, wanted, pos, index, grown, next_cap, bucket>>
        /\ UNCHANGED <<goal, idx, pc, answer>>
    BY <1>10 DEF indexVars
  <2>2. Sound(index)' /\ Roomy(index)' /\ Sound(grown)'
    BY <2>1 DEF IInv
  <2>3. IndexTypeOK'
    BY <2>1 DEF IInv, IndexTypeOK, IsTable, Used
  <2>4. Order' /\ Moves' /\ Probing'
    BY <2>1 DEF IInv, Order, Moves, Probing, RowsOf, Below, Used
  <2>5. IndexIsLatest' /\ AnswerIsLatest'
    BY <2>1 DEF IInv, IndexIsLatest, AnswerIsLatest, RowsOf, Used
  <2> QED
    BY <2>2, <2>3, <2>4, <2>5 DEF IInv
<1> QED
  BY <1>1, <1>2, <1>3, <1>4, <1>5, <1>6, <1>7, <1>8, <1>9, <1>10
     DEF IndexNext, IndexStep

\* A table with buckets has a free one, so the loop of find_slot ends.
LEMMA RoomMeansEnd == IInv => ProbesEnd
<1> SUFFICES ASSUME IInv, pc = "find" PROVE ProbesEnd
  BY DEF ProbesEnd
<1>1. At(Target, Sought, idx) /\ goal \in {"put", "move", "get"}
  BY Purposes
<1>2. CASE goal = "move"
  <2>1. Target = grown
    BY <1>2, Purposes
  <2>2. /\ IsTable(grown) /\ IsTable(index) /\ index.len \in Nat /\ grown.cap \in Nat
        /\ index.len = Cardinality(Used(index)) /\ grown.len = Cardinality(Used(grown))
    BY TableRows DEF IInv, Sound
  <2>3. /\ index.len + 1 < grown.cap /\ bucket \in Nat
        /\ grown.len = Cardinality(Below(index, bucket))
    BY <1>2 DEF IInv, Moves, IndexTypeOK
  <2>4. /\ Cardinality(Below(index, bucket)) <= Cardinality(Used(index))
        /\ Cardinality(Below(index, bucket)) \in Nat
    BY <2>2, <2>3, BelowNext
  <2>5. Cardinality(Used(grown)) < grown.cap
    BY <2>2, <2>3, <2>4
  <2> QED
    BY <1>1, <2>1, <2>2, <2>5, TableIsFinite DEF ProbesEnd, At
<1>3. CASE goal # "move"
  <2>1. Target = index
    BY <1>1, <1>3, Purposes
  <2>2. IsTable(index) /\ index.len = Cardinality(Used(index)) /\ index.cap > 0
    BY <1>1, <2>1 DEF IInv, Sound, At
  <2>3. Cardinality(Used(index)) < index.cap
    BY <2>2 DEF IInv, Roomy
  <2> QED
    BY <1>1, <2>1, <2>2, <2>3, TableIsFinite DEF ProbesEnd, At
<1> QED
  BY <1>2, <1>3

-----------------------------------------------------------------------------------
(* The results                                                                   *)

\* IInv holds of every call of load_latest_rows and load_latest_row, turn by turn
\* (db_query.c:66-245).
THEOREM IndexInvariant == IndexSpec => []IInv
<1>1. IndexInit => IInv
  BY IndexStarts
<1>2. IInv /\ [IndexNext]_indexVars => IInv'
  BY IndexKeeps
<1> QED
  BY <1>1, <1>2, PTL DEF IndexSpec

\* The table, its buckets and the cursors of the loops stay what they should be
\* (db_query.c:66-183).
THEOREM IndexType == IndexSpec => []IndexTypeOK
<1>1. IInv => IndexTypeOK
  BY DEF IInv
<1> QED
  BY <1>1, IndexInvariant, PTL

\* find_slot never runs round a full table, while rows move included: growth leaves
\* a free bucket, whatever keys collide (db_query.c:69, 106).
THEOREM EveryProbeEnds == IndexSpec => []ProbesEnd
<1> QED
  BY RoomMeansEnd, IndexInvariant, PTL

\* After every line read, and in the middle of growth, the index holds exactly the
\* last row of each key so far (db_query.c:166-183, 203-215).
THEOREM IndexHoldsLatest == IndexSpec => []IndexIsLatest
<1>1. IInv => IndexIsLatest
  BY DEF IInv
<1> QED
  BY <1>1, IndexInvariant, PTL

\* A query is answered with what the file says, for every file and every hash
\* (db_query.c:185-192, 221-245).
THEOREM QueryFindsLatest == IndexSpec => []AnswerIsLatest
<1>1. IInv => AnswerIsLatest
  BY DEF IInv
<1> QED
  BY <1>1, IndexInvariant, PTL
===================================================================================
