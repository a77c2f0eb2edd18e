----------------------------- MODULE ClipStoreProofs -----------------------------
(*******************************************************************************)
(* Proofs about clip_store, for every number of processes, keys, values and    *)
(* inodes.                                                                     *)
(*                                                                             *)
(* First what readers of a file find, whatever is in it.  Then the processes:  *)
(* the lock makes the one that works on the file the only one (Locks), so a    *)
(* buffered row is the newest of all (Buffers) and the file changes in three   *)
(* ways only: it stays, a row is appended, or, when --compact runs alone, its  *)
(* live rows replace it (Renaming).  What may be missing is counted: a row     *)
(* that a failed write lost, or that shares the line of a torn row (Accounts). *)
(*******************************************************************************)
EXTENDS ClipStore, FiniteSetTheorems, TLAPS

-----------------------------------------------------------------------------------
(* What readers find in a file                                                   *)

\* A reader finds at most one row per key (db_query.c: 166-183).
LEMMA OneRowPerKey ==
  ASSUME NEW file \in Seq(Row),
         NEW r \in LatestRows(file), NEW s \in LatestRows(file),
         r.key = s.key
  PROVE  r = s
<1>1. PICK i \in Readable(file) :
        r = file[i] /\ \A k \in Readable(file) : k > i => file[k].key # file[i].key
  BY DEF LatestRows
<1>2. PICK j \in Readable(file) :
        s = file[j] /\ \A k \in Readable(file) : k > j => file[k].key # file[j].key
  BY DEF LatestRows
<1>3. i \in Nat /\ j \in Nat
  BY DEF Readable
<1>4. ~(i < j) /\ ~(j < i)
  BY <1>1, <1>2, <1>3
<1>5. i = j
  BY <1>3, <1>4
<1> QED
  BY <1>1, <1>2, <1>5

\* What a file shows is finite: one row at most per line.
LEMMA LiveRowsFinite ==
  ASSUME NEW file \in Seq(Row), NEW t \in Nat
  PROVE  IsFiniteSet(LiveRows(file, t))
<1> DEFINE all == {file[i] : i \in 1..Len(file)}
<1> DEFINE f == [i \in 1..Len(file) |-> file[i]]
<1>1. IsFiniteSet(1..Len(file))
  BY FS_Interval
<1>2. f \in Surjection(1..Len(file), all)
  BY DEF Surjection
<1>3. IsFiniteSet(all)
  BY <1>1, <1>2, FS_Surjection
<1>4. LiveRows(file, t) \subseteq all
  BY DEF LiveRows, LatestRows, Readable
<1> QED
  BY <1>3, <1>4, FS_Subset

\* A row that is live was live before.
LEMMA LiveBefore ==
  ASSUME NEW row \in Row, NEW t \in Nat, NEW later \in Nat, t <= later,
         RowIsLive(row, later)
  PROVE  RowIsLive(row, t)
BY DEF RowIsLive, IsExpired, Row

\* Every row of a file that was scanned out of another one is read back.
LEMMA ScanShowsItsRows ==
  ASSUME NEW file \in Seq(Row), NEW t \in Nat,
         NEW scan \in Scans(LiveRows(file, t))
  PROVE  LatestRows(scan) = LiveRows(file, t)
<1> DEFINE rows == LiveRows(file, t)
<1>1. Cardinality(rows) \in Nat
  BY LiveRowsFinite, FS_CardinalityType
<1>2. /\ scan \in [1..Cardinality(rows) -> rows]
      /\ \A i, j \in DOMAIN scan : scan[i] = scan[j] => i = j
      /\ \A row \in rows : \E i \in DOMAIN scan : scan[i] = row
  BY DEF Scans
<1>3. \A row \in rows : row.whole /\ row \in LatestRows(file)
  BY DEF LiveRows, LatestRows, Readable
<1>4. Readable(scan) = DOMAIN scan
  <2>1. ASSUME NEW i \in DOMAIN scan
        PROVE  scan[i].whole /\ (i > 1 => scan[i - 1].whole)
    <3>1. i \in 1..Cardinality(rows)
      BY <1>2
    <3>2. i > 1 => i - 1 \in 1..Cardinality(rows)
      BY <3>1, <1>1
    <3> QED
      BY <3>1, <3>2, <1>2, <1>3
  <2> QED
    BY <2>1 DEF Readable
<1>5. ASSUME NEW i \in DOMAIN scan, NEW k \in DOMAIN scan, k > i
      PROVE  scan[k].key # scan[i].key
  <2>1. i \in 1..Cardinality(rows) /\ k \in 1..Cardinality(rows)
    BY <1>2
  <2>2. scan[i] \in rows /\ scan[k] \in rows
    BY <2>1, <1>2
  <2>3. scan[k].key = scan[i].key => scan[k] = scan[i]
    BY <2>2, <1>3, OneRowPerKey
  <2>4. i # k
    BY <2>1, <1>1, <1>5
  <2> QED
    BY <2>3, <2>4, <1>2
<1>6. LatestRows(scan) = {scan[i] : i \in DOMAIN scan}
  BY <1>4, <1>5 DEF LatestRows
<1>7. {scan[i] : i \in DOMAIN scan} = rows
  BY <1>2
<1> QED
  BY <1>6, <1>7

\* Compaction is invisible: a file rewritten with its live rows in any order
\* shows every later reader what the old file would have shown, although
\* tombstones, expired and overwritten rows are gone (db_compact.c: 45-59).
THEOREM CompactionIsTransparent ==
  ASSUME NEW file \in Seq(Row), NEW t \in Nat, NEW later \in Nat, t <= later,
         NEW scan \in Scans(LiveRows(file, t))
  PROVE  LiveRows(scan, later) = LiveRows(file, later)
<1>1. LatestRows(file) \subseteq Row
  BY DEF LatestRows, Readable
<1>2. \A row \in LatestRows(file) : RowIsLive(row, later) => RowIsLive(row, t)
  BY <1>1, LiveBefore
<1>3. LatestRows(scan) = {row \in LatestRows(file) : RowIsLive(row, t)}
  BY ScanShowsItsRows DEF LiveRows
<1> QED
  BY <1>2, <1>3 DEF LiveRows

\* Whatever was appended before, the appended row is the one its key has, and no
\* other key's row changes, when the file does not end in a torn row
\* (db_format.c: 105-157).
THEOREM AppendReplacesOneKey ==
  ASSUME NEW file \in Seq(Row), NEW row \in Row, row.whole,
         file # <<>> => file[Len(file)].whole
  PROVE  LatestRows(Append(file, row)) =
           {r \in LatestRows(file) : r.key # row.key} \cup {row}
<1> DEFINE new == Append(file, row)
<1> DEFINE last == Len(file) + 1
<1>1. /\ Len(file) \in Nat /\ DOMAIN file = 1..Len(file)
      /\ DOMAIN new = 1..last
      /\ new[last] = row
      /\ \A i \in DOMAIN file : new[i] = file[i]
  OBVIOUS
<1>2. Readable(new) = Readable(file) \cup {last}
  <2>1. ASSUME NEW i \in DOMAIN new
        PROVE  (new[i].whole /\ (i > 1 => new[i - 1].whole))
                 <=> i \in Readable(file) \cup {last}
    <3>1. CASE i = last
      <4>1. i > 1 => Len(file) \in DOMAIN file /\ i - 1 = Len(file) /\ file # <<>>
        BY <3>1, <1>1
      <4> QED
        BY <3>1, <4>1, <1>1
    <3>2. CASE i # last
      <4>1. i \in DOMAIN file /\ i \in Int
        BY <3>2, <1>1
      <4>2. i > 1 => i - 1 \in DOMAIN file
        BY <4>1, <1>1
      <4> QED
        BY <3>2, <4>1, <4>2, <1>1 DEF Readable
    <3> QED
      BY <3>1, <3>2
  <2>2. Readable(file) \cup {last} \subseteq DOMAIN new
    BY <1>1 DEF Readable
  <2> QED
    BY <2>1, <2>2 DEF Readable
<1>3. \A i \in Readable(file) : i \in DOMAIN file /\ i < last
  BY <1>1 DEF Readable
<1>4. ASSUME NEW i \in Readable(file)
      PROVE  (\A k \in Readable(new) : k > i => new[k].key # new[i].key) <=>
               /\ \A k \in Readable(file) : k > i => file[k].key # file[i].key
               /\ file[i].key # row.key
  BY <1>1, <1>2, <1>3
<1>5. \A k \in Readable(new) : ~(k > last)
  BY <1>1, <1>2, <1>3
<1> DEFINE final == {j \in Readable(new) :
                      \A k \in Readable(new) : k > j => new[k].key # new[j].key}
<1> DEFINE kept == {j \in Readable(file) :
                     /\ \A k \in Readable(file) : k > j => file[k].key # file[j].key
                     /\ file[j].key # row.key}
<1>6. final = kept \cup {last}
  BY <1>2, <1>4, <1>5
<1>7. LatestRows(new) = {new[j] : j \in final}
  BY DEF LatestRows
<1>8. {new[j] : j \in kept} = {r \in LatestRows(file) : r.key # row.key}
  <2>1. \A j \in kept : new[j] = file[j]
    BY <1>1, <1>3
  <2> QED
    BY <2>1 DEF LatestRows
<1> HIDE DEF final, kept, last, new
<1>9. {new[j] : j \in final} = {new[j] : j \in kept} \cup {new[last]}
  BY <1>6
<1> QED
  BY <1>1, <1>7, <1>8, <1>9 DEF new

\* A row that is not whole, or that shares the line of a torn one, shows nothing.
IsTorn(file) == file # <<>> /\ ~file[Len(file)].whole

LEMMA SpoiledRow ==
  ASSUME NEW file \in Seq(Row), NEW row \in Row, ~row.whole \/ IsTorn(file)
  PROVE  LatestRows(Append(file, row)) = LatestRows(file)
<1> DEFINE new == Append(file, row)
<1> DEFINE last == Len(file) + 1
<1>1. /\ Len(file) \in Nat /\ DOMAIN file = 1..Len(file)
      /\ DOMAIN new = 1..last
      /\ new[last] = row
      /\ \A i \in DOMAIN file : new[i] = file[i]
  OBVIOUS
<1>2. ASSUME NEW i \in DOMAIN new
      PROVE  (new[i].whole /\ (i > 1 => new[i - 1].whole)) <=> i \in Readable(file)
  <2>1. CASE i = last
    <3>1. IsTorn(file) => Len(file) \in DOMAIN file /\ i > 1 /\ i - 1 = Len(file)
      BY <1>1, <2>1 DEF IsTorn
    <3>2. i \notin DOMAIN file
      BY <1>1, <2>1
    <3> QED
      BY <1>1, <2>1, <3>1, <3>2 DEF IsTorn, Readable
  <2>2. CASE i # last
    <3>1. i \in DOMAIN file /\ i \in Int
      BY <2>2, <1>1
    <3>2. i > 1 => i - 1 \in DOMAIN file
      BY <3>1, <1>1
    <3> QED
      BY <3>1, <3>2, <1>1 DEF Readable
  <2> QED
    BY <2>1, <2>2
<1>3. Readable(file) \subseteq DOMAIN file /\ DOMAIN file \subseteq DOMAIN new
  BY <1>1 DEF Readable
<1>4. Readable(new) = Readable(file)
  BY <1>2, <1>3 DEF Readable
<1> QED
  BY <1>1, <1>3, <1>4 DEF LatestRows

-----------------------------------------------------------------------------------
(* The invariant                                                                 *)

Working == {"run", "tmp", "write", "rename", "close"}

Writers == {"set", "delete", "append"}

\* A process that works holds the lock of the file it has open.
Locks ==
  \A p \in Procs :
    /\ pc[p] \in Working \cup {"lock"} => fd[p] \in Inodes
    /\ pc[p] \in Working => holder[fd[p]] = p
    /\ pc[p] \in {"write", "rename"} => tfd[p] \in Inodes
    /\ IsFiniteSet(loaded[p])

\* Only a writer has rows of its own.
Owners ==
  \A p \in Procs :
    buf[p] # <<>> \/ mine[p] # {} => pc[p] \in {"run", "close"} /\ call[p].op \in Writers

Shape == TypeOK /\ Locks /\ Owners

\* All have the file open that the path names, except a compactor that has just
\* replaced it.  A compactor is alone.
Files ==
  /\ tmp # None => tmp # db
  /\ \A p \in Procs :
       /\ pc[p] \in Working \cup {"lock"} =>
            db \in Inodes /\ (fd[p] = db \/ (pc[p] = "close" /\ call[p].op = "compact"))
       /\ pc[p] \in {"tmp", "write", "rename"} => call[p].op = "compact"
       /\ pc[p] # "idle" /\ call[p].op = "compact" => \A q \in Procs \ {p} : pc[q] = "idle"
       /\ asof[p] <= now

\* What a compactor is about to put in the place of the file.
Renaming ==
  \A p \in Procs :
    /\ pc[p] \in {"tmp", "write", "rename"} => loaded[p] = LiveRows(Contents, asof[p])
    /\ pc[p] \in {"write", "rename"} => tfd[p] = tmp
    /\ pc[p] = "write" => disk[tmp] = <<>>
    /\ pc[p] = "rename" => disk[tmp] \in Scans(loaded[p])

\* What readers find, and whether the next row will share a torn one's line.
Rows == LatestRows(Contents)

Torn == IF IsTorn(Contents) THEN 1 ELSE 0

\* The row in a buffer is the last that was appended, and no one has heard of it.
Buffers ==
  /\ \A row \in Rows \cup acked : row.n <= written
  /\ \A p \in Procs :
       /\ \A row \in mine[p] : row.n <= written
       /\ buf[p] # <<>> =>
            /\ buf[p][1].whole /\ buf[p][1].n = written
            /\ newest[buf[p][1].key] = written
            /\ \A row \in Rows \cup acked : row.n < written
            /\ \A row \in mine[p] : row.n < written \/ row = buf[p][1]

\* Rows that should be in the file, or will be, and are not.
Missing ==
  {row \in acked \cup UNION {mine[p] : p \in Procs} :
     /\ newest[row.key] = row.n
     /\ RowIsLive(row, now)
     /\ row \notin Rows
     /\ \A p \in Procs : buf[p] # <<row>>}

\* Each loss accounts for one of them, or for a torn row that may cost the next.
Accounts ==
  /\ IsFiniteSet(Missing)
  /\ Cardinality(Missing) + Torn <= losses

\* No row of the file is older than row.
NoneOlder(row) == \A r \in Rows : r.key = row.key => r.n >= row.n

Ages ==
  losses = 0 =>
    /\ \A row \in acked : NoneOlder(row)
    /\ \A p \in Procs : \A row \in mine[p] : buf[p] = <<row>> \/ NoneOlder(row)

IInv ==
  /\ Shape
  /\ Files
  /\ Renaming
  /\ Buffers
  /\ Accounts
  /\ Ages

-----------------------------------------------------------------------------------
(* Types, locks and owners                                                       *)

LEMMA LiveRowsType ==
  ASSUME NEW file \in Seq(Row), NEW t \in Nat
  PROVE  LatestRows(file) \subseteq Row /\ LiveRows(file, t) \subseteq Row
BY DEF LatestRows, LiveRows, Readable

LEMMA ScanType ==
  ASSUME NEW rows \in SUBSET Row, IsFiniteSet(rows), NEW scan \in Scans(rows)
  PROVE  scan \in Seq(Row)
<1>1. Cardinality(rows) \in Nat
  BY FS_CardinalityType
<1>2. scan \in [1..Cardinality(rows) -> Row]
  BY DEF Scans
<1> QED
  BY <1>1, <1>2

LEMMA CommandType ==
  ASSUME NEW c \in Commands \cup {NoCommand}
  PROVE  c.ttl \in Nat /\ c.keys \subseteq Keys
<1>1. CASE c \in [op : {"set", "append"}, keys : {{}}, ttl : Ttls]
  BY <1>1, StoreAssumption DEF StoreAssumption
<1>2. CASE c \in [op : {"delete", "compact"}, keys : {{}}, ttl : {0}]
  BY <1>2
<1>3. CASE c \in [op : {"read"}, keys : SUBSET Keys \ {{}}, ttl : {0}]
  BY <1>3
<1>4. CASE c = NoCommand
  BY <1>4 DEF NoCommand
<1> QED
  BY <1>1, <1>2, <1>3, <1>4 DEF Commands

\* The row that p appends; what p had in its buffer is then in the file.
LEMMA AppendRowShape ==
  ASSUME TypeOK, NEW p \in Procs, NEW k \in Keys, NEW v \in Values \cup {Erased},
         NEW expires \in Nat, fd[p] \in Inodes, AppendRow(p, k, v, expires)
  PROVE  /\ disk' \in [Inodes -> Seq(Row)]
         /\ buf' \in [Procs -> Seq(Row)] /\ \A q \in Procs : Len(buf'[q]) <= 1
         /\ written' \in Nat
         /\ mine' \in [Procs -> SUBSET Row]
         /\ newest' \in [Keys -> Nat]
         /\ \A q \in Procs \ {p} : buf'[q] = buf[q] /\ mine'[q] = mine[q]
<1> DEFINE row == [key |-> k, val |-> v, exp |-> expires, n |-> written + 1, whole |-> TRUE]
<1>1. written + 1 \in Nat /\ row \in Row
  BY DEF TypeOK, Row
<1>2. /\ disk' = [disk EXCEPT ![fd[p]] = disk[fd[p]] \o buf[p]]
      /\ buf' = [buf EXCEPT ![p] = <<row>>]
      /\ written' = written + 1
      /\ mine' = [mine EXCEPT ![p] = mine[p] \cup {row}]
      /\ newest' = [newest EXCEPT ![k] = written + 1]
  BY DEF AppendRow, TypeOK
<1> HIDE DEF row
<1>3. disk[fd[p]] \o buf[p] \in Seq(Row) /\ <<row>> \in Seq(Row) /\ Len(<<row>>) = 1
  BY <1>1 DEF TypeOK
<1>4. mine[p] \cup {row} \in SUBSET Row
  BY <1>1 DEF TypeOK
<1> QED
  BY <1>1, <1>2, <1>3, <1>4 DEF TypeOK

LEMMA WriterShape ==
  ASSUME Shape, NEW p \in Procs, Set(p) \/ Delete(p) \/ AppendLine(p)
  PROVE  Shape'
<1>1. /\ pc[p] = "run" /\ call[p].op \in Writers /\ fd[p] \in Inodes
      /\ \A t \in Nat : ExpireAt(p, t) \in Nat
  <2>1. pc[p] = "run" /\ call[p].op \in Writers
    BY DEF Set, Delete, AppendLine, Writers
  <2>2. fd[p] \in Inodes
    BY <2>1 DEF Shape, Locks, Working
  <2>3. call[p] \in Commands \cup {NoCommand} /\ Ttls \subseteq Nat
    BY StoreAssumption DEF Shape, TypeOK, StoreAssumption
  <2>4. call[p].ttl \in Nat
    BY <2>3, CommandType
  <2>5. \A t \in Nat : ExpireAt(p, t) \in Nat
    BY <2>4 DEF ExpireAt
  <2> QED
    BY <2>1, <2>2, <2>5
<1>2. PICK k \in Keys, v \in Values \cup {Erased}, expires \in Nat : AppendRow(p, k, v, expires)
  BY <1>1 DEF Set, Delete, AppendLine, Shape, TypeOK
<1>3. /\ UNCHANGED <<db, tmp, holder, now, call, fd, tfd, asof, loaded, rc, answer, calls>>
      /\ UNCHANGED <<acked, losses>>
      /\ pc' \in {pc, [pc EXCEPT ![p] = "close"]}
  BY DEF Set, Delete, AppendLine, Goto
<1>4. TypeOK'
  <2>1. /\ disk' \in [Inodes -> Seq(Row)]
        /\ buf' \in [Procs -> Seq(Row)] /\ \A q \in Procs : Len(buf'[q]) <= 1
        /\ written' \in Nat
        /\ mine' \in [Procs -> SUBSET Row]
        /\ newest' \in [Keys -> Nat]
    BY <1>1, <1>2, AppendRowShape DEF Shape
  <2> QED
    BY <1>3, <2>1 DEF Shape, TypeOK
<1>5. Locks'
  BY <1>1, <1>3 DEF Shape, TypeOK, Locks, Working
<1>6. Owners'
  <2>1. \A q \in Procs \ {p} : buf'[q] = buf[q] /\ mine'[q] = mine[q] /\ pc'[q] = pc[q]
    BY <1>1, <1>2, <1>3, AppendRowShape DEF Shape, TypeOK
  <2>2. pc'[p] \in {"run", "close"} /\ call' = call
    BY <1>1, <1>3 DEF Shape, TypeOK
  <2> QED
    BY <1>1, <2>1, <2>2 DEF Shape, Owners
<1> QED
  BY <1>4, <1>5, <1>6 DEF Shape

LEMMA InvokeShape == ASSUME Shape, NEW p \in Procs, Invoke(p) PROVE Shape'
<1>1. PICK c \in Commands : call' = [call EXCEPT ![p] = c]
  BY DEF Invoke
<1>2. /\ UNCHANGED <<disk, db, tmp, holder, now, fd, tfd, asof, buf, loaded, written>>
      /\ UNCHANGED <<acked, newest, losses>>
      /\ pc[p] = "idle" /\ pc' = [pc EXCEPT ![p] = "open"]
      /\ rc' = [rc EXCEPT ![p] = 0] /\ mine' = [mine EXCEPT ![p] = {}]
      /\ calls' = calls + 1 /\ answer' = {}
  BY DEF Invoke, Goto, fileVars
<1>3. TypeOK'
  BY <1>1, <1>2 DEF Shape, TypeOK
<1>4. Locks' /\ Owners'
  BY <1>1, <1>2 DEF Shape, TypeOK, Locks, Owners, Working
<1> QED
  BY <1>3, <1>4 DEF Shape

LEMMA OpenShape == ASSUME Shape, NEW p \in Procs, Open(p) PROVE Shape'
<1>1. /\ UNCHANGED <<tmp, holder, now, call, tfd, asof, buf, loaded, rc, answer, calls>>
      /\ UNCHANGED <<written, mine, acked, newest, losses>>
      /\ pc[p] = "open" /\ pc' = [pc EXCEPT ![p] = "lock"]
      /\ db' \in Inodes /\ fd' = [fd EXCEPT ![p] = db']
      /\ disk' \in {disk, [disk EXCEPT ![db'] = <<>>]}
  BY DEF Open, Goto, history, Free, Shape, TypeOK
<1>2. TypeOK'
  <2>1. disk \in [Inodes -> Seq(Row)] /\ <<>> \in Seq(Row)
    BY DEF Shape, TypeOK
  <2>2. disk' \in [Inodes -> Seq(Row)]
    BY <1>1, <2>1
  <2> QED
    BY <1>1, <2>2 DEF Shape, TypeOK
<1>3. Locks' /\ Owners'
  BY <1>1 DEF Shape, TypeOK, Locks, Owners, Working
<1> QED
  BY <1>2, <1>3 DEF Shape

LEMMA LockShape == ASSUME Shape, NEW p \in Procs, Lock(p) PROVE Shape'
<1>1. TypeOK'
  BY DEF Shape, TypeOK, Locks, Lock, Goto, fileVars, history
<1>2. Locks' /\ Owners'
  BY StoreAssumption
  DEF Shape, TypeOK, Locks, Owners, Lock, Goto, fileVars, history, Working, StoreAssumption
<1> QED
  BY <1>1, <1>2 DEF Shape

LEMMA QueryShape ==
  ASSUME Shape, NEW p \in Procs, Query(p) \/ EndOfInput(p) \/ Fail(p)
  PROVE  Shape'
<1>1. /\ UNCHANGED <<disk, db, tmp, holder, now, call, fd, tfd, asof, buf, loaded, calls>>
      /\ UNCHANGED <<written, mine, acked, newest, losses>>
      /\ pc[p] = "run" /\ pc' = [pc EXCEPT ![p] = "close"]
      /\ rc' \in {rc, [rc EXCEPT ![p] = 1]}
  BY DEF Query, EndOfInput, Fail, Goto, fileVars, history
<1>2. answer' \subseteq Row
  <2>1. fd[p] \in Inodes
    BY <1>1 DEF Shape, Locks, Working
  <2>2. LiveRows(disk[fd[p]], asof[p]) \subseteq Row
    BY <2>1, LiveRowsType DEF Shape, TypeOK
  <2> QED
    BY <2>2 DEF Query, EndOfInput, Fail, Shape, TypeOK
<1>3. TypeOK'
  BY <1>1, <1>2 DEF Shape, TypeOK
<1>4. Locks' /\ Owners'
  BY <1>1 DEF Shape, TypeOK, Locks, Owners, Working
<1> QED
  BY <1>3, <1>4 DEF Shape

LEMMA CompactShape == ASSUME Shape, NEW p \in Procs, Compact(p) PROVE Shape'
<1>1. CASE CompactLoad(p)
  <2>1. /\ UNCHANGED <<disk, db, tmp, holder, now, call, fd, tfd, asof, buf, rc, answer, calls>>
        /\ UNCHANGED <<written, mine, acked, newest, losses>>
        /\ pc[p] = "run" /\ call[p].op = "compact" /\ pc' = [pc EXCEPT ![p] = "tmp"]
        /\ loaded' = [loaded EXCEPT ![p] = LiveRows(disk[fd[p]], asof[p])]
    BY <1>1 DEF CompactLoad, Goto, fileVars, history
  <2>2. /\ LiveRows(disk[fd[p]], asof[p]) \subseteq Row
        /\ IsFiniteSet(LiveRows(disk[fd[p]], asof[p]))
    BY <2>1, LiveRowsType, LiveRowsFinite DEF Shape, TypeOK, Locks, Working
  <2>3. TypeOK'
    BY <2>1, <2>2 DEF Shape, TypeOK
  <2>4. Locks'
    BY <2>1, <2>2 DEF Shape, TypeOK, Locks, Working
  <2>5. Owners'
    BY <2>1 DEF Shape, TypeOK, Owners, Writers
  <2> QED
    BY <2>3, <2>4, <2>5 DEF Shape
<1>2. CASE CompactOpen(p)
  <2>1. /\ UNCHANGED <<db, holder, now, call, fd, asof, buf, loaded, rc, answer, calls>>
        /\ UNCHANGED <<written, mine, acked, newest, losses>>
        /\ pc[p] = "tmp" /\ pc' = [pc EXCEPT ![p] = "write"]
        /\ tmp' \in Inodes /\ tfd' = [tfd EXCEPT ![p] = tmp']
        /\ disk' = [disk EXCEPT ![tmp'] = <<>>]
    BY <1>2 DEF CompactOpen, Goto, history, Free, Shape, TypeOK
  <2>2. TypeOK'
    BY <2>1 DEF Shape, TypeOK
  <2>3. Locks' /\ Owners'
    BY <2>1 DEF Shape, TypeOK, Locks, Owners, Working
  <2> QED
    BY <2>2, <2>3 DEF Shape
<1>3. CASE CompactWrite(p)
  <2>1. PICK s \in Scans(loaded[p]) : disk' = [disk EXCEPT ![tfd[p]] = disk[tfd[p]] \o s]
    BY <1>3 DEF CompactWrite, Shape, TypeOK
  <2>2. /\ UNCHANGED <<db, tmp, holder, now, call, fd, tfd, asof, buf, loaded, rc, answer>>
        /\ UNCHANGED <<calls, written, mine, acked, newest, losses>>
        /\ pc[p] = "write" /\ pc' = [pc EXCEPT ![p] = "rename"]
    BY <1>3 DEF CompactWrite, Goto, history
  <2>3. tfd[p] \in Inodes /\ s \in Seq(Row)
    BY <2>1, <2>2, ScanType DEF Shape, TypeOK, Locks
  <2>4. disk[tfd[p]] \o s \in Seq(Row)
    BY <2>3 DEF Shape, TypeOK
  <2>5. TypeOK'
    BY <2>1, <2>2, <2>4 DEF Shape, TypeOK
  <2>6. Locks' /\ Owners'
    BY <2>2, <2>3 DEF Shape, TypeOK, Locks, Owners, Working
  <2> QED
    BY <2>5, <2>6 DEF Shape
<1>4. CASE CompactRename(p) \/ CompactFail(p)
  <2>1. /\ UNCHANGED <<disk, holder, now, call, fd, tfd, asof, buf, loaded, answer, calls>>
        /\ UNCHANGED <<written, mine, acked, newest, losses>>
        /\ pc[p] \in {"tmp", "write", "rename"} /\ pc' = [pc EXCEPT ![p] = "close"]
        /\ db' \in {db, tmp} /\ tmp' \in {tmp, None}
        /\ rc' \in {rc, [rc EXCEPT ![p] = 1]}
    BY <1>4 DEF CompactRename, CompactFail, Goto, history
  <2>2. TypeOK'
    BY <2>1 DEF Shape, TypeOK
  <2>3. Locks' /\ Owners'
    BY <2>1 DEF Shape, TypeOK, Locks, Owners, Working
  <2> QED
    BY <2>2, <2>3 DEF Shape
<1> QED
  BY <1>1, <1>2, <1>3, <1>4 DEF Compact

\* The process p has exited or was killed.
LEMMA GoneShape ==
  ASSUME Shape, NEW p \in Procs, Close(p) \/ Kill(p)
  PROVE  Shape'
<1>1. /\ UNCHANGED <<db, tmp, now, answer, calls, written, newest, asof>>
      /\ holder' = [i \in Inodes |-> IF holder[i] = p THEN None ELSE holder[i]]
      /\ pc' = [pc EXCEPT ![p] = "idle"] /\ call' = [call EXCEPT ![p] = NoCommand]
      /\ fd' = [fd EXCEPT ![p] = None] /\ tfd' = [tfd EXCEPT ![p] = None]
      /\ buf' = [buf EXCEPT ![p] = <<>>] /\ loaded' = [loaded EXCEPT ![p] = {}]
      /\ rc' = [rc EXCEPT ![p] = 0] /\ mine' = [mine EXCEPT ![p] = {}]
      /\ acked' \in {acked, acked \cup mine[p]} /\ losses' \in {losses, losses + 1}
  BY DEF Close, Kill, Gone, Goto
<1>2. disk' \in [Inodes -> Seq(Row)]
  <2>1. CASE Close(p)
    <3>1. fd[p] \in Inodes /\ disk[fd[p]] \o buf[p] \in Seq(Row)
      BY <2>1 DEF Close, Shape, TypeOK, Locks, Working
    <3>2. disk' \in {disk, [disk EXCEPT ![fd[p]] = disk[fd[p]] \o buf[p]]}
      BY <2>1, <3>1 DEF Close, Shape, TypeOK
    <3> QED
      BY <3>1, <3>2 DEF Shape, TypeOK
  <2>2. CASE Kill(p) /\ disk' # disk
    <3> DEFINE torn == [buf[p][1] EXCEPT !.whole = FALSE]
    <3>1. buf[p] # <<>> /\ disk' = [disk EXCEPT ![fd[p]] = @ \o <<torn>>]
      BY <2>2 DEF Kill
    <3>2. fd[p] \in Inodes
      BY <3>1 DEF Shape, Owners, Locks, Working
    <3>3. buf[p][1] \in Row
      BY <3>1 DEF Shape, TypeOK
    <3>4. torn \in Row
      BY <3>3 DEF Row
    <3> HIDE DEF torn
    <3>5. disk[fd[p]] \o <<torn>> \in Seq(Row)
      BY <3>2, <3>4 DEF Shape, TypeOK
    <3> QED
      BY <3>1, <3>2, <3>5 DEF Shape, TypeOK
  <2> QED
    BY <2>1, <2>2 DEF Shape, TypeOK
<1>3. TypeOK'
  <2>1. acked' \subseteq Row /\ losses' \in Nat
    BY <1>1 DEF Shape, TypeOK
  <2> QED
    BY <1>1, <1>2, <2>1 DEF Shape, TypeOK
<1>4. \A q \in Procs \ {p} :
        /\ pc'[q] = pc[q] /\ call'[q] = call[q] /\ fd'[q] = fd[q] /\ tfd'[q] = tfd[q]
        /\ buf'[q] = buf[q] /\ mine'[q] = mine[q] /\ loaded'[q] = loaded[q]
  BY <1>1 DEF Shape, TypeOK
<1>5. /\ pc'[p] = "idle" /\ buf'[p] = <<>> /\ mine'[p] = {} /\ loaded'[p] = {}
  BY <1>1 DEF Shape, TypeOK
<1>6. Locks'
  <2>1. \A q \in Procs \ {p} : fd[q] \in Inodes /\ holder[fd[q]] = q => holder'[fd[q]] = q
    BY <1>1
  <2>2. IsFiniteSet({})
    BY FS_EmptySet
  <2> QED
    BY <1>4, <1>5, <2>1, <2>2 DEF Shape, Locks, Working
<1>7. Owners'
  BY <1>4, <1>5 DEF Shape, Owners
<1> QED
  BY <1>3, <1>6, <1>7 DEF Shape

LEMMA ShapeKeeps == Shape /\ [Next]_vars => Shape'
<1> SUFFICES ASSUME Shape, [Next]_vars PROVE Shape'
  OBVIOUS
<1>1. CASE \E p \in Procs :
             \/ Invoke(p) \/ Open(p) \/ Lock(p)
             \/ Set(p) \/ Delete(p) \/ AppendLine(p) \/ EndOfInput(p) \/ Query(p) \/ Fail(p)
             \/ Compact(p)
             \/ Close(p) \/ Kill(p)
  BY <1>1, InvokeShape, OpenShape, LockShape, WriterShape, QueryShape, CompactShape, GoneShape
<1>2. CASE Tick \/ UNCHANGED vars
  <2>1. /\ UNCHANGED <<disk, db, tmp, holder, pc, call, fd, tfd, asof, buf, loaded, rc>>
        /\ UNCHANGED <<answer, calls, written, mine, acked, newest, losses>>
        /\ now' \in {now, now + 1}
    BY <1>2 DEF Tick, vars, fileVars, procVars, history
  <2>2. TypeOK'
    BY <2>1 DEF Shape, TypeOK
  <2> QED
    BY <2>1, <2>2 DEF Shape, Locks, Owners
<1> QED
  BY <1>1, <1>2 DEF Next

LEMMA InitShape == Init => Shape
<1> SUFFICES ASSUME Init PROVE Shape
  OBVIOUS
<1>1. <<>> \in Seq(Row) /\ Len(<<>>) = 0 /\ IsFiniteSet({})
  BY FS_EmptySet
<1>2. TypeOK
  BY <1>1 DEF Init, TypeOK
<1>3. Locks /\ Owners
  BY <1>1 DEF Init, Locks, Owners, Working
<1> QED
  BY <1>2, <1>3 DEF Shape

\* The types of the state, and that whoever works holds the lock of the file it
\* has open (clip_store.c: 190-214), whatever runs at the same time.
THEOREM StoreType == Spec => []TypeOK
<1>1. Spec => []Shape
  BY InitShape, ShapeKeeps, PTL DEF Spec
<1>2. Shape => TypeOK
  BY DEF Shape
<1> QED
  BY <1>1, <1>2, PTL

\* A query prints whole rows only, whoever died before it and whatever shares
\* the file with it (db_format.c: 36-54, 78-95).
THEOREM QueriesPrintWholeRows == Spec => []NoTornAnswer
<1>1. Init => NoTornAnswer
  BY DEF Init, NoTornAnswer
<1>2. NoTornAnswer /\ [Next]_vars => NoTornAnswer'
  <2> SUFFICES ASSUME NoTornAnswer, [Next]_vars PROVE NoTornAnswer'
    OBVIOUS
  <2>1. CASE \E p \in Procs : Query(p)
    BY <2>1 DEF Query, LiveRows, LatestRows, Readable, NoTornAnswer
  <2>2. CASE \E p \in Procs : Invoke(p)
    BY <2>2 DEF Invoke, NoTornAnswer
  <2>3. CASE \E p \in Procs : \/ Open(p) \/ Lock(p) \/ Set(p) \/ Delete(p) \/ AppendLine(p)
                              \/ EndOfInput(p) \/ Fail(p) \/ Compact(p) \/ Close(p) \/ Kill(p)
    <3>1. UNCHANGED answer
      BY <2>3 DEF Open, Lock, Set, Delete, AppendLine, EndOfInput, Fail, Compact,
         CompactLoad, CompactOpen, CompactWrite, CompactRename, CompactFail, Close, Kill
    <3> QED
      BY <3>1 DEF NoTornAnswer
  <2>4. CASE Tick \/ UNCHANGED vars
    BY <2>4 DEF Tick, vars, NoTornAnswer
  <2> QED
    BY <2>1, <2>2, <2>3, <2>4 DEF Next
<1> QED
  BY <1>1, <1>2, PTL DEF Spec

-----------------------------------------------------------------------------------
(* Which file the path names, and what a compaction puts there                   *)

\* A writer that works on the file is the only one.
LEMMA OneWriter ==
  ASSUME Shape, Files, NEW p \in Procs, pc[p] \in Working, call[p].op # "compact"
  PROVE  /\ db \in Inodes /\ fd[p] = db /\ Contents = disk[db]
         /\ \A q \in Procs \ {p} : buf[q] = <<>> /\ mine[q] = {}
<1>1. db \in Inodes /\ fd[p] = db
  BY DEF Files
<1>2. Contents = disk[db]
  BY <1>1, StoreAssumption DEF Contents, StoreAssumption
<1>3. ASSUME NEW q \in Procs \ {p}, buf[q] # <<>> \/ mine[q] # {}
      PROVE  FALSE
  <2>1. pc[q] \in Working /\ call[q].op # "compact"
    BY <1>3 DEF Shape, Owners, Working, Writers
  <2>2. fd[q] = db
    BY <2>1 DEF Files
  <2>3. holder[db] = p /\ holder[db] = q
    BY <1>1, <2>1, <2>2 DEF Shape, Locks
  <2> QED
    BY <2>3
<1> QED
  BY <1>1, <1>2, <1>3

LEMMA InitFiles == Init => Files /\ Renaming
BY DEF Init, Files, Renaming, Working

LEMMA FilesKeep ==
  ASSUME Offline, Shape, Files, [Next]_vars
  PROVE  Files'
<1> USE DEF Files
<1>0. None \notin Inodes /\ now \in Nat
  BY StoreAssumption DEF StoreAssumption, Shape, TypeOK
<1>1. ASSUME NEW p \in Procs, Invoke(p) PROVE Files'
  <2>1. PICK c \in Commands : Alone(p, c) /\ call' = [call EXCEPT ![p] = c]
    BY <1>1 DEF Invoke
  <2>2. /\ UNCHANGED <<db, tmp, now, fd, asof>>
        /\ pc[p] = "idle" /\ pc' = [pc EXCEPT ![p] = "open"]
    BY <1>1 DEF Invoke, Goto, fileVars
  <2>3. /\ pc'[p] = "open" /\ call'[p] = c
        /\ \A q \in Procs \ {p} : pc'[q] = pc[q] /\ call'[q] = call[q]
    BY <2>1, <2>2 DEF Shape, TypeOK
  <2>4. \A q \in Procs : pc'[q] # "idle" /\ call'[q].op = "compact" =>
          \A r \in Procs \ {q} : pc'[r] = "idle"
    BY <2>1, <2>2, <2>3 DEF Alone
  <2> QED
    BY <2>2, <2>3, <2>4 DEF Working
<1>2. ASSUME NEW p \in Procs, Open(p) PROVE Files'
  <2>1. /\ UNCHANGED <<tmp, now, call, asof>>
        /\ pc[p] = "open" /\ pc' = [pc EXCEPT ![p] = "lock"]
        /\ db' \in Inodes /\ fd' = [fd EXCEPT ![p] = db'] /\ (db' = db \/ db = None)
        /\ db' # db => db' # tmp
    BY <1>2 DEF Open, Goto, Free, InUse, Shape, TypeOK
  <2>2. /\ pc'[p] = "lock" /\ fd'[p] = db'
        /\ \A q \in Procs \ {p} : pc'[q] = pc[q] /\ fd'[q] = fd[q]
    BY <2>1 DEF Shape, TypeOK
  <2> QED
    BY <1>0, <2>1, <2>2 DEF Working
<1>3. ASSUME NEW p \in Procs, Lock(p) PROVE Files'
  <2>1. /\ UNCHANGED <<db, tmp, now, call, fd>>
        /\ pc[p] = "lock" /\ pc' = [pc EXCEPT ![p] = "run"] /\ asof' = [asof EXCEPT ![p] = now]
    BY <1>3 DEF Lock, Goto, fileVars
  <2>2. /\ pc'[p] = "run" /\ asof'[p] = now
        /\ \A q \in Procs \ {p} : pc'[q] = pc[q] /\ asof'[q] = asof[q]
    BY <2>1 DEF Shape, TypeOK
  <2> QED
    BY <1>0, <2>1, <2>2 DEF Working
<1>4. ASSUME NEW p \in Procs,
             \/ Set(p) \/ Delete(p) \/ AppendLine(p) \/ EndOfInput(p) \/ Query(p) \/ Fail(p)
             \/ CompactFail(p)
      PROVE  Files'
  <2>1. /\ UNCHANGED <<db, now, call, fd, asof>> /\ tmp' \in {tmp, None}
        /\ pc[p] \in Working /\ pc' \in {pc, [pc EXCEPT ![p] = "close"]}
    BY <1>4 DEF Set, Delete, AppendLine, EndOfInput, Query, Fail, CompactFail, Goto, fileVars,
       Working
  <2>2. /\ pc'[p] \in {pc[p], "close"}
        /\ \A q \in Procs \ {p} : pc'[q] = pc[q]
    BY <2>1 DEF Shape, TypeOK
  <2> QED
    BY <2>1, <2>2 DEF Working
<1>5. ASSUME NEW p \in Procs, CompactLoad(p) \/ CompactOpen(p) \/ CompactWrite(p)
      PROVE  Files'
  <2>1. /\ UNCHANGED <<db, now, call, fd, asof>> /\ (tmp' = tmp \/ tmp' # db)
        /\ pc[p] \in {"run", "tmp", "write"} /\ call[p].op = "compact"
        /\ pc' \in {[pc EXCEPT ![p] = "tmp"], [pc EXCEPT ![p] = "write"],
                    [pc EXCEPT ![p] = "rename"]}
    BY <1>5 DEF CompactLoad, CompactOpen, CompactWrite, Goto, fileVars, Free, InUse, Working
  <2>2. /\ pc'[p] \in {"tmp", "write", "rename"}
        /\ \A q \in Procs \ {p} : pc'[q] = pc[q]
    BY <2>1 DEF Shape, TypeOK
  <2> QED
    BY <2>1, <2>2 DEF Working
<1>6. ASSUME NEW p \in Procs, CompactRename(p) PROVE Files'
  <2>1. /\ UNCHANGED <<now, call, fd, asof>> /\ db' = tmp /\ tmp' = None /\ tmp # None
        /\ pc[p] = "rename" /\ pc' = [pc EXCEPT ![p] = "close"]
    BY <1>6 DEF CompactRename, Goto
  <2>2. /\ pc'[p] = "close" /\ call[p].op = "compact" /\ tmp \in Inodes
        /\ \A q \in Procs \ {p} : pc'[q] = "idle"
    BY <2>1 DEF Shape, TypeOK
  <2> QED
    BY <2>1, <2>2 DEF Working
<1>7. ASSUME NEW p \in Procs, Close(p) \/ Kill(p) PROVE Files'
  <2>1. /\ UNCHANGED <<db, tmp, now, asof>>
        /\ pc' = [pc EXCEPT ![p] = "idle"] /\ call' = [call EXCEPT ![p] = NoCommand]
        /\ fd' = [fd EXCEPT ![p] = None]
    BY <1>7 DEF Close, Kill, Gone, Goto
  <2>2. /\ pc'[p] = "idle"
        /\ \A q \in Procs \ {p} : pc'[q] = pc[q] /\ call'[q] = call[q] /\ fd'[q] = fd[q]
    BY <2>1 DEF Shape, TypeOK
  <2> QED
    BY <2>1, <2>2 DEF Working
<1>8. CASE Tick \/ UNCHANGED vars
  <2>1. UNCHANGED <<db, tmp, pc, call, fd, asof>> /\ now' \in {now, now + 1}
    BY <1>8 DEF Tick, vars, fileVars, procVars
  <2>2. \A p \in Procs : asof[p] \in Nat
    BY DEF Shape, TypeOK
  <2> QED
    BY <1>0, <2>1, <2>2
<1> QED
  BY <1>1, <1>2, <1>3, <1>4, <1>5, <1>6, <1>7, <1>8 DEF Next, Compact

\* Only a compactor and the clock can move between the steps of a compaction.
LEMMA RenamingKeeps ==
  ASSUME Offline, Shape, Files, Renaming, [Next]_vars
  PROVE  Renaming'
<1>0. None \notin Inodes
  BY StoreAssumption DEF StoreAssumption
<1>1. CASE \E p \in Procs : CompactLoad(p) \/ CompactOpen(p) \/ CompactWrite(p)
  <2>1. PICK p \in Procs : CompactLoad(p) \/ CompactOpen(p) \/ CompactWrite(p)
    BY <1>1
  <2>2. /\ UNCHANGED <<db, fd, asof>>
        /\ pc[p] \in {"run", "tmp", "write"} /\ call[p].op = "compact"
        /\ pc' \in {[pc EXCEPT ![p] = "tmp"], [pc EXCEPT ![p] = "write"],
                    [pc EXCEPT ![p] = "rename"]}
    BY <2>1 DEF Files, CompactLoad, CompactOpen, CompactWrite, Goto, fileVars
  <2>3. \A q \in Procs \ {p} : pc'[q] = "idle"
    BY <2>2 DEF Shape, TypeOK, Files
  <2>4. /\ db \in Inodes /\ fd[p] = db /\ Contents = disk[db] /\ Contents' = disk'[db]
    BY <1>0, <2>2 DEF Files, Working, Contents
  <2>5. CASE CompactLoad(p)
    <3>1. /\ pc'[p] = "tmp" /\ disk' = disk
          /\ loaded'[p] = LiveRows(disk[db], asof[p])
      BY <2>4, <2>5 DEF CompactLoad, Goto, fileVars, Shape, TypeOK
    <3> QED
      BY <2>2, <2>3, <2>4, <3>1 DEF Renaming
  <2>6. CASE CompactOpen(p)
    <3>1. /\ pc[p] = "tmp" /\ pc'[p] = "write" /\ loaded' = loaded
          /\ tmp' \in Inodes /\ tmp' # db /\ tfd'[p] = tmp'
          /\ disk' = [disk EXCEPT ![tmp'] = <<>>]
      BY <2>6 DEF CompactOpen, Goto, Free, InUse, Shape, TypeOK, Files
    <3>2. disk'[tmp'] = <<>> /\ disk'[db] = disk[db]
      BY <2>4, <3>1 DEF Shape, TypeOK
    <3> QED
      BY <2>2, <2>3, <2>4, <3>1, <3>2 DEF Renaming
  <2>7. CASE CompactWrite(p)
    <3>1. /\ pc[p] = "write" /\ pc'[p] = "rename" /\ UNCHANGED <<tmp, tfd, loaded>>
      BY <2>7 DEF CompactWrite, Goto, Shape, TypeOK
    <3>2. tfd[p] = tmp /\ tmp \in Inodes /\ tmp # db /\ disk[tmp] = <<>>
      BY <1>0, <3>1 DEF Renaming, Shape, Locks, Files
    <3>3. PICK s \in Scans(loaded[p]) : disk' = [disk EXCEPT ![tmp] = <<>> \o s]
      BY <2>7, <3>2 DEF CompactWrite, Shape, TypeOK
    <3>4. s \in Seq(Row)
      BY ScanType DEF Shape, TypeOK, Locks
    <3>5. <<>> \o s = s
      BY <3>4
    <3>6. disk'[tmp] = s /\ disk'[db] = disk[db]
      BY <2>4, <3>2, <3>3, <3>5 DEF Shape, TypeOK
    <3> QED
      BY <2>2, <2>3, <2>4, <3>1, <3>2, <3>6 DEF Renaming
  <2> QED
    BY <2>1, <2>5, <2>6, <2>7
<1>2. CASE Tick \/ UNCHANGED vars
  <2>1. UNCHANGED <<disk, db, tmp, pc, tfd, loaded, asof>>
    BY <1>2 DEF Tick, vars, fileVars, procVars
  <2> QED
    BY <2>1 DEF Renaming, Contents
<1>3. CASE \E p \in Procs :
             \/ Invoke(p) \/ Open(p) \/ Lock(p)
             \/ Set(p) \/ Delete(p) \/ AppendLine(p) \/ EndOfInput(p) \/ Query(p) \/ Fail(p)
             \/ CompactRename(p) \/ CompactFail(p) \/ Close(p) \/ Kill(p)
  <2>1. PICK p \in Procs :
             \/ Invoke(p) \/ Open(p) \/ Lock(p)
             \/ Set(p) \/ Delete(p) \/ AppendLine(p) \/ EndOfInput(p) \/ Query(p) \/ Fail(p)
             \/ CompactRename(p) \/ CompactFail(p) \/ Close(p) \/ Kill(p)
    BY <1>3
  <2>2. \/ pc' = pc /\ pc[p] = "run" /\ call[p].op = "append"
        \/ pc' = [pc EXCEPT ![p] = "open"] \/ pc' = [pc EXCEPT ![p] = "lock"]
        \/ pc' = [pc EXCEPT ![p] = "run"] \/ pc' = [pc EXCEPT ![p] = "close"]
        \/ pc' = [pc EXCEPT ![p] = "idle"]
    BY <2>1 DEF Invoke, Open, Lock, Set, Delete, AppendLine, EndOfInput, Query, Fail,
       CompactRename, CompactFail, Close, Kill, Gone, Goto
  <2>3. ASSUME NEW q \in Procs, pc'[q] \in {"tmp", "write", "rename"}
        PROVE  FALSE
    <3>1. q # p
      BY <2>2, <2>3 DEF Shape, TypeOK, Files
    <3>2. pc[q] \in {"tmp", "write", "rename"}
      BY <2>2, <2>3, <3>1 DEF Shape, TypeOK
    <3>3. call[q].op = "compact" /\ pc[p] = "idle"
      BY <3>1, <3>2 DEF Files
    <3>4. Invoke(p)
      BY <2>1, <3>3 DEF Open, Lock, Set, Delete, AppendLine, EndOfInput, Query, Fail,
         CompactRename, CompactFail, Close, Kill
    <3>5. \E c \in Commands : Alone(p, c)
      BY <3>4 DEF Invoke
    <3> QED
      BY <3>1, <3>2, <3>3, <3>5 DEF Alone
  <2> QED
    BY <2>3 DEF Renaming
<1> QED
  BY <1>1, <1>2, <1>3 DEF Next, Compact

-----------------------------------------------------------------------------------
(* What a step does to the rows                                                  *)

Still == UNCHANGED <<Rows, Torn, buf, mine, acked, newest, written, losses>>

\* The row in the buffer of p gets into the file, unless it is spoiled there.
Flushed(p) ==
  \/ buf[p] = <<>> /\ Rows' = Rows /\ Torn' = Torn
  \/ buf[p] # <<>> /\ Torn = 1 /\ Rows' = Rows /\ Torn' = 0
  \/ /\ buf[p] # <<>> /\ Torn = 0 /\ Torn' = 0
     /\ Rows' = {r \in Rows : r.key # buf[p][1].key} \cup {buf[p][1]}

\* p is the only one with rows of its own.
OnlyWriter(p) == \A q \in Procs \ {p} : buf[q] = <<>> /\ mine[q] = {}

Appended(p, row) ==
  /\ Flushed(p)
  /\ row \in Row /\ row.whole /\ row.n = written + 1
  /\ buf' = [buf EXCEPT ![p] = <<row>>]
  /\ mine' = [mine EXCEPT ![p] = mine[p] \cup {row}]
  /\ newest' = [newest EXCEPT ![row.key] = written + 1]
  /\ written' = written + 1
  /\ UNCHANGED <<acked, losses>>

Ended(p) ==
  /\ buf' = [buf EXCEPT ![p] = <<>>]
  /\ mine' = [mine EXCEPT ![p] = {}]
  /\ UNCHANGED <<newest, written>>
  /\ \/ Flushed(p) /\ acked' \in {acked, acked \cup mine[p]} /\ losses' = losses
     \/ /\ Rows' = Rows /\ Torn' = Torn /\ losses' = losses + 1
        /\ acked' \in {acked, acked \cup mine[p]}
     \/ /\ Rows' = Rows /\ acked' = acked
        /\ \/ Torn' = Torn /\ losses' = losses
           \/ losses' = losses + 1

Compacted ==
  /\ \E t \in Nat : t <= now /\ Rows' = LiveRows(Contents, t)
  /\ Torn' = 0
  /\ UNCHANGED <<buf, mine, acked, newest, written, losses>>

LEMMA ContentsType == ASSUME TypeOK PROVE Contents \in Seq(Row)
BY DEF TypeOK, Contents

LEMMA FlushRow ==
  ASSUME Shape, Buffers, NEW p \in Procs, Contents' = Contents \o buf[p]
  PROVE  Flushed(p)
<1>1. Contents \in Seq(Row) /\ buf[p] \in Seq(Row) /\ Len(buf[p]) <= 1
  BY ContentsType DEF Shape, TypeOK
<1>2. CASE buf[p] = <<>>
  <2>1. Contents' = Contents
    BY <1>1, <1>2
  <2> QED
    BY <1>2, <2>1 DEF Flushed, Rows, Torn
<1>3. CASE buf[p] # <<>>
  <2> DEFINE b == buf[p][1]
  <2>1. b \in Row /\ b.whole /\ buf[p] = <<b>>
    BY <1>1, <1>3 DEF Buffers
  <2> HIDE DEF b
  <2>2. Contents' = Append(Contents, b)
    BY <1>1, <2>1
  <2>3. ~IsTorn(Append(Contents, b))
    BY <1>1, <2>1 DEF IsTorn
  <2>4. Torn' = 0
    BY <2>2, <2>3 DEF Torn
  <2>5. IsTorn(Contents) => Rows' = Rows
    BY <1>1, <2>1, <2>2, SpoiledRow DEF Rows
  <2>6. ~IsTorn(Contents) => Rows' = {r \in Rows : r.key # b.key} \cup {b}
    BY <1>1, <2>1, <2>2, AppendReplacesOneKey DEF Rows, IsTorn
  <2> QED
    BY <1>3, <2>4, <2>5, <2>6 DEF Flushed, Torn, b
<1> QED
  BY <1>2, <1>3

Effect ==
  \/ Still /\ now' \in Nat /\ now <= now'
  \/ /\ UNCHANGED <<now, asof, answer>>
     /\ \/ \E p \in Procs :
             OnlyWriter(p) /\ (Ended(p) \/ \E row \in Row : Appended(p, row))
        \/ Compacted

LEMMA SameContents ==
  ASSUME Contents' = Contents
  PROVE  Rows' = Rows /\ Torn' = Torn
BY DEF Rows, Torn

LEMMA WriterEffect ==
  ASSUME Shape, Files, Buffers, NEW p \in Procs, Set(p) \/ Delete(p) \/ AppendLine(p)
  PROVE  Effect
<1>1. /\ pc[p] \in Working /\ call[p].op # "compact"
      /\ UNCHANGED <<db, now, asof, answer, acked, losses>>
  BY DEF Set, Delete, AppendLine, Working
<1>2. /\ db \in Inodes /\ fd[p] = db /\ Contents = disk[db] /\ OnlyWriter(p)
  BY <1>1, OneWriter DEF OnlyWriter
<1>3. PICK k \in Keys, v \in Values \cup {Erased}, expires \in Nat : AppendRow(p, k, v, expires)
  <2>1. call[p].ttl \in Nat
    BY CommandType DEF Shape, TypeOK
  <2>2. \A t \in Nat : ExpireAt(p, t) \in Nat
    BY <2>1 DEF ExpireAt
  <2>3. asof[p] \in Nat /\ now \in Nat
    BY DEF Shape, TypeOK
  <2> QED
    BY <2>2, <2>3 DEF Set, Delete, AppendLine
<1> DEFINE row == [key |-> k, val |-> v, exp |-> expires, n |-> written + 1, whole |-> TRUE]
<1>4. /\ disk' = [disk EXCEPT ![db] = disk[db] \o buf[p]]
      /\ buf' = [buf EXCEPT ![p] = <<row>>]
      /\ written' = written + 1
      /\ mine' = [mine EXCEPT ![p] = mine[p] \cup {row}]
      /\ newest' = [newest EXCEPT ![k] = written + 1]
  BY <1>2, <1>3 DEF AppendRow, Shape, TypeOK
<1>5. row \in Row /\ row.whole /\ row.n = written + 1 /\ row.key = k
  BY DEF Row, Shape, TypeOK
<1> HIDE DEF row
<1>6. Contents' = Contents \o buf[p]
  <2>1. disk'[db] = disk[db] \o buf[p]
    BY <1>2, <1>4 DEF Shape, TypeOK
  <2>2. None \notin Inodes
    BY StoreAssumption DEF StoreAssumption
  <2> QED
    BY <1>1, <1>2, <2>1, <2>2 DEF Contents
<1>7. Flushed(p)
  BY <1>6, FlushRow
<1>8. Appended(p, row)
  BY <1>1, <1>4, <1>5, <1>7 DEF Appended
<1> QED
  BY <1>1, <1>2, <1>5, <1>8 DEF Effect

LEMMA GoneEffect ==
  ASSUME Shape, Files, Buffers, NEW p \in Procs, Close(p) \/ Kill(p)
  PROVE  Effect
<1>1. /\ UNCHANGED <<db, now, answer, asof, written, newest>>
      /\ buf' = [buf EXCEPT ![p] = <<>>] /\ mine' = [mine EXCEPT ![p] = {}]
      /\ now \in Nat
  BY DEF Close, Kill, Gone, Shape, TypeOK
<1>2. CASE buf[p] = <<>> /\ mine[p] = {}
  <2>1. buf' = buf /\ mine' = mine
    BY <1>1, <1>2 DEF Shape, TypeOK
  <2>2. acked' = acked /\ losses' = losses
    BY <1>2 DEF Close, Kill
  <2>3. disk' = disk
    <3>1. CASE Close(p)
      <4>1. fd[p] \in Inodes /\ disk[fd[p]] \o <<>> = disk[fd[p]]
        BY <3>1 DEF Close, Shape, Locks, Working, TypeOK
      <4> QED
        BY <1>2, <3>1, <4>1 DEF Close, Shape, TypeOK
    <3>2. CASE Kill(p)
      BY <1>2, <3>2 DEF Kill
    <3> QED
      BY <3>1, <3>2
  <2>4. Contents' = Contents
    BY <1>1, <2>3 DEF Contents
  <2>5. Still
    BY <1>1, <2>1, <2>2, <2>4, SameContents DEF Still
  <2> QED
    BY <1>1, <2>5 DEF Effect
<1>3. CASE ~(buf[p] = <<>> /\ mine[p] = {})
  <2>1. pc[p] \in {"run", "close"} /\ call[p].op \in Writers
    BY <1>3 DEF Shape, Owners
  <2>2. /\ db \in Inodes /\ fd[p] = db /\ Contents = disk[db] /\ OnlyWriter(p)
    BY <2>1, OneWriter DEF OnlyWriter, Working, Writers
  <2>3. db # None
    BY <2>2, StoreAssumption DEF StoreAssumption
  <2>4. disk' = disk => Rows' = Rows /\ Torn' = Torn
    BY <1>1, SameContents DEF Contents
  <2>5. CASE Close(p)
    <3>1. acked' \in {acked, acked \cup mine[p]}
      BY <2>5 DEF Close
    <3>2. CASE disk' = [disk EXCEPT ![db] = disk[db] \o buf[p]] /\ losses' = losses
      <4>1. disk'[db] = disk[db] \o buf[p]
        BY <2>2, <3>2 DEF Shape, TypeOK
      <4>2. Contents' = Contents \o buf[p]
        BY <1>1, <2>2, <2>3, <4>1 DEF Contents
      <4>3. Ended(p)
        BY <1>1, <3>1, <3>2, <4>2, FlushRow DEF Ended
      <4> QED
        BY <1>1, <2>2, <4>3 DEF Effect
    <3>3. CASE disk' = disk /\ losses' = losses + 1
      <4>1. Ended(p)
        BY <1>1, <2>4, <3>1, <3>3 DEF Ended
      <4> QED
        BY <1>1, <2>2, <4>1 DEF Effect
    <3> QED
      BY <2>2, <2>5, <3>2, <3>3 DEF Close
  <2>6. CASE Kill(p) /\ disk' = disk /\ losses' = losses
    <3>1. Ended(p)
      BY <1>1, <2>4, <2>6 DEF Ended, Kill
    <3> QED
      BY <1>1, <2>2, <3>1 DEF Effect
  <2>7. CASE Kill(p) /\ ~(disk' = disk /\ losses' = losses)
    <3> DEFINE torn == [buf[p][1] EXCEPT !.whole = FALSE]
    <3>1. /\ buf[p] # <<>> /\ losses' = losses + 1 /\ acked' = acked
          /\ disk' = [disk EXCEPT ![db] = disk[db] \o <<torn>>]
      BY <2>2, <2>7 DEF Kill
    <3>2. buf[p][1] \in Row
      BY <3>1 DEF Shape, TypeOK
    <3>3. torn \in Row /\ ~torn.whole
      BY <3>2 DEF Row
    <3> HIDE DEF torn
    <3>4. disk'[db] = Append(disk[db], torn)
      BY <2>2, <3>1, <3>3 DEF Shape, TypeOK
    <3>5. Contents' = Append(Contents, torn)
      BY <1>1, <2>2, <2>3, <3>4 DEF Contents
    <3>6. Rows' = Rows
      BY <3>3, <3>5, SpoiledRow, ContentsType DEF Shape, Rows
    <3>7. Ended(p)
      BY <1>1, <3>1, <3>6 DEF Ended
    <3> QED
      BY <1>1, <2>2, <3>7 DEF Effect
  <2> QED
    BY <2>5, <2>6, <2>7
<1> QED
  BY <1>2, <1>3

LEMMA CompactEffect ==
  ASSUME Shape, Files, Renaming, NEW p \in Procs, Compact(p)
  PROVE  Effect
<1>0. None \notin Inodes /\ now \in Nat
  BY StoreAssumption DEF StoreAssumption, Shape, TypeOK
<1>1. UNCHANGED <<now, asof, answer, buf, mine, acked, newest, written, losses>>
  BY DEF Compact, CompactLoad, CompactOpen, CompactWrite, CompactRename, CompactFail, history
<1>2. CASE Contents' = Contents
  BY <1>0, <1>1, <1>2, SameContents DEF Effect, Still
<1>3. CASE CompactRename(p)
  <2>1. pc[p] = "rename" /\ db' = tmp /\ disk' = disk /\ tmp # None
    BY <1>3 DEF CompactRename
  <2>2. loaded[p] = LiveRows(Contents, asof[p]) /\ disk[tmp] \in Scans(loaded[p])
    BY <2>1 DEF Renaming
  <2>3. Contents \in Seq(Row) /\ asof[p] \in Nat /\ asof[p] <= now
    BY ContentsType DEF Shape, TypeOK, Files
  <2>4. Contents' = disk[tmp]
    BY <2>1 DEF Contents
  <2>5. Rows' = LiveRows(Contents, asof[p])
    BY <2>2, <2>3, <2>4, ScanShowsItsRows DEF Rows
  <2>6. \A r \in LiveRows(Contents, asof[p]) : r.whole
    BY DEF LiveRows, LatestRows, Readable
  <2>7. ~IsTorn(disk[tmp])
    <3>1. Cardinality(loaded[p]) \in Nat
      BY FS_CardinalityType DEF Shape, Locks
    <3>2. disk[tmp] \in [1..Cardinality(loaded[p]) -> loaded[p]]
      BY <2>2 DEF Scans
    <3>3. disk[tmp] # <<>> => disk[tmp][Len(disk[tmp])] \in loaded[p]
      BY <3>1, <3>2
    <3> QED
      BY <2>2, <2>6, <3>3 DEF IsTorn
  <2>8. Torn' = 0
    BY <2>4, <2>7 DEF Torn
  <2> QED
    BY <1>1, <2>3, <2>5, <2>8 DEF Effect, Compacted
<1>4. CASE ~CompactRename(p)
  <2>1. UNCHANGED <<db, fd>> /\ pc[p] \in {"run", "tmp", "write", "rename"} /\ call[p].op = "compact"
    BY <1>4 DEF Compact, CompactLoad, CompactOpen, CompactWrite, CompactFail, fileVars, Files
  <2>2. db \in Inodes
    BY <2>1 DEF Files, Working
  <2>3. disk'[db] = disk[db]
    <3>1. CASE CompactLoad(p) \/ CompactFail(p)
      BY <3>1 DEF CompactLoad, CompactFail, fileVars
    <3>2. CASE CompactOpen(p)
      <4>1. tmp' # db /\ disk' = [disk EXCEPT ![tmp'] = <<>>]
        BY <3>2 DEF CompactOpen, Free, InUse, Files
      <4> QED
        BY <2>2, <4>1 DEF Shape, TypeOK
    <3>3. CASE CompactWrite(p)
      <4>1. tfd[p] # db
        BY <1>0, <3>3 DEF CompactWrite, Renaming, Files, Shape, Locks
      <4> QED
        BY <2>2, <3>3, <4>1 DEF CompactWrite, Shape, TypeOK
    <3> QED
      BY <1>4, <3>1, <3>2, <3>3 DEF Compact
  <2>4. Contents' = Contents
    BY <2>1, <2>3 DEF Contents
  <2> QED
    BY <1>2, <2>4
<1> QED
  BY <1>3, <1>4

LEMMA StepEffect ==
  ASSUME Shape, Files, Renaming, Buffers, [Next]_vars
  PROVE  Effect
<1>0. now \in Nat
  BY DEF Shape, TypeOK
<1>1. ASSUME NEW p \in Procs,
             \/ Invoke(p) \/ Open(p) \/ Lock(p) \/ EndOfInput(p) \/ Query(p) \/ Fail(p)
      PROVE  Effect
  <2>1. UNCHANGED <<now, buf, acked, newest, written, losses>>
    BY <1>1 DEF Invoke, Open, Lock, EndOfInput, Query, Fail, history
  <2>2. mine' = mine
    <3>1. CASE Invoke(p)
      <4>1. mine[p] = {} /\ mine' = [mine EXCEPT ![p] = {}]
        BY <3>1 DEF Invoke, Shape, Owners
      <4> QED
        BY <4>1 DEF Shape, TypeOK
    <3>2. CASE ~Invoke(p)
      BY <1>1, <3>2 DEF Open, Lock, EndOfInput, Query, Fail, history
    <3> QED
      BY <3>1, <3>2
  <2>3. Contents' = Contents
    <3>1. CASE Open(p) /\ db = None
      <4>1. db' \in Inodes /\ disk' = [disk EXCEPT ![db'] = <<>>]
        BY <3>1 DEF Open, Free
      <4>2. disk'[db'] = <<>>
        BY <4>1 DEF Shape, TypeOK
      <4> QED
        BY <3>1, <4>1, <4>2, StoreAssumption DEF Contents, StoreAssumption
    <3>2. CASE ~(Open(p) /\ db = None)
      <4>1. UNCHANGED <<db, disk>>
        BY <1>1, <3>2 DEF Invoke, Open, Lock, EndOfInput, Query, Fail, fileVars
      <4> QED
        BY <4>1 DEF Contents
    <3> QED
      BY <3>1, <3>2
  <2> QED
    BY <1>0, <2>1, <2>2, <2>3, SameContents DEF Effect, Still
<1>2. CASE Tick \/ UNCHANGED vars
  <2>1. UNCHANGED <<db, disk, buf, mine, acked, newest, written, losses>>
    BY <1>2 DEF Tick, vars, fileVars, procVars, history
  <2>2. Contents' = Contents
    BY <2>1 DEF Contents
  <2>3. now' = now \/ now' = now + 1
    BY <1>2 DEF Tick, vars
  <2> QED
    BY <1>0, <2>1, <2>2, <2>3, SameContents DEF Effect, Still
<1> QED
  BY <1>1, <1>2, WriterEffect, CompactEffect, GoneEffect DEF Next

-----------------------------------------------------------------------------------
(* Buffers, accounts and ages are kept                                           *)

\* What the row that p has in its buffer is known to be.
LEMMA BufferedRow ==
  ASSUME Shape, Buffers, NEW p \in Procs, buf[p] # <<>>
  PROVE  /\ buf[p] = <<buf[p][1]>> /\ buf[p][1] \in Row /\ buf[p][1].n = written
         /\ newest[buf[p][1].key] = written
         /\ \A row \in Rows \cup acked : row.n < written
         /\ \A row \in mine[p] : row.n < written \/ row = buf[p][1]
BY DEF Shape, TypeOK, Buffers

LEMMA RowsType ==
  ASSUME Shape
  PROVE  /\ Rows \subseteq Row /\ acked \subseteq Row /\ \A p \in Procs : mine[p] \subseteq Row
         /\ written \in Nat /\ now \in Nat /\ losses \in Nat /\ \A k \in Keys : newest[k] \in Nat
         /\ \A row \in Rows \cup acked \cup UNION {mine[p] : p \in Procs} :
              row \in Row /\ row.key \in Keys /\ row.n \in Nat
<1>1. Rows \subseteq Row
  BY ContentsType, LiveRowsType DEF Shape, TypeOK, Rows
<1>2. /\ acked \subseteq Row /\ \A p \in Procs : mine[p] \subseteq Row
      /\ written \in Nat /\ now \in Nat /\ losses \in Nat /\ \A k \in Keys : newest[k] \in Nat
  BY DEF Shape, TypeOK
<1>3. \A row \in Row : row.key \in Keys /\ row.n \in Nat
  BY DEF Row
<1> QED
  BY <1>1, <1>2, <1>3

LEMMA BuffersKeep ==
  ASSUME Shape, Buffers, Effect
  PROVE  Buffers'
<1> USE DEF Buffers
<1>0. /\ written \in Nat /\ \A row \in Rows \cup acked : row.n \in Nat /\ row.key \in Keys
      /\ \A p \in Procs : \A row \in mine[p] : row.n \in Nat
  BY RowsType
<1>1. CASE Still
  BY <1>1 DEF Still
<1>2. CASE Compacted
  <2>1. Rows' \subseteq Rows
    BY <1>2 DEF Compacted, LiveRows, Rows
  <2> QED
    BY <1>2, <2>1 DEF Compacted
<1>3. ASSUME NEW p \in Procs, OnlyWriter(p), NEW row \in Row, Appended(p, row)
      PROVE  Buffers'
  <2>1. /\ row.whole /\ row.n = written + 1 /\ row.key \in Keys
        /\ buf'[p] = <<row>> /\ mine'[p] = mine[p] \cup {row} /\ newest'[row.key] = written + 1
        /\ written' = written + 1 /\ acked' = acked
    BY <1>3 DEF Appended, Shape, TypeOK, Row
  <2>2. \A q \in Procs \ {p} : buf'[q] = <<>> /\ mine'[q] = {}
    BY <1>3 DEF OnlyWriter, Appended, Shape, TypeOK
  <2>3. \A r \in Rows' : r.n <= written
    BY <1>0, <1>3, BufferedRow DEF Appended, Flushed
  <2>4. \A r \in Rows' : r.n \in Int
    BY <1>0, <1>3, BufferedRow DEF Appended, Flushed
  <2>5. \A r \in Rows' \cup acked' : r.n < written'
    BY <1>0, <2>1, <2>3, <2>4
  <2>6. \A r \in mine'[p] : r.n < written' \/ r = buf'[p][1]
    BY <1>0, <2>1
  <2>7. \A r \in mine'[p] : r.n <= written'
    BY <1>0, <2>1
  <2>8. \A r \in Rows' \cup acked' : r.n <= written'
    BY <1>0, <2>1, <2>3, <2>4
  <2>9. ASSUME NEW q \in Procs
        PROVE  /\ \A r \in mine'[q] : r.n <= written'
               /\ buf'[q] # <<>> =>
                    /\ buf'[q][1].whole /\ buf'[q][1].n = written'
                    /\ newest'[buf'[q][1].key] = written'
                    /\ \A r \in Rows' \cup acked' : r.n < written'
                    /\ \A r \in mine'[q] : r.n < written' \/ r = buf'[q][1]
    <3>1. CASE q = p
      <4>1. buf'[q][1] = row
        BY <2>1, <3>1
      <4> QED
        BY <2>1, <2>5, <2>6, <2>7, <3>1, <4>1
    <3>2. CASE q # p
      BY <2>2, <3>2
    <3> QED
      BY <3>1, <3>2
  <2> QED
    BY <2>8, <2>9
<1>4. ASSUME NEW p \in Procs, OnlyWriter(p), Ended(p)
      PROVE  Buffers'
  <2>1. \A q \in Procs : buf'[q] = <<>> /\ mine'[q] = {}
    BY <1>4 DEF OnlyWriter, Ended, Shape, TypeOK
  <2>2. \A r \in Rows' : r.n <= written
    BY <1>0, <1>4, BufferedRow DEF Ended, Flushed
  <2>3. \A r \in acked' : r.n <= written
    BY <1>0, <1>4 DEF Ended
  <2> QED
    BY <1>4, <2>1, <2>2, <2>3 DEF Ended
<1> QED
  BY <1>1, <1>2, <1>3, <1>4 DEF Effect

\* One more element at most.
LEMMA OneMore ==
  ASSUME NEW S, IsFiniteSet(S), NEW x, NEW T, T \subseteq S \cup {x}
  PROVE  /\ IsFiniteSet(T) /\ Cardinality(T) \in Nat /\ Cardinality(S) \in Nat
         /\ Cardinality(T) <= Cardinality(S) + 1
         /\ x \in S => Cardinality(T) <= Cardinality(S)
<1>1. /\ IsFiniteSet(S \cup {x}) /\ Cardinality(S) \in Nat
      /\ Cardinality(S \cup {x}) = IF x \in S THEN Cardinality(S) ELSE Cardinality(S) + 1
  BY FS_AddElement, FS_CardinalityType
<1>2. IsFiniteSet(T) /\ Cardinality(T) <= Cardinality(S \cup {x})
  BY <1>1, FS_Subset
<1>3. Cardinality(T) \in Nat
  BY <1>2, FS_CardinalityType
<1> QED
  BY <1>1, <1>2, <1>3

LEMMA NoMore ==
  ASSUME NEW S, IsFiniteSet(S), NEW T, T \subseteq S
  PROVE  /\ IsFiniteSet(T) /\ Cardinality(T) \in Nat /\ Cardinality(S) \in Nat
         /\ Cardinality(T) <= Cardinality(S)
BY FS_Subset, FS_CardinalityType

\* What no step but the end of a writer can make missing.
LEMMA MissingStill ==
  ASSUME Shape, Still, now' \in Nat, now <= now'
  PROVE  Missing' \subseteq Missing
<1>1. \A row \in Missing' : row \in Row
  BY RowsType DEF Still, Missing
<1>2. \A row \in Missing' : RowIsLive(row, now)
  BY <1>1, RowsType, LiveBefore DEF Missing
<1> QED
  BY <1>2 DEF Still, Missing

LEMMA MissingCompacted ==
  ASSUME Shape, Compacted, now' = now
  PROVE  Missing' \subseteq Missing
<1>1. PICK t \in Nat : t <= now /\ Rows' = LiveRows(Contents, t)
  BY DEF Compacted
<1>2. \A row \in Missing' : row \in Row /\ RowIsLive(row, now)
  BY RowsType DEF Compacted, Missing
<1>3. \A row \in Missing' : RowIsLive(row, t)
  BY <1>1, <1>2, LiveBefore, RowsType
<1>4. \A row \in Missing' : row \notin Rows
  BY <1>1, <1>3 DEF Missing, LiveRows, Rows
<1> QED
  BY <1>2, <1>4 DEF Compacted, Missing

LEMMA MissingAppended ==
  ASSUME Shape, Buffers, NEW p \in Procs, OnlyWriter(p), NEW new \in Row, Appended(p, new),
         now' = now
  PROVE  Missing' \subseteq Missing \cup (IF buf[p] # <<>> /\ Torn = 1 THEN {buf[p][1]} ELSE {})
<1> SUFFICES ASSUME NEW row \in Missing',
                    row \notin Missing, ~(buf[p] # <<>> /\ Torn = 1 /\ row = buf[p][1])
             PROVE  FALSE
  OBVIOUS
<1>1. /\ new.n = written + 1 /\ new.key \in Keys /\ written \in Nat
      /\ buf'[p] = <<new>> /\ mine'[p] = mine[p] \cup {new}
      /\ newest' = [newest EXCEPT ![new.key] = written + 1] /\ acked' = acked
      /\ \A q \in Procs \ {p} : mine'[q] = {} /\ mine[q] = {} /\ buf[q] = <<>>
  BY DEF Appended, OnlyWriter, Shape, TypeOK, Row
<1>2. row \in acked \cup mine[p]
  BY <1>1 DEF Missing
<1>3. row \in Row /\ row.key \in Keys /\ row.n \in Nat /\ row.n <= written
  BY <1>2, RowsType DEF Buffers
<1>4. newest'[row.key] = row.n
  BY DEF Missing
<1>5. newest[row.key] = row.n
  BY <1>1, <1>3, <1>4 DEF Shape, TypeOK
<1>6. RowIsLive(row, now) /\ row \notin Rows'
  BY DEF Missing
<1>7. row \in Rows \/ buf[p] = <<row>>
  BY <1>1, <1>2, <1>5, <1>6 DEF Missing
<1>8. CASE buf[p] = <<>>
  BY <1>6, <1>7, <1>8 DEF Appended, Flushed
<1>9. CASE buf[p] # <<>>
  <2>1. /\ buf[p] = <<buf[p][1]>> /\ newest[buf[p][1].key] = written
        /\ \A r \in Rows : r.n < written
    BY <1>9, BufferedRow
  <2>2. row # buf[p][1] => row \in Rows
    BY <1>7, <2>1
  <2>3. row \in Rows => row.key # buf[p][1].key
    BY <1>1, <1>3, <1>5, <2>1
  <2> QED
    BY <1>6, <1>9, <2>2, <2>3 DEF Appended, Flushed
<1> QED
  BY <1>8, <1>9

LEMMA MissingEnded ==
  ASSUME Shape, Buffers, NEW p \in Procs, OnlyWriter(p), Ended(p), now' = now
  PROVE  /\ Missing' \subseteq Missing \cup (IF buf[p] = <<>> THEN {} ELSE {buf[p][1]})
         /\ acked' = acked \/ (Flushed(p) /\ Torn = 0) => Missing' \subseteq Missing
<1>1. /\ newest' = newest
      /\ \A q \in Procs : mine'[q] = {}
      /\ \A q \in Procs \ {p} : mine[q] = {} /\ buf[q] = <<>>
      /\ acked' \in {acked, acked \cup mine[p]}
  BY DEF Ended, OnlyWriter, Shape, TypeOK
<1>2. ASSUME NEW row \in Missing'
      PROVE  /\ row \in acked' /\ row \in acked \cup mine[p]
             /\ newest[row.key] = row.n /\ RowIsLive(row, now) /\ row \notin Rows'
             /\ row \in Row /\ row.n \in Nat
  BY <1>1, RowsType DEF Missing
<1>3. \A row \in Missing' : row \in Rows \/ buf[p] = <<row>> \/ row \in Missing
  <2> SUFFICES ASSUME NEW row \in Missing', row \notin Rows, buf[p] # <<row>>
               PROVE  row \in Missing
    OBVIOUS
  <2>1. row \in acked \cup UNION {mine[q] : q \in Procs}
    BY <1>2
  <2>2. \A q \in Procs : buf[q] # <<row>>
    BY <1>1
  <2> QED
    BY <1>2, <2>1, <2>2 DEF Missing
<1>4. CASE buf[p] = <<>>
  BY <1>2, <1>3, <1>4 DEF Ended, Flushed
<1>5. CASE buf[p] # <<>>
  <2>1. /\ buf[p] = <<buf[p][1]>> /\ newest[buf[p][1].key] = written
        /\ buf[p][1].n = written /\ written \in Nat
        /\ \A row \in Rows \cup acked : row.n < written
    BY <1>5, BufferedRow, RowsType
  <2>2. \A row \in Missing' : row \in Rows => row.key # buf[p][1].key
    BY <1>2, <2>1
  <2>3. \A row \in Missing' : row \in Rows => row \in Rows'
    BY <2>2 DEF Ended, Flushed
  <2>4. \A row \in Missing' : row = buf[p][1] \/ row \in Missing
    BY <1>2, <1>3, <2>1, <2>3
  <2>5. acked' = acked => buf[p][1] \notin Missing'
    BY <1>2, <2>1
  <2>6. Flushed(p) /\ Torn = 0 => buf[p][1] \notin Missing'
    BY <1>2, <1>5 DEF Flushed
  <2> QED
    BY <1>5, <2>4, <2>5, <2>6
<1> QED
  BY <1>4, <1>5

LEMMA AccountsKeep ==
  ASSUME Shape, Buffers, Accounts, Effect
  PROVE  Accounts'
<1>0. /\ Torn \in {0, 1} /\ Torn' \in {0, 1} /\ Torn \in Nat /\ Torn' \in Nat
      /\ losses \in Nat /\ Cardinality(Missing) \in Nat
  BY RowsType, FS_CardinalityType DEF Torn, Accounts
<1>1. CASE /\ Missing' \subseteq Missing
           /\ losses' \in Nat /\ Torn' + losses <= Torn + losses'
  <2>1. /\ IsFiniteSet(Missing') /\ Cardinality(Missing') \in Nat
        /\ Cardinality(Missing') <= Cardinality(Missing)
    BY <1>1, NoMore DEF Accounts
  <2>2. Cardinality(Missing) + Torn <= losses
    BY DEF Accounts
  <2>3. PICK m \in Nat, t \in Nat, l \in Nat :
          m = Cardinality(Missing') /\ t = Torn' /\ l = losses'
    BY <1>0, <1>1, <2>1
  <2>4. m <= Cardinality(Missing) /\ t + losses <= Torn + l
    BY <1>1, <2>1, <2>3
  <2>5. m + t <= l
    BY <1>0, <2>2, <2>4
  <2> QED
    BY <2>1, <2>3, <2>5 DEF Accounts
<1>2. ASSUME NEW b, Missing' \subseteq Missing \cup {b},
             losses' \in Nat, Torn' + losses + 1 <= Torn + losses'
      PROVE  Accounts'
  <2>1. /\ IsFiniteSet(Missing') /\ Cardinality(Missing') \in Nat
        /\ Cardinality(Missing') <= Cardinality(Missing) + 1
    BY <1>2, OneMore DEF Accounts
  <2>2. Cardinality(Missing) + Torn <= losses
    BY DEF Accounts
  <2>3. PICK m \in Nat, t \in Nat, l \in Nat :
          m = Cardinality(Missing') /\ t = Torn' /\ l = losses'
    BY <1>0, <1>2, <2>1
  <2>4. m <= Cardinality(Missing) + 1 /\ t + losses + 1 <= Torn + l
    BY <1>2, <2>1, <2>3
  <2>5. m + t <= l
    BY <1>0, <2>2, <2>4
  <2> QED
    BY <2>1, <2>3, <2>5 DEF Accounts
<1>3. CASE Still /\ now' \in Nat /\ now <= now'
  <2>1. Missing' \subseteq Missing
    BY <1>3, MissingStill
  <2> QED
    BY <1>0, <1>1, <1>3, <2>1 DEF Still
<1>4. CASE Compacted /\ now' = now
  <2>1. Missing' \subseteq Missing
    BY <1>4, MissingCompacted
  <2> QED
    BY <1>0, <1>1, <1>4, <2>1 DEF Compacted
<1>5. ASSUME NEW p \in Procs, OnlyWriter(p), NEW new \in Row, Appended(p, new), now' = now
      PROVE  Accounts'
  <2>1. losses' = losses
    BY <1>5 DEF Appended
  <2>2. CASE buf[p] # <<>> /\ Torn = 1
    <3>1. Missing' \subseteq Missing \cup {buf[p][1]} /\ Torn' = 0
      BY <1>5, <2>2, MissingAppended DEF Appended, Flushed
    <3> QED
      BY <1>0, <1>2, <2>1, <2>2, <3>1
  <2>3. CASE ~(buf[p] # <<>> /\ Torn = 1)
    <3>1. Missing' \subseteq Missing /\ Torn' = Torn
      BY <1>0, <1>5, <2>3, MissingAppended DEF Appended, Flushed
    <3> QED
      BY <1>0, <1>1, <2>1, <3>1
  <2> QED
    BY <2>2, <2>3
<1>6. ASSUME NEW p \in Procs, OnlyWriter(p), Ended(p), now' = now
      PROVE  Accounts'
  <2>1. /\ Missing' \subseteq Missing \cup (IF buf[p] = <<>> THEN {} ELSE {buf[p][1]})
        /\ acked' = acked \/ (Flushed(p) /\ Torn = 0) => Missing' \subseteq Missing
    BY <1>6, MissingEnded
  <2>2. CASE Flushed(p) /\ losses' = losses /\ buf[p] # <<>> /\ Torn = 1
    <3>1. Missing' \subseteq Missing \cup {buf[p][1]} /\ Torn' = 0
      BY <2>1, <2>2 DEF Flushed
    <3> QED
      BY <1>0, <1>2, <2>2, <3>1
  <2>3. CASE Flushed(p) /\ losses' = losses /\ ~(buf[p] # <<>> /\ Torn = 1)
    <3>1. Missing' \subseteq Missing /\ Torn' = Torn
      BY <1>0, <2>1, <2>3 DEF Flushed
    <3> QED
      BY <1>0, <1>1, <2>3, <3>1
  <2>4. CASE Torn' = Torn /\ losses' = losses + 1
    <3>1. Missing' \subseteq Missing \cup {buf[p][1]}
      BY <2>1
    <3> QED
      BY <1>0, <1>2, <2>4, <3>1
  <2>5. CASE acked' = acked /\ ((Torn' = Torn /\ losses' = losses) \/ losses' = losses + 1)
    <3>1. Missing' \subseteq Missing
      BY <2>1, <2>5
    <3> QED
      BY <1>0, <1>1, <2>5, <3>1
  <2> QED
    BY <1>0, <1>6, <2>2, <2>3, <2>4, <2>5 DEF Ended
<1> QED
  BY <1>3, <1>4, <1>5, <1>6 DEF Effect

LEMMA AgesKeep ==
  ASSUME Shape, Buffers, Accounts, Ages, Effect
  PROVE  Ages'
<1>0. /\ Torn \in {0, 1} /\ losses \in Nat /\ Cardinality(Missing) \in Nat /\ written \in Nat
      /\ Rows \subseteq Row /\ \A row \in Rows : row.n \in Nat
      /\ \A p \in Procs : \A row \in mine[p] : row.n \in Nat
      /\ \A row \in acked : row.n \in Nat
  BY RowsType, FS_CardinalityType DEF Torn, Accounts
<1> SUFFICES ASSUME losses' = 0
             PROVE  /\ \A row \in acked' : NoneOlder(row)'
                    /\ \A p \in Procs : \A row \in mine'[p] : buf'[p] = <<row>> \/ NoneOlder(row)'
  BY DEF Ages
<1>1. losses = 0 /\ Torn = 0
  <2>1. losses = 0
    BY <1>0 DEF Effect, Still, Compacted, Appended, Ended
  <2> QED
    BY <1>0, <2>1 DEF Accounts
<1>2. /\ \A row \in acked : NoneOlder(row)
      /\ \A p \in Procs : \A row \in mine[p] : buf[p] = <<row>> \/ NoneOlder(row)
  BY <1>1 DEF Ages
<1>3. CASE Still
  BY <1>2, <1>3 DEF Still, NoneOlder
<1>4. CASE Compacted
  <2>1. Rows' \subseteq Rows
    BY <1>4 DEF Compacted, LiveRows, Rows
  <2> QED
    BY <1>2, <1>4, <2>1 DEF Compacted, NoneOlder
\* A row that gets into the file is newer than all there is.
<1>5. ASSUME NEW p \in Procs, Flushed(p)
      PROVE  /\ \A row \in acked : NoneOlder(row)'
             /\ \A row \in mine[p] : NoneOlder(row)'
  <2>1. CASE buf[p] = <<>>
    <3>1. Rows' = Rows
      BY <1>5, <2>1 DEF Flushed
    <3>2. \A row \in mine[p] : buf[p] # <<row>>
      BY <2>1
    <3> QED
      BY <1>2, <3>1, <3>2 DEF NoneOlder
  <2>2. CASE buf[p] # <<>>
    <3> DEFINE b == buf[p][1]
    <3>1. Rows' = {r \in Rows : r.key # b.key} \cup {b}
      BY <1>1, <1>5, <2>2 DEF Flushed
    <3>2. /\ b.n = written /\ buf[p] = <<b>>
          /\ \A row \in acked : row.n < written
          /\ \A row \in mine[p] : row.n < written \/ row = b
      BY <2>2, BufferedRow
    <3> HIDE DEF b
    <3>3. \A row \in acked \cup mine[p] : row.n \in Nat /\ b.n >= row.n
      BY <1>0, <3>2
    <3>4. \A row \in acked \cup mine[p] : NoneOlder(row) \/ row = b
      BY <1>2, <3>2
    <3> QED
      BY <3>1, <3>3, <3>4 DEF NoneOlder
  <2> QED
    BY <2>1, <2>2
<1>6. ASSUME NEW p \in Procs, OnlyWriter(p), NEW new \in Row, Appended(p, new)
      PROVE  /\ \A row \in acked' : NoneOlder(row)'
             /\ \A q \in Procs : \A row \in mine'[q] : buf'[q] = <<row>> \/ NoneOlder(row)'
  <2>1. /\ acked' = acked /\ mine'[p] = mine[p] \cup {new} /\ buf'[p] = <<new>> /\ Flushed(p)
        /\ \A q \in Procs \ {p} : mine'[q] = {}
    BY <1>6 DEF OnlyWriter, Appended, Shape, TypeOK
  <2> QED
    BY <1>5, <2>1
<1>7. ASSUME NEW p \in Procs, OnlyWriter(p), Ended(p)
      PROVE  /\ \A row \in acked' : NoneOlder(row)'
             /\ \A q \in Procs : \A row \in mine'[q] : buf'[q] = <<row>> \/ NoneOlder(row)'
  <2>1. \A q \in Procs : mine'[q] = {}
    BY <1>7 DEF OnlyWriter, Ended, Shape, TypeOK
  <2>2. CASE Flushed(p) /\ acked' \in {acked, acked \cup mine[p]}
    BY <1>5, <2>1, <2>2
  <2>3. CASE Rows' = Rows /\ acked' = acked
    BY <1>2, <2>1, <2>3 DEF NoneOlder
  <2> QED
    BY <1>1, <1>7, <2>2, <2>3 DEF Ended
<1> QED
  BY <1>3, <1>4, <1>6, <1>7 DEF Effect

-----------------------------------------------------------------------------------
(* What holds when --compact runs alone                                          *)

LEMMA InitIInv == Init => IInv
<1> SUFFICES ASSUME Init PROVE IInv
  OBVIOUS
<1>1. Rows = {} /\ Torn = 0
  BY DEF Init, Rows, Torn, IsTorn, Contents, LatestRows, Readable
<1>2. acked = {} /\ losses = 0 /\ \A p \in Procs : mine[p] = {} /\ buf[p] = <<>>
  BY DEF Init
<1>3. Missing = {} /\ IsFiniteSet({}) /\ Cardinality({}) = 0
  BY <1>2, FS_EmptySet DEF Missing
<1>4. Buffers /\ Ages
  BY <1>1, <1>2 DEF Buffers, Ages
<1>5. Accounts
  BY <1>1, <1>2, <1>3 DEF Accounts
<1> QED
  BY <1>4, <1>5, InitShape, InitFiles DEF IInv

LEMMA IInvKeeps ==
  ASSUME Offline
  PROVE  IInv /\ [Next]_vars => IInv'
<1> SUFFICES ASSUME IInv, [Next]_vars PROVE IInv'
  OBVIOUS
<1>1. Shape /\ Files /\ Renaming /\ Buffers /\ Accounts /\ Ages
  BY DEF IInv
<1>2. Shape'
  BY <1>1, ShapeKeeps
<1>3. Files' /\ Renaming'
  BY <1>1, FilesKeep, RenamingKeeps
<1>4. Effect
  BY <1>1, StepEffect
<1>5. Buffers' /\ Accounts' /\ Ages'
  BY <1>1, <1>4, BuffersKeep, AccountsKeep, AgesKeep
<1> QED
  BY <1>2, <1>3, <1>5 DEF IInv

\* While --compact runs alone: the path names the file everyone works on, a
\* buffered row is the newest there is, and every row that is missing is paid for
\* by a loss (clip_store.c: 184-213, db_format.c: 105-157, db_compact.c: 20-82).
THEOREM StoreInvariant ==
  ASSUME Offline
  PROVE  Spec => []IInv
<1>1. Init => IInv
  BY InitIInv
<1>2. IInv /\ [Next]_vars => IInv'
  BY IInvKeeps
<1> QED
  BY <1>1, <1>2, PTL DEF Spec

\* While --compact runs alone and nothing is lost, no reader finds a row older
\* than one that was reported as stored (db_query.c: 166-219,
\* db_compact.c: 45-59).
THEOREM OldRowsStayAway ==
  ASSUME Offline
  PROVE  Spec => []NoResurrection
<1>1. IInv => NoResurrection
  BY DEF IInv, Ages, NoneOlder, NoResurrection, LiveRows, Rows
<1> QED
  BY <1>1, StoreInvariant, PTL

\* The rows that readers should find and do not are among the missing ones.
LEMMA LostAreMissing ==
  ASSUME IInv
  PROVE  Lost \subseteq Missing
<1> SUFFICES ASSUME NEW row \in Lost PROVE row \in Missing
  OBVIOUS
<1>1. /\ row \in acked /\ newest[row.key] = row.n /\ RowIsLive(row, now)
      /\ row \notin Rows
  BY DEF Lost, Rows
<1>2. row.n \in Nat /\ written \in Nat
  BY <1>1, RowsType DEF IInv
<1>3. ASSUME NEW p \in Procs, buf[p] = <<row>>
      PROVE  FALSE
  <2>1. buf[p] # <<>> /\ buf[p][1] = row
    BY <1>3
  <2>2. row.n = written /\ row.n < written
    BY <1>1, <2>1 DEF IInv, Buffers
  <2> QED
    BY <1>2, <2>2
<1> QED
  BY <1>1, <1>3 DEF Missing

\* While --compact runs alone, each killed writer of a long row and each failed
\* last write costs one row that was reported as stored, at most
\* (db_format.c: 29-54, clip_store.c: 302-304).
THEOREM LossesAreBounded ==
  ASSUME Offline
  PROVE  Spec => []BoundedLoss
<1>1. IInv => BoundedLoss
  <2> SUFFICES ASSUME IInv PROVE BoundedLoss
    OBVIOUS
  <2>1. Lost \subseteq Missing /\ IsFiniteSet(Missing)
    BY LostAreMissing DEF IInv, Accounts
  <2>2. /\ Cardinality(Lost) <= Cardinality(Missing)
        /\ Cardinality(Lost) \in Nat /\ Cardinality(Missing) \in Nat
    BY <2>1, NoMore
  <2>3. Cardinality(Missing) + Torn <= losses /\ losses \in Nat
    BY RowsType DEF IInv, Accounts
  <2>4. Torn \in Nat
    BY DEF Torn
  <2> QED
    BY <2>2, <2>3, <2>4 DEF BoundedLoss
<1> QED
  BY <1>1, StoreInvariant, PTL

\* While --compact runs alone, when every row fits the stdio buffer and the last
\* write does not fail, a row that was reported as stored stays what readers find
\* for its key, whoever is killed (clip_store.c: 230-239, 270-304).
THEOREM StoredRowsStay ==
  ASSUME Offline, LongValues = {}, ~DiskFull
  PROVE  Spec => []AckedStays
<1> DEFINE Lossless == losses = 0
<1>1. Init => Lossless
  BY DEF Init
<1>2. Lossless /\ [Next]_vars => Lossless'
  <2>1. \A p \in Procs : Close(p) \/ Kill(p) => losses' = losses
    BY DEF Close, Kill
  <2>2. \A p \in Procs : Compact(p) => losses' = losses
    BY DEF Compact, CompactLoad, CompactOpen, CompactWrite, CompactRename, CompactFail, history
  <2>3. ASSUME NEW p \in Procs,
               \/ Invoke(p) \/ Open(p) \/ Lock(p) \/ Set(p) \/ Delete(p) \/ AppendLine(p)
               \/ EndOfInput(p) \/ Query(p) \/ Fail(p)
        PROVE  losses' = losses
    BY <2>3 DEF Invoke, Open, Lock, Set, Delete, AppendLine, EndOfInput, Query, Fail, history
  <2>4. Tick \/ UNCHANGED vars => losses' = losses
    BY DEF Tick, vars, history
  <2> QED
    BY <2>1, <2>2, <2>3, <2>4 DEF Next
<1>3. IInv /\ Lossless => AckedStays
  <2> SUFFICES ASSUME IInv, losses = 0 PROVE AckedStays
    OBVIOUS
  <2>1. IsFiniteSet(Missing) /\ Cardinality(Missing) + Torn <= 0 /\ Cardinality(Missing) \in Nat
    BY FS_CardinalityType DEF IInv, Accounts
  <2>2. Torn \in Nat
    BY DEF Torn
  <2>3. Cardinality(Missing) = 0
    BY <2>1, <2>2
  <2>4. Missing = {}
    BY <2>1, <2>3, FS_EmptySet
  <2> QED
    BY <2>4, LostAreMissing DEF AckedStays
<1> HIDE DEF Lossless
<1> QED
  BY <1>1, <1>2, <1>3, StoreInvariant, PTL DEF Spec

-----------------------------------------------------------------------------------
(* The map that is served one call at a time                                     *)

Shown == {row \in LatestRows(Contents) : ~IsTombstone(row)}

\* Rows and their expiry are the same thing in both specifications.
LEMMA SameRows ==
  /\ KV!Row = Row
  /\ \A row, t : KV!IsExpired(row, t) = IsExpired(row, t)
BY DEF KV!Row, KV!Erased, KV!IsExpired, Row, Erased, IsExpired

LEMMA ShownKeeps ==
  ASSUME Rows' = Rows
  PROVE  Shown' = Shown
BY DEF Shown, Rows

\* Getting the row of a buffer into the file replaces the row of one key.
LEMMA FlushStores ==
  ASSUME Shape, Buffers, Shape', NEW p \in Procs, Flushed(p), UNCHANGED <<now, asof, answer>>
  PROVE  KV!Next \/ UNCHANGED KV!vars
<1>1. CASE Rows' = Rows
  BY <1>1, ShownKeeps DEF KV!vars, Shown
<1>2. CASE Rows' # Rows
  <2> DEFINE b == buf[p][1]
  <2>1. buf[p] # <<>> /\ Rows' = {r \in Rows : r.key # b.key} \cup {b}
    BY <1>2 DEF Flushed
  <2>2. b.n = written /\ b.key \in Keys /\ \A r \in Rows : r.n < written
    BY <2>1, BufferedRow DEF Row
  <2>3. \A r \in Rows : r.n \in Nat /\ written \in Nat
    BY RowsType
  <2>4. Rows' \subseteq Row /\ \A r, s \in Rows' : r.key = s.key => r = s
    <3>1. Contents' \in Seq(Row)
      BY DEF Shape, TypeOK, Contents
    <3> QED
      BY <3>1, LiveRowsType, OneRowPerKey DEF Rows
  <2> HIDE DEF b
  <2>5. /\ {r \in Shown' : r.key # b.key} = {r \in Shown : r.key # b.key}
        /\ Shown' \subseteq Rows' /\ Shown \subseteq Rows
        /\ Shown' \ Shown \subseteq {b}
    BY <2>1 DEF Shown, Rows
  <2>6. \A r \in Shown' \ Shown, s \in Shown : r.n > s.n
    BY <2>2, <2>3, <2>5
  <2>7. Shown' \subseteq Row /\ \A r, s \in Shown' : r.key = s.key => r = s
    BY <2>4, <2>5
  <2>8. KV!Store(b.key)
    BY <2>5, <2>6, <2>7, SameRows DEF KV!Store, Shown
  <2> QED
    BY <2>2, <2>8 DEF KV!Next
<1> QED
  BY <1>1, <1>2

LEMMA CompactedForgets ==
  ASSUME Shape, Compacted, UNCHANGED <<now, asof, answer>>
  PROVE  KV!Next
<1>1. PICK t \in Nat : t <= now /\ Rows' = LiveRows(Contents, t)
  BY DEF Compacted
<1>2. Shown' = LiveRows(Contents, t)
  BY <1>1 DEF Shown, Rows, LiveRows, RowIsLive
<1>3. Shown' \subseteq Shown
  BY <1>2 DEF Shown, LiveRows, RowIsLive
<1>4. \A r \in Shown \ Shown' : r \in Row /\ IsExpired(r, t)
  BY <1>2, RowsType DEF Shown, LiveRows, RowIsLive, Rows
<1>5. now \in Nat /\ \A r \in Row : r.exp \in Nat
  BY DEF Shape, TypeOK, Row
<1>6. \A r \in Shown \ Shown' : IsExpired(r, now)
  BY <1>1, <1>4, <1>5 DEF IsExpired
<1>7. KV!Forget
  BY <1>3, <1>6, SameRows DEF KV!Forget, Shown
<1> QED
  BY <1>7 DEF KV!Next

LEMMA StillServes ==
  ASSUME Shape, Files, [Next]_vars, Rows' = Rows
  PROVE  KV!Next \/ UNCHANGED KV!vars
<1>1. Shown' = Shown
  BY ShownKeeps
<1>2. CASE UNCHANGED <<now, asof, answer>>
  BY <1>1, <1>2 DEF KV!vars, Shown
<1>3. ASSUME NEW p \in Procs, Lock(p) PROVE KV!Next
  <2>1. KV!Grant(p)
    BY <1>1, <1>3 DEF Lock, KV!Grant, Shown
  <2> QED
    BY <2>1 DEF KV!Next
<1>4. ASSUME NEW p \in Procs, Invoke(p) PROVE KV!Next
  <2>1. answer' = {} /\ UNCHANGED <<now, asof>>
    BY <1>4 DEF Invoke
  <2>2. {r \in Shown : r.key \in {} /\ ~IsExpired(r, asof[p])} = {}
    OBVIOUS
  <2>3. KV!Answer(p, {})
    BY <1>1, <2>1, <2>2, SameRows DEF KV!Answer, Shown
  <2> QED
    BY <2>3 DEF KV!Next
<1>5. ASSUME NEW p \in Procs, Query(p) PROVE KV!Next
  <2>1. pc[p] \in Working /\ call[p].op # "compact" /\ call[p].keys \subseteq Keys
    BY <1>5, CommandType DEF Query, Working, Shape, TypeOK
  <2>2. fd[p] = db /\ Contents = disk[db]
    BY <2>1, OneWriter
  <2>3. /\ answer' = {row \in LiveRows(Contents, asof[p]) : row.key \in call[p].keys}
        /\ UNCHANGED <<now, asof>>
    BY <1>5, <2>2 DEF Query
  <2>4. answer' = {r \in Shown : r.key \in call[p].keys /\ ~IsExpired(r, asof[p])}
    BY <2>3 DEF Shown, LiveRows, RowIsLive
  <2>5. KV!Answer(p, call[p].keys)
    BY <1>1, <2>3, <2>4, SameRows DEF KV!Answer, Shown
  <2> QED
    BY <2>1, <2>5 DEF KV!Next
<1>6. CASE Tick
  <2>1. now' > now /\ now' \in Nat /\ UNCHANGED <<asof, answer>>
    BY <1>6 DEF Tick, procVars, Shape, TypeOK
  <2>2. KV!Tick
    BY <1>1, <2>1 DEF KV!Tick, Shown
  <2> QED
    BY <2>2 DEF KV!Next
<1>7. ASSUME NEW p \in Procs,
             \/ Open(p) \/ Set(p) \/ Delete(p) \/ AppendLine(p) \/ EndOfInput(p) \/ Fail(p)
             \/ Compact(p) \/ Close(p) \/ Kill(p)
      PROVE  UNCHANGED <<now, asof, answer>>
  BY <1>7 DEF Open, Set, Delete, AppendLine, EndOfInput, Fail, Compact, CompactLoad,
     CompactOpen, CompactWrite, CompactRename, CompactFail, Close, Kill
<1>8. UNCHANGED vars => UNCHANGED <<now, asof, answer>>
  BY DEF vars, procVars
<1> QED
  BY <1>2, <1>3, <1>4, <1>5, <1>6, <1>7, <1>8 DEF Next

\* While --compact runs alone, clip_store keeps the promise of ClipKV: whatever
\* processes run, are killed or fail to write, its answers are those of a map
\* that serves one call at a time, as of the second it got the lock
\* (clip_store.c: 184-304).
THEOREM StoreIsAMap ==
  ASSUME Offline
  PROVE  Spec => KVSpec
<1>1. Init => KV!Init
  <2> SUFFICES ASSUME Init PROVE KV!Init
    OBVIOUS
  <2>1. Shown = {} /\ now \in Nat /\ answer = {} /\ asof = [p \in Procs |-> 0]
    BY DEF Init, Shown, Contents, LatestRows, Readable
  <2> QED
    BY <2>1 DEF KV!Init, Shown
<1>2. IInv /\ [Next]_vars => [KV!Next]_(KV!vars)
  <2> SUFFICES ASSUME IInv, [Next]_vars PROVE KV!Next \/ UNCHANGED KV!vars
    OBVIOUS
  <2>1. Shape /\ Files /\ Renaming /\ Buffers /\ Shape'
    BY ShapeKeeps DEF IInv
  <2>2. Effect
    BY <2>1, StepEffect
  <2>3. CASE Rows' = Rows
    BY <2>1, <2>3, StillServes
  <2>4. CASE \E p \in Procs : Flushed(p) /\ UNCHANGED <<now, asof, answer>>
    BY <2>1, <2>4, FlushStores
  <2>5. CASE Compacted /\ UNCHANGED <<now, asof, answer>>
    BY <2>1, <2>5, CompactedForgets
  <2> QED
    BY <2>2, <2>3, <2>4, <2>5 DEF Effect, Still, Appended, Ended
<1> QED
  BY <1>1, <1>2, StoreInvariant, PTL DEF Spec, KVSpec, KV!Spec
===================================================================================
