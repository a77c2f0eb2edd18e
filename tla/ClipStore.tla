--------------------------------- MODULE ClipStore ---------------------------------
(*******************************************************************************)
(* Concurrent clip_store invocations on one database path                      *)
(* (src/applets/clip_store/clip_store.c, db_format.c, db_compact.c).           *)
(*                                                                             *)
(* Each process opens the path, takes flock() on the inode it opened, runs one *)
(* command and exits, which flushes its stdio buffer and drops the lock.       *)
(* append_db_row leaves its row in the buffer; the fseek of the next one       *)
(* writes it out.  --compact writes <db>.tmp and renames it over the path.     *)
(*                                                                             *)
(* A process may be killed at any point.  Loss of power is not modelled.       *)
(*******************************************************************************)
EXTENDS ClipDb

CONSTANTS
  Procs, Inodes,
  None,         \* no inode, no process
  LongValues,   \* values whose row is longer than the stdio buffer
  Ttls,         \* --ttl values in use
  Offline,      \* TRUE: --compact runs only while no other invocation does
  DiskFull,     \* TRUE: the write of the last row may fail
  MaxCalls,     \* bound: invocations
  MaxRows,      \* bound: append_db_row calls of writers
  MaxNow        \* bound: seconds

ASSUME StoreAssumption ==
  /\ None \notin Procs \cup Inodes
  /\ LongValues \subseteq Values
  /\ Ttls \subseteq Nat
  /\ Offline \in BOOLEAN /\ DiskFull \in BOOLEAN

VARIABLES
  disk,     \* contents of each inode, as another process would read them
  db, tmp,  \* the inodes that <db> and <db>.tmp name
  holder,   \* the flock holder of each inode
  now,      \* time(2)
  pc, call, \* where each process is, and its command
  fd, tfd,  \* the inodes it has open as <db> and <db>.tmp
  asof,     \* its "now", read once it has the lock
  buf,      \* the row in its stdio buffer, if any
  loaded,   \* the rows its compaction will write
  rc,       \* its exit status so far
  answer,   \* what the last query printed
  calls, written,   \* how many invocations and rows there have been
  mine,     \* history: the rows each process has appended
  acked,    \* history: rows whose process has exited with status 0
  newest,   \* history: the last row appended for each key
  losses    \* history: torn rows and failed last writes

fileVars == <<disk, db, tmp>>
procVars == <<pc, call, fd, tfd, asof, buf, loaded, rc>>
history  == <<mine, acked, newest, losses>>
vars == <<fileVars, holder, now, procVars, answer, calls, written, history>>

Commands ==
  [op : {"set", "append"}, keys : {{}}, ttl : Ttls]
    \cup [op : {"delete", "compact"}, keys : {{}}, ttl : {0}]
    \cup [op : {"read"}, keys : SUBSET Keys \ {{}}, ttl : {0}]

NoCommand == [op |-> "none", keys |-> {}, ttl |-> 0]

Init ==
  /\ disk = [i \in Inodes |-> <<>>]
  /\ db = None /\ tmp = None
  /\ holder = [i \in Inodes |-> None]
  /\ now = 0
  /\ pc = [p \in Procs |-> "idle"]
  /\ call = [p \in Procs |-> NoCommand]
  /\ fd = [p \in Procs |-> None] /\ tfd = [p \in Procs |-> None]
  /\ asof = [p \in Procs |-> 0]
  /\ buf = [p \in Procs |-> <<>>]
  /\ loaded = [p \in Procs |-> {}]
  /\ rc = [p \in Procs |-> 0]
  /\ answer = {} /\ calls = 0 /\ written = 0
  /\ mine = [p \in Procs |-> {}] /\ acked = {} /\ newest = [k \in Keys |-> 0]
  /\ losses = 0

Goto(p, l) == pc' = [pc EXCEPT ![p] = l]

InUse == {db, tmp} \cup {fd[p] : p \in Procs} \cup {tfd[p] : p \in Procs}

\* The inodes a new file can get.
Free == Inodes \ InUse

-----------------------------------------------------------------------------------

Alone(p, c) ==
  \A q \in Procs \ {p} :
    pc[q] # "idle" => c.op # "compact" /\ call[q].op # "compact"

\* An invocation starts; its arguments have been parsed.
Invoke(p) ==
  /\ pc[p] = "idle" /\ calls < MaxCalls
  /\ \E c \in Commands :
       /\ Offline => Alone(p, c)
       /\ call' = [call EXCEPT ![p] = c]
  /\ Goto(p, "open")
  /\ rc' = [rc EXCEPT ![p] = 0]
  /\ mine' = [mine EXCEPT ![p] = {}]
  /\ calls' = calls + 1
  /\ answer' = {}
  /\ UNCHANGED <<fileVars, holder, now, fd, tfd, asof, buf, loaded, written, acked, newest, losses>>

\* open(db, O_RDWR | O_CREAT)
Open(p) ==
  /\ pc[p] = "open"
  /\ \/ /\ db # None
        /\ fd' = [fd EXCEPT ![p] = db]
        /\ UNCHANGED <<disk, db>>
     \/ /\ db = None
        /\ db' \in Free
        /\ fd' = [fd EXCEPT ![p] = db']
        /\ disk' = [disk EXCEPT ![db'] = <<>>]
  /\ Goto(p, "lock")
  /\ UNCHANGED <<tmp, holder, now, call, tfd, asof, buf, loaded, rc, answer, calls, written, history>>

\* flock(fd, LOCK_EX) and now = time(NULL).
Lock(p) ==
  /\ pc[p] = "lock" /\ holder[fd[p]] = None
  /\ holder' = [holder EXCEPT ![fd[p]] = p]
  /\ asof' = [asof EXCEPT ![p] = now]
  /\ Goto(p, "run")
  /\ UNCHANGED <<fileVars, now, call, fd, tfd, buf, loaded, rc, answer, calls, written, history>>

\* Fault: a full buffer is not written out before the next row.
AppendRow_NoSeek(p, k, v, expires) ==
  LET row == [key |-> k, val |-> v, exp |-> expires, n |-> written + 1, whole |-> TRUE]
  IN  /\ written < MaxRows
      /\ buf' = [buf EXCEPT ![p] = Append(@, row)]
      /\ written' = written + 1
      /\ mine' = [mine EXCEPT ![p] = @ \cup {row}]
      /\ newest' = [newest EXCEPT ![k] = written + 1]
      /\ UNCHANGED disk

\* append_db_row: the row waits in the buffer, what was there is written out.
AppendRow(p, k, v, expires) ==
  LET row == [key |-> k, val |-> v, exp |-> expires, n |-> written + 1, whole |-> TRUE]
  IN  /\ written < MaxRows
      /\ disk' = [disk EXCEPT ![fd[p]] = @ \o buf[p]]
      /\ buf' = [buf EXCEPT ![p] = <<row>>]
      /\ written' = written + 1
      /\ mine' = [mine EXCEPT ![p] = @ \cup {row}]
      /\ newest' = [newest EXCEPT ![k] = written + 1]

ExpireAt(p, t) == IF call[p].ttl = 0 THEN 0 ELSE t + call[p].ttl

Set(p) ==
  /\ pc[p] = "run" /\ call[p].op = "set"
  /\ \E k \in Keys, v \in Values : AppendRow(p, k, v, ExpireAt(p, asof[p]))
  /\ Goto(p, "close")
  /\ UNCHANGED <<db, tmp, holder, now, call, fd, tfd, asof, loaded, rc, answer, calls, acked, losses>>

Delete(p) ==
  /\ pc[p] = "run" /\ call[p].op = "delete"
  /\ \E k \in Keys : AppendRow(p, k, Erased, 0)
  /\ Goto(p, "close")
  /\ UNCHANGED <<db, tmp, holder, now, call, fd, tfd, asof, loaded, rc, answer, calls, acked, losses>>

\* One line of the standard input; its row's time is read per line.
AppendLine(p) ==
  /\ pc[p] = "run" /\ call[p].op = "append"
  /\ \E k \in Keys, v \in Values : AppendRow(p, k, v, ExpireAt(p, now))
  /\ UNCHANGED <<db, tmp, holder, now, pc, call, fd, tfd, asof, loaded, rc, answer, calls, acked, losses>>

EndOfInput(p) ==
  /\ pc[p] = "run" /\ call[p].op = "append"
  /\ Goto(p, "close")
  /\ UNCHANGED <<fileVars, holder, now, call, fd, tfd, asof, buf, loaded, rc, answer, calls, written, history>>

\* --get, --list, --prefix
Query(p) ==
  /\ pc[p] = "run" /\ call[p].op = "read"
  /\ answer' = {row \in LiveRows(disk[fd[p]], asof[p]) : row.key \in call[p].keys}
  /\ Goto(p, "close")
  /\ UNCHANGED <<fileVars, holder, now, call, fd, tfd, asof, buf, loaded, rc, calls, written, history>>

\* Rejected arguments, a failed read of the file, no memory: nothing is added.
Fail(p) ==
  /\ pc[p] = "run"
  /\ rc' = [rc EXCEPT ![p] = 1]
  /\ Goto(p, "close")
  /\ UNCHANGED <<fileVars, holder, now, call, fd, tfd, asof, buf, loaded, answer, calls, written, history>>

-----------------------------------------------------------------------------------
(* db_rewrite_compact                                                            *)

\* Fault: every live row is kept, the latest of its key or not.
CompactLoad_OldRows(p) ==
  /\ pc[p] = "run" /\ call[p].op = "compact"
  /\ loaded' = [loaded EXCEPT ![p] =
                  {r \in {disk[fd[p]][i] : i \in Readable(disk[fd[p]])} : RowIsLive(r, asof[p])}]
  /\ Goto(p, "tmp")
  /\ UNCHANGED <<fileVars, holder, now, call, fd, tfd, asof, buf, rc, answer, calls, written, history>>

CompactLoad(p) ==
  /\ pc[p] = "run" /\ call[p].op = "compact"
  /\ loaded' = [loaded EXCEPT ![p] = LiveRows(disk[fd[p]], asof[p])]
  /\ Goto(p, "tmp")
  /\ UNCHANGED <<fileVars, holder, now, call, fd, tfd, asof, buf, rc, answer, calls, written, history>>

\* Fault: the temporary file is opened without O_TRUNC.
CompactOpen_NoTrunc(p) ==
  /\ pc[p] = "tmp"
  /\ tmp' \in IF tmp = None THEN Free ELSE {tmp}
  /\ tfd' = [tfd EXCEPT ![p] = tmp']
  /\ disk' = IF tmp = None THEN [disk EXCEPT ![tmp'] = <<>>] ELSE disk
  /\ Goto(p, "write")
  /\ UNCHANGED <<db, holder, now, call, fd, asof, buf, loaded, rc, answer, calls, written, history>>

\* open(tmp_path, O_WRONLY | O_CREAT | O_TRUNC)
CompactOpen(p) ==
  /\ pc[p] = "tmp"
  /\ tmp' \in IF tmp = None THEN Free ELSE {tmp}
  /\ tfd' = [tfd EXCEPT ![p] = tmp']
  /\ disk' = [disk EXCEPT ![tmp'] = <<>>]
  /\ Goto(p, "write")
  /\ UNCHANGED <<db, holder, now, call, fd, asof, buf, loaded, rc, answer, calls, written, history>>

\* Fault: the rename comes before the buffer is flushed; nothing is written.
CompactWrite_NoFlush(p) ==
  /\ pc[p] = "write"
  /\ Goto(p, "rename")
  /\ UNCHANGED <<fileVars, holder, now, call, fd, tfd, asof, buf, loaded, rc, answer, calls, written, history>>

\* The live rows in bucket order, fflush, fsync, fclose.
CompactWrite(p) ==
  /\ pc[p] = "write"
  /\ \E s \in Scans(loaded[p]) : disk' = [disk EXCEPT ![tfd[p]] = @ \o s]
  /\ Goto(p, "rename")
  /\ UNCHANGED <<db, tmp, holder, now, call, fd, tfd, asof, buf, loaded, rc, answer, calls, written, history>>

\* rename(tmp_path, db_path); the lock stays on the inode that lost its name.
CompactRename(p) ==
  /\ pc[p] = "rename" /\ tmp # None
  /\ db' = tmp
  /\ tmp' = None
  /\ Goto(p, "close")
  /\ UNCHANGED <<disk, holder, now, call, fd, tfd, asof, buf, loaded, rc, answer, calls, written, history>>

\* Any step of it may fail: the temporary file is unlinked.  Without <db>.tmp
\* the rename cannot but fail.
CompactFail(p) ==
  /\ pc[p] \in {"tmp", "write", "rename"}
  /\ tmp' = IF pc[p] = "tmp" THEN tmp ELSE None
  /\ rc' = [rc EXCEPT ![p] = 1]
  /\ Goto(p, "close")
  /\ UNCHANGED <<disk, db, holder, now, call, fd, tfd, asof, buf, loaded, answer, calls, written, history>>

-----------------------------------------------------------------------------------

\* The process is gone: the kernel closes its files and drops its lock.
Gone(p) ==
  /\ holder' = [i \in Inodes |-> IF holder[i] = p THEN None ELSE holder[i]]
  /\ Goto(p, "idle")
  /\ call' = [call EXCEPT ![p] = NoCommand]
  /\ fd' = [fd EXCEPT ![p] = None]
  /\ tfd' = [tfd EXCEPT ![p] = None]
  /\ buf' = [buf EXCEPT ![p] = <<>>]
  /\ loaded' = [loaded EXCEPT ![p] = {}]
  /\ rc' = [rc EXCEPT ![p] = 0]

\* fclose(fp), whose result is not looked at, and return rc.
Close(p) ==
  /\ pc[p] = "close"
  /\ \/ disk' = [disk EXCEPT ![fd[p]] = @ \o buf[p]] /\ UNCHANGED losses
     \/ DiskFull /\ buf[p] # <<>> /\ UNCHANGED disk /\ losses' = losses + 1
  /\ Gone(p)
  /\ acked' = IF rc[p] = 0 THEN acked \cup mine[p] ELSE acked
  /\ mine' = [mine EXCEPT ![p] = {}]
  /\ UNCHANGED <<db, tmp, now, answer, calls, written, newest, asof>>

\* Killed.  The buffer is lost; of a long row the first part was written.
Kill(p) ==
  /\ pc[p] # "idle"
  /\ \/ UNCHANGED <<disk, losses>>
     \/ /\ buf[p] # <<>> /\ buf[p][1].val \in LongValues
        /\ losses' = losses + 1
        /\ disk' = [disk EXCEPT ![fd[p]] = @ \o <<[buf[p][1] EXCEPT !.whole = FALSE]>>]
  /\ Gone(p)
  /\ mine' = [mine EXCEPT ![p] = {}]
  /\ UNCHANGED <<db, tmp, now, answer, calls, written, acked, newest, asof>>

Tick ==
  /\ now < MaxNow
  /\ now' = now + 1
  /\ UNCHANGED <<fileVars, holder, procVars, answer, calls, written, history>>

Compact(p) ==
  \/ CompactLoad(p) \/ CompactOpen(p) \/ CompactWrite(p) \/ CompactRename(p) \/ CompactFail(p)

Next ==
  \/ \E p \in Procs :
       \/ Invoke(p) \/ Open(p) \/ Lock(p)
       \/ Set(p) \/ Delete(p) \/ AppendLine(p) \/ EndOfInput(p) \/ Query(p) \/ Fail(p)
       \/ Compact(p)
       \/ Close(p) \/ Kill(p)
  \/ Tick

Spec == Init /\ [][Next]_vars

-----------------------------------------------------------------------------------
(* Properties                                                                    *)

TypeOK ==
  /\ disk \in [Inodes -> Seq(Row)]
  /\ db \in Inodes \cup {None} /\ tmp \in Inodes \cup {None}
  /\ holder \in [Inodes -> Procs \cup {None}]
  /\ now \in Nat /\ calls \in Nat /\ written \in Nat
  /\ pc \in [Procs -> {"idle", "open", "lock", "run", "tmp", "write", "rename", "close"}]
  /\ call \in [Procs -> Commands \cup {NoCommand}]
  /\ fd \in [Procs -> Inodes \cup {None}] /\ tfd \in [Procs -> Inodes \cup {None}]
  /\ asof \in [Procs -> Nat]
  /\ buf \in [Procs -> Seq(Row)] /\ \A p \in Procs : Len(buf[p]) <= 1
  /\ loaded \in [Procs -> SUBSET Row]
  /\ rc \in [Procs -> {0, 1}]
  /\ answer \subseteq Row
  /\ mine \in [Procs -> SUBSET Row] /\ acked \subseteq Row /\ newest \in [Keys -> Nat]
  /\ losses \in Nat

Contents == IF db = None THEN <<>> ELSE disk[db]

\* The rows reported as stored that readers should find and do not.
Lost ==
  {row \in acked : /\ newest[row.key] = row.n
                   /\ RowIsLive(row, now)
                   /\ row \notin LatestRows(Contents)}

\* A row that a finished call reported as stored (exit status 0) is what readers
\* find for its key, until another row for the key is appended or it expires
\* (clip_store.c: 230-239, 270-288).
AckedStays == Lost = {}

\* No reader finds a row older than one that was reported as stored: a deleted,
\* expired or overwritten value does not come back, whether the file was
\* compacted or a writer or compactor died (db_query.c: 194-219).  A torn row
\* hides the next one, so nothing is said after a loss.
NoResurrection ==
  losses = 0 => \A row \in LiveRows(Contents, now), stored \in acked :
    row.key = stored.key => row.n >= stored.n

\* A torn row spoils at most one row that was reported as stored, the one
\* appended right after it, and a failed last write only its own: the rest of
\* the file stays readable (db_format.c: 29-54).
BoundedLoss == Cardinality(Lost) <= losses

\* What a query prints was never cut short by the death of its writer
\* (db_format.c: 36-54, 78-95).
NoTornAnswer == \A row \in answer : row.whole

KV == INSTANCE ClipKV WITH
        Calls <- Procs,
        rows  <- {row \in LatestRows(Contents) : ~IsTombstone(row)}

\* The files, locks and buffers implement a map served one call at a time.
KVSpec == KV!Spec
===================================================================================
