--------------------------------- MODULE RowIndex ----------------------------------
(*******************************************************************************)
(* The hash index that every clip_store query rebuilds from the file           *)
(* (src/applets/clip_store/db_query.c): open addressing with linear probing,   *)
(* doubled before it is three quarters full.                                   *)
(*                                                                             *)
(* One call of load_latest_rows, or of load_latest_row, is a run of the        *)
(* machine from "read" to "answered" or "failed"; the turns of its loops are   *)
(* steps.  A query holds the lock of the file, so "file" does not change       *)
(* meanwhile.  A capacity is a power of two, and "hash & (cap - 1)" is         *)
(* hash % cap.  A bucket is used when it is in the domain of "rows".           *)
(*******************************************************************************)
EXTENDS ClipDb

CONSTANTS
  Hash,            \* Hash[k] is hash_key(k)
  InitialBuckets,  \* INITIAL_BUCKETS
  OldFile          \* what the file held before

ASSUME IndexAssumption ==
  /\ Hash \in [Keys -> Nat]
  /\ InitialBuckets \in Nat
  /\ InitialBuckets >= 2
  /\ OldFile \in Seq(Row)

VARIABLES
  file,      \* the rows of the database file
  wanted,    \* {key} in load_latest_row, {} when all rows are asked for
  pos,       \* the line getline() reads next, or has read
  index,     \* row_index_t
  grown,     \* the larger table while rows move into it
  next_cap,  \* its capacity
  bucket,    \* the bucket of index that moves next
  goal,      \* what find_slot was called for: "put", "move" or "get"
  idx,       \* the bucket find_slot looks at
  pc,        \* where the call is
  answer     \* the rows it came back with

indexVars ==
  <<file, wanted, pos, index, grown, next_cap, bucket, goal, idx, pc, answer>>

Allocated(cap) == [cap |-> cap, len |-> 0, rows |-> [b \in {} |-> b]]

EmptyTable == Allocated(0)

Used(t) == DOMAIN t.rows

RowsOf(t) == {t.rows[b] : b \in Used(t)}

WithRow(t, b, row) == [c \in Used(t) \cup {b} |-> IF c = b THEN row ELSE t.rows[c]]

Home(key, cap) == Hash[key] % cap

\* Fault: a full table counts as one that has room.
NeedsGrowth_WhenFull(len, cap) == len > cap

NeedsGrowth(len, cap) == len * 4 >= cap * 3

\* The table find_slot searches, and the key it searches for.
Target == IF goal = "move" THEN grown ELSE index

Sought ==
  CASE goal = "put"  -> file[pos].key
    [] goal = "move" -> index.rows[bucket].key
    [] goal = "get"  -> CHOOSE key \in wanted : TRUE

\* The loop of find_slot ends: the bucket is free, or holds the key.
Stops == idx \in Used(Target) => Target.rows[idx].key = Sought

IndexInit ==
  /\ file = OldFile
  /\ wanted = {}
  /\ pos = 1
  /\ index = EmptyTable
  /\ grown = EmptyTable
  /\ next_cap = 0
  /\ bucket = 0
  /\ goal = "put"
  /\ idx = 0
  /\ pc = "idle"
  /\ answer = {}

-----------------------------------------------------------------------------------
(* load_latest_rows                                                              *)

StartLoad(keys) ==
  /\ pc = "idle"
  /\ wanted' = keys
  /\ pos' = 1
  /\ pc' = "read"
  /\ UNCHANGED <<file, index, grown, next_cap, bucket, goal, idx, answer>>

SkipLine ==
  /\ pc = "read"
  /\ pos <= Len(file)
  /\ pos \notin Readable(file)
  /\ pos' = pos + 1
  /\ UNCHANGED <<file, wanted, index, grown, next_cap, bucket, goal, idx, pc, answer>>

\* A parsed row goes to row_index_put, which first asks for room.
TakeLine ==
  /\ pc = "read"
  /\ pos \in Readable(file)
  /\ next_cap' = IF index.cap = 0 THEN InitialBuckets ELSE index.cap
  /\ pc' = "size"
  /\ UNCHANGED <<file, wanted, pos, index, grown, bucket, goal, idx, answer>>

EndOfFile ==
  /\ pc = "read"
  /\ pos > Len(file)
  /\ pc' = "loaded"
  /\ UNCHANGED <<file, wanted, pos, index, grown, next_cap, bucket, goal, idx, answer>>

\* row_index_free, and the locals of the call are gone.
Freed ==
  /\ wanted' = {}
  /\ pos' = 1
  /\ index' = EmptyTable
  /\ grown' = EmptyTable
  /\ next_cap' = 0
  /\ bucket' = 0
  /\ goal' = "put"
  /\ idx' = 0
  /\ answer' = {}
  /\ UNCHANGED file

\* A read error, a failing calloc or a failing strdup ends the call; the caller
\* frees the index.
LoadFails ==
  /\ \/ pc = "read"
     \/ pc = "size" /\ ~NeedsGrowth(index.len + 1, next_cap) /\ next_cap # index.cap
     \/ pc = "find" /\ goal = "put" /\ Stops
     \/ pc = "find" /\ goal = "get" /\ Stops /\ idx \in Used(index)
  /\ pc' = "failed"
  /\ Freed

-----------------------------------------------------------------------------------
(* row_index_grow                                                                *)

Double ==
  /\ pc = "size"
  /\ NeedsGrowth(index.len + 1, next_cap)
  /\ next_cap' = next_cap * 2
  /\ UNCHANGED <<file, wanted, pos, index, grown, bucket, goal, idx, pc, answer>>

\* find_slot starts at the bucket the key hashes to.
Find(purpose, key, cap) ==
  /\ goal' = purpose
  /\ idx' = Home(key, cap)
  /\ pc' = "find"

HasRoom ==
  /\ pc = "size"
  /\ ~NeedsGrowth(index.len + 1, next_cap)
  /\ next_cap = index.cap
  /\ Find("put", file[pos].key, index.cap)
  /\ UNCHANGED <<file, wanted, pos, index, grown, next_cap, bucket, answer>>

Allocate ==
  /\ pc = "size"
  /\ ~NeedsGrowth(index.len + 1, next_cap)
  /\ next_cap # index.cap
  /\ grown' = Allocated(next_cap)
  /\ bucket' = 0
  /\ pc' = "move"
  /\ UNCHANGED <<file, wanted, pos, index, next_cap, goal, idx, answer>>

SkipBucket ==
  /\ pc = "move"
  /\ bucket < index.cap
  /\ bucket \notin Used(index)
  /\ bucket' = bucket + 1
  /\ UNCHANGED <<file, wanted, pos, index, grown, next_cap, goal, idx, pc, answer>>

MoveBucket ==
  /\ pc = "move"
  /\ bucket \in Used(index)
  /\ Find("move", index.rows[bucket].key, grown.cap)
  /\ UNCHANGED <<file, wanted, pos, index, grown, next_cap, bucket, answer>>

\* The new table takes the place of the old one, and the put goes on in it.
Replace ==
  /\ pc = "move"
  /\ bucket = index.cap
  /\ index' = grown
  /\ grown' = EmptyTable
  /\ Find("put", file[pos].key, grown.cap)
  /\ UNCHANGED <<file, wanted, pos, next_cap, bucket, answer>>

-----------------------------------------------------------------------------------
(* find_slot and what its callers do with the bucket                             *)

NextBucket ==
  /\ pc = "find"
  /\ ~Stops
  /\ idx' = (idx + 1) % Target.cap
  /\ UNCHANGED <<file, wanted, pos, index, grown, next_cap, bucket, goal, pc, answer>>

PlaceMoved ==
  /\ pc = "find"
  /\ goal = "move"
  /\ Stops
  /\ grown' = [grown EXCEPT !.rows = WithRow(grown, idx, index.rows[bucket]),
                            !.len = @ + 1]
  /\ bucket' = bucket + 1
  /\ pc' = "move"
  /\ UNCHANGED <<file, wanted, pos, index, next_cap, goal, idx, answer>>

Insert ==
  /\ pc = "find"
  /\ goal = "put"
  /\ idx \notin Used(index)
  /\ index' = [index EXCEPT !.rows = WithRow(index, idx, file[pos]), !.len = @ + 1]
  /\ pos' = pos + 1
  /\ pc' = "read"
  /\ UNCHANGED <<file, wanted, grown, next_cap, bucket, goal, idx, answer>>

\* Fault: the first row of a key stays.
Overwrite_KeepFirst ==
  /\ pc = "find" /\ goal = "put" /\ idx \in Used(index) /\ Stops
  /\ pos' = pos + 1 /\ pc' = "read"
  /\ UNCHANGED <<file, wanted, index, grown, next_cap, bucket, goal, idx, answer>>

\* Later rows win.
Overwrite ==
  /\ pc = "find"
  /\ goal = "put"
  /\ idx \in Used(index)
  /\ Stops
  /\ index' = [index EXCEPT !.rows = WithRow(index, idx, file[pos])]
  /\ pos' = pos + 1
  /\ pc' = "read"
  /\ UNCHANGED <<file, wanted, grown, next_cap, bucket, goal, idx, answer>>

Put == Insert \/ Overwrite

-----------------------------------------------------------------------------------
(* The end of a query                                                            *)

\* print_rows visits the buckets in order.
Scan ==
  /\ pc = "loaded"
  /\ wanted = {}
  /\ answer' = RowsOf(index)
  /\ pc' = "answered"
  /\ UNCHANGED <<file, wanted, pos, index, grown, next_cap, bucket, goal, idx>>

\* row_index_get finds nothing in a table without buckets.
GetFromNothing ==
  /\ pc = "loaded"
  /\ wanted # {}
  /\ index.cap = 0
  /\ answer' = {}
  /\ pc' = "answered"
  /\ UNCHANGED <<file, wanted, pos, index, grown, next_cap, bucket, goal, idx>>

Get ==
  /\ pc = "loaded"
  /\ wanted # {}
  /\ index.cap # 0
  /\ Find("get", CHOOSE key \in wanted : TRUE, index.cap)
  /\ UNCHANGED <<file, wanted, pos, index, grown, next_cap, bucket, answer>>

Got ==
  /\ pc = "find"
  /\ goal = "get"
  /\ Stops
  /\ answer' = IF idx \in Used(index) THEN {index.rows[idx]} ELSE {}
  /\ pc' = "answered"
  /\ UNCHANGED <<file, wanted, pos, index, grown, next_cap, bucket, goal, idx>>

Release ==
  /\ pc \in {"answered", "failed"}
  /\ pc' = "idle"
  /\ Freed

IndexStep ==
  \/ SkipLine \/ TakeLine \/ EndOfFile \/ LoadFails
  \/ Double \/ HasRoom \/ Allocate \/ SkipBucket \/ MoveBucket \/ Replace
  \/ NextBucket \/ PlaceMoved \/ Put
  \/ Scan \/ GetFromNothing \/ Get \/ Got

\* Between two queries others write to the file.
FileChanges ==
  /\ pc = "idle"
  /\ file' \in Seq(Row)
  /\ UNCHANGED <<wanted, pos, index, grown, next_cap, bucket, goal, idx, pc, answer>>

IndexNext ==
  \/ IndexStep
  \/ StartLoad({}) \/ \E key \in Keys : StartLoad({key})
  \/ Release
  \/ FileChanges

IndexSpec == IndexInit /\ [][IndexNext]_indexVars

-----------------------------------------------------------------------------------

IsTable(t) ==
  /\ t \in [cap : Nat, len : Nat, rows : {t.rows}]
  /\ t.rows \in [Used(t) -> Row]
  /\ Used(t) \subseteq 0 .. t.cap - 1

IndexTypeOK ==
  /\ file \in Seq(Row)
  /\ wanted \subseteq Keys
  /\ pos \in Nat \ {0}
  /\ IsTable(index)
  /\ IsTable(grown)
  /\ next_cap \in Nat
  /\ bucket \in Nat
  /\ goal \in {"put", "move", "get"}
  /\ idx \in Nat
  /\ pc \in {"idle", "read", "size", "move", "find", "loaded", "answered", "failed"}
  /\ answer \subseteq Row

\* Every probe ends: the table find_slot searches has a bucket without a row,
\* because row_index_grow keeps it less than three quarters full, moved rows and
\* the row to come included (db_query.c: while (index->used[idx])).
ProbesEnd ==
  pc = "find" =>
    /\ idx \in 0 .. Target.cap - 1
    /\ \E b \in 0 .. Target.cap - 1 : b \notin Used(Target)

\* The last row of each key among the lines before p.
LatestBefore(rows, p) ==
  {rows[i] : i \in {j \in Readable(rows) :
      /\ j < p
      /\ \A k \in Readable(rows) : j < k /\ k < p => rows[k].key # rows[j].key}}

\* No row is lost, doubled or brought back by probing, overwriting and growing:
\* after every line the index holds the last row of each key read so far.
IndexIsLatest ==
  pc \in {"read", "size", "move", "find", "loaded"} =>
    RowsOf(index) = LatestBefore(file, pos)

\* What a query finds is what the file says, whatever hash values collide: the
\* probe of row_index_get reaches every row that put and grow have placed.
AnswerIsLatest ==
  pc = "answered" =>
    answer = {row \in LatestRows(file) : wanted = {} \/ row.key \in wanted}
===================================================================================
