---------------------------------- MODULE ClipDb ----------------------------------
(*******************************************************************************)
(* The contents of a clip_store database file and what a reader makes of them  *)
(* (src/applets/clip_store/db_format.c, db_query.c, db_compact.c).             *)
(*                                                                             *)
(* A file is a sequence of items, one per append_db_row.  An item that is not  *)
(* whole is what is left of a row whose writer died between two writes: a key, *)
(* a tab and part of a value, with no newline.  Compression and base64 are the *)
(* identity on values for a reader of a whole row, and every damaged row fails *)
(* to decode.  "n" numbers the append_db_row calls and is not in the file.     *)
(*******************************************************************************)
EXTENDS Integers, Sequences, FiniteSets

CONSTANTS
  Keys,     \* record keys, "session_id:ts" or what --set is given
  Values    \* non-empty record values

Erased == ""   \* the value of a tombstone

ASSUME ValuesAssumption == Erased \notin Values

Row == [key : Keys, val : Values \cup {Erased}, exp : Nat, n : Nat, whole : BOOLEAN]

\* clip_row_is_expired, clip_row_is_tombstone, row_is_live
IsExpired(row, now) == row.exp # 0 /\ row.exp <= now

IsTombstone(row) == row.val = Erased

RowIsLive(row, now) == ~IsTombstone(row) /\ ~IsExpired(row, now)

\* Fault: what is left of a torn row passes for a row.
Readable_Torn(file) == DOMAIN file

\* parse_db_row succeeds on the line that item i begins or continues: an item
\* after a torn one shares its line, and the rest of that line is no number.
Readable(file) ==
  {i \in DOMAIN file : file[i].whole /\ (i > 1 => file[i - 1].whole)}

\* load_latest_rows: later rows win.
LatestRows(file) ==
  {file[i] : i \in {j \in Readable(file) :
                      \A k \in Readable(file) : k > j => file[k].key # file[j].key}}

LiveRows(file, now) == {row \in LatestRows(file) : RowIsLive(row, now)}

\* The orders in which a scan of the hash index can meet the rows of a set.
Scans(rows) ==
  {s \in [1..Cardinality(rows) -> rows] :
     /\ \A i, j \in DOMAIN s : s[i] = s[j] => i = j
     /\ \A row \in rows : \E i \in DOMAIN s : s[i] = row}
===================================================================================
