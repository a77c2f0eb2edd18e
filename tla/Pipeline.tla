--------------------------------- MODULE Pipeline ----------------------------------
(*******************************************************************************)
(* From datagrams to query results: the UDP server, one dispatcher pipeline    *)
(* per session (stream_merge, log_parse, clip_store) and the queries of        *)
(* extract_udp_clips.sh, on one database.                                      *)
(*                                                                             *)
(* stream_merge is here what StreamMerge and ClipCutter show of it: rows are   *)
(* processed in order, a pause flushes, and the sentinel ends it after a last  *)
(* drain.  Every clip passes the filter type=clip, so log_parse and its two    *)
(* pipes are one queue.  Dispatcher and ClipStore cover failures and kills;    *)
(* here nothing fails but UDP and the wait of the server.                      *)
(*                                                                             *)
(* While a query runs, only what touches the file can matter to it: the others *)
(* wait until it has ended.                                                    *)
(*******************************************************************************)
EXTENDS UdpIngestor, SmFsm, RowIndex

CONSTANTS
  Queries,       \* what users ask for: all clips of a session, or the one of a key
  MaxQueries     \* bound: number of queries

\* C division truncates.
Seconds(ms) == IF ms >= 0 THEN ms \div 1000 ELSE -((-ms) \div 1000)

\* The text of a line is not looked at; rows tell lines apart by their number.
Line == CHOOSE value \in Values : TRUE

ASSUME PipelineAssumption ==
  /\ Queries \subseteq [id : Sessions, keys : {{}} \cup {{key} : key \in Keys}]
  /\ \A id \in Sessions, d \in Datagrams : <<id, Seconds(d.ts_ms)>> \in Keys
  /\ Values # {}
  \* Rows of before have no number.  A clip that follows a torn row is lost (ClipStore).
  /\ \A i \in DOMAIN OldFile : OldFile[i].n = 0
  /\ OldFile # <<>> => OldFile[Len(OldFile)].whole

VARIABLES
  merger,        \* stream_merge of the current session
  read,          \* the sidecar rows it has processed
  pipe,          \* clips on their way to clip_store, by number
  store,         \* clip_store of the current session
  query,         \* the query process
  asked,         \* what it asks for
  queries,       \* queries so far
  \* What has happened, for the properties:
  stale,         \* the sentinel was there when stream_merge started
  lines,         \* all clips: session, times, region, and the bytes there
  covered,       \* the bytes of this session's file that clips were given
  refused        \* the bytes of the rows that were rejected as late

mergeVars == <<fsm, action, out, merger, read, stale, covered, refused>>

vars ==
  <<serverVars, mergeVars, pipe, store, indexVars, query, asked, queries, lines>>

NoQuery == [id |-> NoSession, keys |-> {}]

Init ==
  /\ ServerInit
  /\ FsmInit
  /\ IndexInit
  /\ merger = "off"
  /\ read = 0
  /\ pipe = <<>>
  /\ store = "off"
  /\ query = "none"
  /\ asked = NoQuery
  /\ queries = 0
  /\ stale = FALSE
  /\ lines = <<>>
  /\ covered = {}
  /\ refused = {}

Quiet == query # "running"

Server ==
  /\ Quiet
  /\ ServerNext
  /\ UNCHANGED <<mergeVars, pipe, store, indexVars, query, asked, queries, lines>>

-----------------------------------------------------------------------------------
(* stream_merge                                                                  *)

Merging == Quiet /\ UNCHANGED <<serverVars, indexVars, store, query, asked, queries>>

Bytes(start, length) == start + 1 .. start + length

\* emit_clip: the line that goes to the pipe, if the call returned a clip.
EmitClip ==
  LET region == Bytes(out'.start_offset, out'.total_length)
      there  == region \cap DOMAIN bin[current]
  IN  IF action' \in Emits
      THEN /\ pipe' = Append(pipe, Len(lines) + 1)
           /\ lines' = Append(lines,
                [id     |-> current,
                 start  |-> out'.start_ts_ms,
                 length |-> out'.total_length,
                 bytes  |-> [i \in {b - out'.start_offset : b \in there} |->
                               bin[current][out'.start_offset + i]]])
           /\ covered' = covered \cup region
      ELSE UNCHANGED <<pipe, lines, covered>>

MergerStarts ==
  /\ proc = "running"
  /\ merger = "off"
  /\ Merging
  /\ merger' = IF sentinel[current] THEN "ending" ELSE "running"
  /\ stale' = sentinel[current]
  /\ fsm' = ResetFsm
  /\ action' = "NONE"
  /\ out' = NoClip
  /\ read' = 0
  /\ covered' = {}
  /\ refused' = {}
  /\ UNCHANGED <<pipe, lines>>

Unread == read < Len(meta[current])

MergeRow ==
  /\ merger \in {"running", "ending"}
  /\ Unread
  /\ Merging
  /\ ProcessRecord(meta[current][read + 1], 0)
  /\ EmitClip
  /\ refused' =
       LET rec == meta[current][read + 1]
       IN  IF action' = "REJECT_LATE" THEN refused \cup Bytes(rec.offset, rec.length)
           ELSE refused
  /\ read' = read + 1
  /\ UNCHANGED <<merger, stale>>

\* The stream has been quiet for idle_ms.
MergerIdles ==
  /\ merger = "running"
  /\ Holding
  /\ Merging
  /\ CheckIdle(IdleMs)
  /\ EmitClip
  /\ UNCHANGED <<merger, read, stale, refused>>

SeeSentinel ==
  /\ merger = "running"
  /\ sentinel[current]
  /\ Merging
  /\ merger' = "ending"
  /\ UNCHANGED <<fsm, action, out, read, stale, covered, refused, pipe, lines>>

\* Fault: nothing is read any more once the sentinel has been seen.
MergerEnds_NoDrain ==
  /\ merger = "ending"
  /\ Merging
  /\ FlushFinal
  /\ EmitClip
  /\ merger' = "done"
  /\ UNCHANGED <<read, stale, refused>>

MergerEnds ==
  /\ merger = "ending"
  /\ ~Unread
  /\ Merging
  /\ FlushFinal
  /\ EmitClip
  /\ merger' = "done"
  /\ UNCHANGED <<read, stale, refused>>

-----------------------------------------------------------------------------------
(* clip_store, appending                                                         *)

\* Fault: the session is left out of the key.
KeyOf_SecondOnly(n) ==
  <<CHOOSE id \in Sessions : TRUE, Seconds(lines[n].start)>>

\* The key of a clip is session_id:ts, ts in seconds.
KeyOf(n) == <<lines[n].id, Seconds(lines[n].start)>>

Storing ==
  UNCHANGED <<mergeVars, lines, wanted, pos, index, grown, next_cap, bucket, goal, idx,
              pc, answer, query, asked, queries>>

\* The lock is held from here to the end of the input.
StoreStarts ==
  /\ proc = "running"
  /\ store = "off"
  /\ query # "running"
  /\ Storing
  /\ store' = "appending"
  /\ UNCHANGED <<serverVars, pipe, file>>

\* The value of a row is the line.
StoreClip ==
  /\ store = "appending"
  /\ pipe # <<>>
  /\ Storing
  /\ file' = Append(file, [key |-> KeyOf(Head(pipe)), val |-> Line,
                           exp |-> 0, n |-> Head(pipe), whole |-> TRUE])
  /\ pipe' = Tail(pipe)
  /\ UNCHANGED <<serverVars, store>>

\* Fault: clip_store goes on waiting for input.
SessionExits_StoreStays ==
  /\ store = "appending" /\ pipe = <<>> /\ merger = "done"
  /\ Quiet
  /\ proc' = "exited" /\ merger' = "off"
  /\ UNCHANGED <<server, next, current, segments, payload, offset, bin, meta, sentinel,
                 received, fsm, action, out, read, stale, covered, refused,
                 indexVars, pipe, store, query, asked, queries, lines>>

\* End of the input: the lock is released and the dispatcher exits.
SessionExits ==
  /\ store = "appending"
  /\ pipe = <<>>
  /\ merger = "done"
  /\ Quiet
  /\ store' = "off"
  /\ merger' = "off"
  /\ proc' = "exited"
  /\ UNCHANGED <<server, next, current, segments, payload, offset, bin, meta, sentinel,
                 received, fsm, action, out, read, stale, covered, refused,
                 indexVars, pipe, query, asked, queries, lines>>

-----------------------------------------------------------------------------------
(* clip_store --prefix session: and clip_store --get session:ts                  *)

Querying == UNCHANGED <<serverVars, mergeVars, pipe, store, lines>>

\* Bound: queries come after the last datagram.  Ignored datagrams may precede it,
\* so a query still meets every state of the rest.
AskFor ==
  /\ query = "none"
  /\ received = MaxReceived
  /\ queries < MaxQueries
  /\ query' = "waiting"
  /\ queries' = queries + 1
  /\ Querying
  /\ UNCHANGED <<indexVars, asked>>

\* Fault: the query does not ask for the lock.
LockGranted_NoLock ==
  /\ query = "waiting"
  /\ query' = "running"
  /\ asked' \in Queries
  /\ StartLoad(asked'.keys)
  /\ Querying
  /\ UNCHANGED queries

\* flock(LOCK_EX) is granted when no other process has the lock.  What the query
\* asks for does not matter before.
LockGranted ==
  /\ query = "waiting"
  /\ store # "appending"
  /\ query' = "running"
  /\ asked' \in Queries
  /\ StartLoad(asked'.keys)
  /\ Querying
  /\ UNCHANGED queries

QueryStep ==
  /\ query = "running"
  /\ IndexStep
  /\ Querying
  /\ UNCHANGED <<query, asked, queries>>

\* Rows that are not live or not of the session are left out.
Printed == {row.n : row \in {r \in answer : RowIsLive(r, 0) /\ r.key[1] = asked.id}}

QueryEnds ==
  /\ query = "running"
  /\ Release
  /\ query' = "none"
  /\ asked' = NoQuery
  /\ Querying
  /\ UNCHANGED queries

Merger == MergerStarts \/ MergeRow \/ MergerIdles \/ SeeSentinel \/ MergerEnds

Store == StoreStarts \/ StoreClip \/ SessionExits

Query == LockGranted \/ QueryStep \/ QueryEnds

Next == Server \/ Merger \/ Store \/ AskFor \/ Query

\* stream_merge, clip_store and a query are processes that run when they can.  Of
\* the server nothing is assumed.  MergerIdles is left out: it depends on the pauses
\* of the stream.
Spec ==
  /\ Init
  /\ [][Next]_vars
  /\ WF_vars(MergerStarts) /\ WF_vars(MergeRow) /\ WF_vars(SeeSentinel)
  /\ WF_vars(MergerEnds)
  /\ WF_vars(StoreStarts) /\ WF_vars(StoreClip) /\ WF_vars(SessionExits)
  /\ WF_vars(LockGranted) /\ WF_vars(QueryStep) /\ WF_vars(QueryEnds)

-----------------------------------------------------------------------------------

\* The bytes are whole segments with consecutive sequence numbers.
WholeSegments(bytes) ==
  \A i \in DOMAIN bytes :
    LET seq == bytes[i][1]  part == bytes[i][2]  count == bytes[i][3]
    IN  /\ IF part = 0 THEN i > 1 => bytes[i - 1][1] = seq - 1
                        ELSE i > 1 /\ bytes[i - 1] = <<seq, part - 1, count>>
        /\ part # count - 1 => i + 1 \in DOMAIN bytes

\* Whatever UDP does to the fragments, a clip is cut from bytes that are in the
\* file when its line is written (udp_stream_data_server.py:76-79 flushes the bytes
\* before the row), and they are whole segments of one session without a gap.
ClipsAreWhole ==
  \A n \in DOMAIN lines :
    /\ DOMAIN lines[n].bytes = 1 .. lines[n].length
    /\ WholeSegments(lines[n].bytes)

\* When the dispatcher of a session has ended, every byte the server wrote for it
\* is in a clip or belongs to a row that came late, and every clip is in the
\* database; unless the sentinel of an earlier session of the same directory was
\* still there (stream_merge.c:248), in which case the rest is never looked at.
SessionComplete ==
  proc = "exited" /\ ~stale =>
    /\ covered \cup refused = DOMAIN bin[current]
    /\ DOMAIN lines = {file[i].n : i \in DOMAIN file} \ {0}

\* A query for the clips of a session prints each stored clip of that session and no
\* other, but for rows of before (number 0); a clip is missing only if a later one of
\* the same session begins in the same second and took its key (clip_store.c:263).
OnlySameSecondReplaced ==
  pc = "answered" /\ wanted = {} =>
    LET stored == {file[i].n : i \in DOMAIN file} \ {0}
        second(n) == Seconds(lines[n].start)
    IN  Printed \ {0} = {n \in stored :
          /\ lines[n].id = asked.id
          /\ \A m \in stored :
               m > n /\ second(m) = second(n) => lines[m].id # asked.id}

\* An append session keeps the lock as long as its input lasts (clip_store.c:251).
\* If from some time on every running session has been told to end, a waiting
\* query gets the lock.
QueriesGetTheLock ==
  <>[](proc = "running" => sentinel[current])
    => (query = "waiting" ~> query # "waiting")
===================================================================================
