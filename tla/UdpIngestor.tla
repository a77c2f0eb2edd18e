-------------------------------- MODULE UdpIngestor --------------------------------
(*******************************************************************************)
(* The UDP server that writes the files of a session and runs the dispatcher   *)
(* for it (src/scripts/example/full-run/udp_stream_data_server.py).            *)
(*                                                                             *)
(* Any datagram of a fixed set may arrive at any time and any number of times: *)
(* what UDP loses, repeats and reorders, of one client or of several, is such  *)
(* a sequence.  A payload byte is named by the segment, the fragment and the   *)
(* number of fragments it was sent with.  write_payload and end_session are    *)
(* made of steps, because stream_merge watches the files they write.           *)
(*******************************************************************************)
EXTENDS Integers, Sequences, FiniteSets

CONSTANTS
  Sessions,      \* session ids
  Datagrams,     \* what clients send
  MaxReceived,   \* bound: number of datagrams received
  NoSession      \* current = None

\* STRT names a session.  A client numbers its segments from 0.
ASSUME DatagramsAssumption ==
  /\ NoSession \notin Sessions
  /\ \A d \in Datagrams :
       /\ d.cmd = "STRT" => d.id \in Sessions
       /\ d.seq \in Nat
       /\ {d.ts_ms, d.index, d.count} \subseteq Int

VARIABLES
  server,        \* where the server is
  next,          \* the session that STRT opens once the current one has ended
  current,       \* the id of the session in progress
  segments,      \* its fragments: (seq, ts) |-> count and the indexes received
  payload,       \* what write_payload was called with
  offset,        \* state["offset"]
  bin,           \* <id>.bin of each session directory
  meta,          \* <id>.meta.jsonl: the rows flushed to it
  sentinel,      \* .pipeline_end exists
  proc,          \* the dispatcher of the current session
  received       \* datagrams so far

serverVars ==
  <<server, next, current, segments, payload, offset, bin, meta, sentinel, proc,
    received>>

NoPayload == [seq |-> 0, ts_ms |-> 0, bytes |-> <<>>]

\* The bytes of a whole segment of that many fragments.
SegmentBytes(seq, count) == [i \in 1 .. count |-> <<seq, i - 1, count>>]

ServerInit ==
  /\ server = "recv"
  /\ next = NoSession
  /\ current = NoSession
  /\ segments = <<>>
  /\ payload = NoPayload
  /\ offset = 0
  /\ bin = [id \in Sessions |-> <<>>]
  /\ meta = [id \in Sessions |-> <<>>]
  /\ sentinel = [id \in Sessions |-> FALSE]
  /\ proc = "none"
  /\ received = 0

\* recvfrom returns datagram d.
Receives(d) ==
  /\ server = "recv"
  /\ received < MaxReceived
  /\ received' = received + 1

\* A packet the server logs and ignores: nothing to end, no session, or fragment
\* numbers that make no sense.
Ignore(d) ==
  /\ Receives(d)
  /\ current = NoSession
  /\ d.cmd \in {"END", "DATASEQ", "SEGMENT"}
  /\ UNCHANGED <<server, next, current, segments, payload, offset, bin, meta,
                 sentinel, proc>>

Misnumbered(d) == d.count <= 0 \/ d.index < 0 \/ d.index >= d.count

IgnoreFragment(d) ==
  /\ Receives(d)
  /\ current # NoSession
  /\ d.cmd = "SEGMENT"
  /\ Misnumbered(d)
  /\ UNCHANGED <<server, next, current, segments, payload, offset, bin, meta,
                 sentinel, proc>>

-----------------------------------------------------------------------------------
(* Sessions                                                                      *)

\* STRT and SHUTDOWN end the session in progress first.
EndFirst(d) ==
  /\ Receives(d)
  /\ current # NoSession
  /\ d.cmd \in {"STRT", "END", "SHUTDOWN"}
  /\ server' = IF d.cmd = "SHUTDOWN" THEN "ending for good" ELSE "ending"
  /\ next' = IF d.cmd = "STRT" THEN d.id ELSE NoSession
  /\ UNCHANGED <<current, segments, payload, offset, bin, meta, sentinel, proc>>

Shutdown(d) ==
  /\ Receives(d)
  /\ current = NoSession
  /\ d.cmd = "SHUTDOWN"
  /\ server' = "down"
  /\ UNCHANGED <<next, current, segments, payload, offset, bin, meta, sentinel, proc>>

\* start_session: both files are truncated and the dispatcher is started; a
\* sentinel of an earlier session in the same directory stays.
Starts(id) ==
  /\ current' = id
  /\ segments' = <<>>
  /\ offset' = 0
  /\ bin' = [bin EXCEPT ![id] = <<>>]
  /\ meta' = [meta EXCEPT ![id] = <<>>]
  /\ proc' = "running"

StartSession(d) ==
  /\ Receives(d)
  /\ current = NoSession
  /\ d.cmd = "STRT"
  /\ Starts(d.id)
  /\ UNCHANGED <<server, next, payload, sentinel>>

StartNext ==
  /\ server = "starting"
  /\ Starts(next)
  /\ server' = "recv"
  /\ next' = NoSession
  /\ UNCHANGED <<payload, sentinel, received>>

\* end_session: the sentinel, then the wait for the dispatcher.
TouchSentinel ==
  /\ server \in {"ending", "ending for good"}
  /\ sentinel' = [sentinel EXCEPT ![current] = TRUE]
  /\ server' = IF server = "ending" THEN "waiting" ELSE "waiting for good"
  /\ UNCHANGED <<next, current, segments, payload, offset, bin, meta, proc, received>>

SessionEnded ==
  /\ server \in {"waiting", "waiting for good"}
  /\ proc = "exited"
  /\ current' = NoSession
  /\ server' = IF server = "waiting for good" THEN "down"
               ELSE IF next = NoSession THEN "recv" ELSE "starting"
  /\ proc' = "none"
  /\ UNCHANGED <<next, segments, payload, offset, bin, meta, sentinel, received>>

\* wait(timeout=10) raises and nothing catches it.
WaitTimesOut ==
  /\ server \in {"waiting", "waiting for good"}
  /\ proc = "running"
  /\ server' = "down"
  /\ UNCHANGED <<next, current, segments, payload, offset, bin, meta, sentinel, proc,
                 received>>

-----------------------------------------------------------------------------------
(* Data                                                                          *)

\* DATASEQ: one packet is one payload.
WriteChunk(d) ==
  /\ Receives(d)
  /\ current # NoSession
  /\ d.cmd = "DATASEQ"
  /\ payload' = [seq |-> d.seq, ts_ms |-> d.ts_ms, bytes |-> SegmentBytes(d.seq, 1)]
  /\ server' = "bin"
  /\ UNCHANGED <<next, current, segments, offset, bin, meta, sentinel, proc>>

Key(d) == <<d.seq, d.ts_ms>>

Entry(d) ==
  IF Key(d) \in DOMAIN segments THEN segments[Key(d)]
  ELSE [count |-> d.count, parts |-> {}]

Without(key) == [k \in DOMAIN segments \ {key} |-> segments[k]]

Fragment(d) ==
  /\ Receives(d)
  /\ current # NoSession
  /\ d.cmd = "SEGMENT"
  /\ ~Misnumbered(d)

\* Another client cuts the segment differently: all of it is forgotten.
CountChanged(d) ==
  /\ Fragment(d)
  /\ Entry(d).count # d.count
  /\ segments' = Without(Key(d))
  /\ UNCHANGED <<server, next, current, payload, offset, bin, meta, sentinel, proc>>

Collect(d) ==
  /\ Fragment(d)
  /\ Entry(d).count = d.count
  /\ Cardinality(Entry(d).parts \cup {d.index}) # d.count
  /\ segments' =
       [k \in DOMAIN segments \cup {Key(d)} |->
          IF k = Key(d) THEN [Entry(d) EXCEPT !.parts = @ \cup {d.index}]
          ELSE segments[k]]
  /\ UNCHANGED <<server, next, current, payload, offset, bin, meta, sentinel, proc>>

\* Fault: a changed fragment count goes unnoticed.
Complete_AnyCount(d) ==
  /\ Fragment(d)
  /\ Cardinality(Entry(d).parts \cup {d.index}) = d.count
  /\ segments' = Without(Key(d))
  /\ payload' = [seq |-> d.seq, ts_ms |-> d.ts_ms,
                 bytes |-> [i \in 1 .. d.count |-> <<d.seq, i - 1, Entry(d).count>>]]
  /\ server' = "bin"
  /\ UNCHANGED <<next, current, offset, bin, meta, sentinel, proc>>

Complete(d) ==
  /\ Fragment(d)
  /\ Entry(d).count = d.count
  /\ Cardinality(Entry(d).parts \cup {d.index}) = d.count
  /\ segments' = Without(Key(d))
  /\ payload' = [seq |-> d.seq, ts_ms |-> d.ts_ms,
                 bytes |-> SegmentBytes(d.seq, d.count)]
  /\ server' = "bin"
  /\ UNCHANGED <<next, current, offset, bin, meta, sentinel, proc>>

\* write_payload: the bytes first, then the row that names them.
WriteBin ==
  /\ server = "bin"
  /\ bin' = [bin EXCEPT ![current] = @ \o payload.bytes]
  /\ server' = "meta"
  /\ UNCHANGED <<next, current, segments, payload, offset, meta, sentinel, proc, received>>

SidecarRow ==
  [seq |-> payload.seq, offset |-> offset, length |-> Len(payload.bytes),
   ts_ms |-> payload.ts_ms, continuous |-> FALSE, byte_rate |-> 0,
   frame_align |-> 0, events |-> {}]

WriteMeta ==
  /\ server = "meta"
  /\ meta' = [meta EXCEPT ![current] = Append(@, SidecarRow)]
  /\ offset' = offset + Len(payload.bytes)
  /\ payload' = NoPayload
  /\ server' = "recv"
  /\ UNCHANGED <<next, current, segments, bin, sentinel, proc, received>>

ServerNext ==
  \/ \E d \in Datagrams :
       \/ Ignore(d) \/ IgnoreFragment(d) \/ EndFirst(d) \/ Shutdown(d)
       \/ StartSession(d) \/ WriteChunk(d)
       \/ CountChanged(d) \/ Collect(d) \/ Complete(d)
  \/ StartNext \/ TouchSentinel \/ SessionEnded \/ WaitTimesOut
  \/ WriteBin \/ WriteMeta
===================================================================================
