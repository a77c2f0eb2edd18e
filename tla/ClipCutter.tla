------------------------------- MODULE ClipCutter --------------------------------
(*******************************************************************************)
(* The clip state machine under every sequence of calls that stream_merge can  *)
(* make: sidecar rows in any order, repeated, missing or displaced (the        *)
(* sidecar is whatever the ingestor received over UDP), idle checks at any     *)
(* time, and one final flush (stream_merge.c:359-368).                         *)
(*******************************************************************************)
EXTENDS SmFsm

CONSTANTS
  Records,    \* the rows the sidecar may hold
  Bytes,      \* the file offsets that are accounted for
  MaxFed,     \* bound: number of rows
  TickMs,     \* granularity of the clock
  MaxNow      \* bound: last instant

ASSUME CutterAssumption ==
  /\ Records \subseteq MetaRecord
  /\ Bytes \subseteq Nat
  /\ MaxFed \in Nat
  /\ TickMs \in Nat
  /\ MaxNow \in Nat

VARIABLES
  now,        \* pipeline_get_monotonic_time_ms()
  fed,        \* rows processed
  done,       \* the final flush has been made
  \* What has happened so far, for the properties:
  lastSeq,    \* sequence number of the last row not rejected, -1 before it
  run,        \* the rows since a row last opened a clip
  accepted,   \* how many rows that were not rejected cover each byte
  emitted     \* how many emitted clips cover each byte

history == <<lastSeq, run, accepted, emitted>>
vars == <<fsm, action, out, now, fed, done, lastSeq, run, accepted, emitted>>

\* 1 if the region of that start and length holds byte b, else 0.
Hits(start, length, b) == IF start <= b /\ b < start + length THEN 1 ELSE 0

\* first, count: sequence number of the first row, number of rows.
\* tags: their events, from the last window cut on.
\* steady: all are of one continuous stream, none longer than a window.
NoRun == [first |-> 0, count |-> 0, tags |-> {}, steady |-> FALSE]

RunState == [first : Nat, count : Nat, tags : SUBSET Tags, steady : BOOLEAN]

Steady(rec) ==
  /\ rec.continuous
  /\ rec.length <= AlignedTarget(rec.byte_rate, Align(rec))

\* A cut inside a continuous stream resets the event set.
TagsAfter(tags) ==
  IF out'.boundary_mode = "continuous_byte_range" THEN {} ELSE tags

CountAccepted(rec) ==
  accepted' = [b \in Bytes |-> accepted[b] + Hits(rec.offset, rec.length, b)]

CountEmitted ==
  emitted' =
    [b \in Bytes |->
       emitted[b] + Hits(out'.start_offset, out'.total_length, b)]

-----------------------------------------------------------------------------------

Init ==
  /\ FsmInit
  /\ now = 0
  /\ fed = 0
  /\ done = FALSE
  /\ lastSeq = -1
  /\ run = NoRun
  /\ accepted = [b \in Bytes |-> 0]
  /\ emitted = [b \in Bytes |-> 0]

Feeding ==
  /\ ~done
  /\ fed < MaxFed
  /\ fed' = fed + 1
  /\ UNCHANGED <<now, done>>

Open(rec) ==
  /\ Feeding
  /\ Opens(rec, now)
  /\ lastSeq' = rec.seq
  /\ run' = [first |-> rec.seq, count |-> 1, tags |-> TagsAfter(rec.events),
             steady |-> Steady(rec)]
  /\ CountAccepted(rec)
  /\ CountEmitted

Join(rec) ==
  /\ Feeding
  /\ Joins(rec, now)
  /\ lastSeq' = rec.seq
  /\ run' = [run EXCEPT !.count = @ + 1,
                        !.tags = TagsAfter(@ \cup rec.events),
                        !.steady = @ /\ Steady(rec) /\ Compatible(rec)]
  /\ CountAccepted(rec)
  /\ CountEmitted

Reject(rec) ==
  /\ Feeding
  /\ RejectLate(rec)
  /\ UNCHANGED history

Idle ==
  /\ ~done
  /\ CheckIdle(now)
  /\ CountEmitted
  /\ UNCHANGED <<now, fed, done, lastSeq, run, accepted>>

Final ==
  /\ ~done
  /\ FlushFinal
  /\ done' = TRUE
  /\ CountEmitted
  /\ UNCHANGED <<now, fed, lastSeq, run, accepted>>

Tick ==
  /\ ~done
  /\ now + TickMs <= MaxNow
  /\ now' = now + TickMs
  /\ UNCHANGED <<fsm, action, out, fed, done>>
  /\ UNCHANGED history

Next ==
  \/ \E rec \in Records : Open(rec) \/ Join(rec) \/ Reject(rec)
  \/ Idle
  \/ Final
  \/ Tick

Spec == Init /\ [][Next]_vars

-----------------------------------------------------------------------------------

TypeOK ==
  /\ FsmTypeOK
  /\ now \in Nat
  /\ fed \in 0 .. MaxFed
  /\ done \in BOOLEAN
  /\ lastSeq \in Nat \cup {-1}
  /\ run \in RunState
  /\ accepted \in [Bytes -> Nat]
  /\ emitted \in [Bytes -> Nat]

\* The open clip is exactly the gap-free file region that ends where the next
\* contiguous chunk must start: start_offset and total_length are moved by the
\* window cut, expected_offset is not (sm_fsm.c:78-79).
Tiling ==
  fsm.active => fsm.expected_offset = fsm.start_offset + fsm.total_length

\* Every byte of every accepted row is given out exactly as many times as it was
\* accepted, or is still in the open clip: no branch loses a byte, gives one out
\* twice or gives out a byte it was never handed, whatever rows arrive.
ByteAccounting ==
  \A b \in Bytes :
    accepted[b] = emitted[b] + Hits(fsm.start_offset, fsm.total_length, b)

\* Once the final flush is made nothing is owed (sm_fsm.c:149-157).
AllGivenOut == done => accepted = emitted

\* A clip never hides a lost chunk: the rows collected since the clip was opened
\* carry consecutive sequence numbers, each exactly once.
NoHiddenGap ==
  fsm.active => fsm.expected_seq = run.first + run.count

\* The rows of a clip cut by timestamps span less than the window, because the
\* row on the boundary opens the next clip (sm_fsm.c:124-129).
WithinWindow ==
  fsm.active /\ ~fsm.continuous =>
    \/ fsm.end_ts_ms - fsm.start_ts_ms < ClipMs
    \/ fsm.end_ts_ms = fsm.start_ts_ms

\* A continuous stream of chunks no longer than a window never falls behind: at
\* most one window is left after a call, although a call cuts at most one.
NoBacklog ==
  fsm.active /\ run.steady =>
    fsm.total_length <= AlignedTarget(fsm.byte_rate, fsm.frame_align)

\* The open clip carries the events of its own rows only, and all of them unless
\* they are more than SM_EVENT_MAX_ITEMS.
EventsBelong ==
  fsm.active =>
    /\ fsm.events \subseteq run.tags
    /\ Cardinality(run.tags) <= MaxEvents => fsm.events = run.tags

\* A row was processed and not rejected.
Accepts == fed' # fed /\ action' # "REJECT_LATE"

\* While a clip is open, no row at or before the last accepted one is accepted
\* (sm_fsm.c:103-105).
LateRejectedWhileOpen == [][Accepts /\ fsm.active => lastSeq' > lastSeq]_vars

\* sm_fsm.h:81 "late records are rejected"; .docs/applets/stream-merge.md:53
\* lets sequence numbers jump forward but never back.  The idle flush clears
\* expected_seq (sm_fsm.c:144-145), so the row after it may be any row.
LateRejected == [][Accepts => lastSeq' > lastSeq]_vars

\* The state machine keeps the promise of ClipLedger.
Given(clip) ==
  IF clip.total_length = 0 THEN <<0, 0>>
  ELSE <<clip.start_offset, clip.start_offset + clip.total_length>>

Ledger == INSTANCE ClipLedger WITH
  lo <- fsm.start_offset,
  hi <- fsm.start_offset + fsm.total_length,
  given <- Given(out)

LedgerSpec == Ledger!Spec
===================================================================================
