---------------------------------- MODULE SmFsm ----------------------------------
(*******************************************************************************)
(* The gap-aware clip state machine of stream_merge                            *)
(* (src/applets/stream_merge/sm_fsm.c).                                        *)
(*                                                                             *)
(* The C interface is kept: a call reads and writes *fsm, returns an action    *)
(* and fills *out when the action is an emission.  "action" and "out" hold the *)
(* return value and the out parameter of the last call.  Each branch of        *)
(* sm_fsm_process_record is an action of its own.                              *)
(*                                                                             *)
(* No arithmetic here wraps: the sidecar reader admits integers of magnitude   *)
(* at most 2^53 - 1 and, by Tiling (module ClipCutter), total_length is never  *)
(* more than the distance between two such offsets.                            *)
(*******************************************************************************)
EXTENDS Integers, FiniteSets

CONSTANTS
  ClipMs,     \* --clip-secs in milliseconds
  IdleMs,     \* --idle-secs in milliseconds
  Tags,       \* event tags a sidecar row may carry
  MaxEvents   \* SM_EVENT_MAX_ITEMS

\* Both options go through atof(), so any sign is possible.
ASSUME FsmAssumption ==
  /\ ClipMs \in Int
  /\ IdleMs \in Int
  /\ MaxEvents \in Nat

VARIABLES
  fsm,        \* sm_fsm_t
  action,     \* the sm_fsm_action_t of the last call
  out         \* the sm_clip_record_t of the last call

fsmVars == <<fsm, action, out>>

Modes   == {"metadata", "continuous_byte_range"}
Actions == {"NONE", "REJECT_LATE", "EMIT_COMPLETE", "EMIT_PARTIAL"}
Emits   == {"EMIT_COMPLETE", "EMIT_PARTIAL"}

TagSets == {e \in SUBSET Tags : IsFiniteSet(e) /\ Cardinality(e) <= MaxEvents}

\* A row that sm_reader_parse_line accepts; a row without "continuous" has
\* byte_rate = frame_align = 0.
MetaRecord ==
  [seq : Nat, offset : Nat, length : Nat, ts_ms : Int, continuous : BOOLEAN,
   byte_rate : Nat, frame_align : Nat, events : TagSets]

ClipRecord ==
  [active : BOOLEAN, start_ts_ms : Int, end_ts_ms : Int, start_offset : Nat,
   total_length : Nat, boundary_mode : Modes, events : TagSets]

FsmState ==
  [active : BOOLEAN, start_ts_ms : Int, end_ts_ms : Int, start_offset : Nat,
   total_length : Nat, expected_seq : Nat, expected_offset : Nat,
   last_chunk_wall_ms : Int, continuous : BOOLEAN, byte_rate : Nat,
   frame_align : Nat, boundary_mode : Modes, events : TagSets]

ResetFsm ==
  [active |-> FALSE, start_ts_ms |-> 0, end_ts_ms |-> 0, start_offset |-> 0,
   total_length |-> 0, expected_seq |-> 0, expected_offset |-> 0,
   last_chunk_wall_ms |-> 0, continuous |-> FALSE, byte_rate |-> 0,
   frame_align |-> 0, boundary_mode |-> "metadata", events |-> {}]

\* Every caller zeroes the clip it passes in.
NoClip ==
  [active |-> FALSE, start_ts_ms |-> 0, end_ts_ms |-> 0, start_offset |-> 0,
   total_length |-> 0, boundary_mode |-> "metadata", events |-> {}]

FsmInit == fsm = ResetFsm /\ action = "NONE" /\ out = NoClip

FsmTypeOK == fsm \in FsmState /\ action \in Actions /\ out \in ClipRecord

-----------------------------------------------------------------------------------

Align(rec) == IF rec.frame_align = 0 THEN 1 ELSE rec.frame_align

AlignedTarget(rate, align) ==
  LET target == (ClipMs * rate) \div 1000
  IN  IF ClipMs <= 0 \/ rate = 0 THEN 0
      ELSE IF align > 1 THEN target - (target % align) ELSE target

Snapshot(f) ==
  [active |-> f.active, start_ts_ms |-> f.start_ts_ms, end_ts_ms |-> f.end_ts_ms,
   start_offset |-> f.start_offset, total_length |-> f.total_length,
   boundary_mode |-> f.boundary_mode, events |-> f.events]

Started(rec, t) ==
  [active |-> TRUE, start_ts_ms |-> rec.ts_ms, end_ts_ms |-> rec.ts_ms,
   start_offset |-> rec.offset, total_length |-> rec.length,
   expected_seq |-> rec.seq + 1, expected_offset |-> rec.offset + rec.length,
   last_chunk_wall_ms |-> t, continuous |-> rec.continuous,
   byte_rate |-> rec.byte_rate, frame_align |-> Align(rec),
   boundary_mode |-> "metadata", events |-> rec.events]

\* sm_event_set_add_all stops at the first tag that no longer fits, and
\* append_record ignores its result: the tags that do not fit are dropped.
\* Which ones fit depends on their order, left open here.
Retained(rec) ==
  IF Cardinality(fsm.events \cup rec.events) <= MaxEvents
  THEN {fsm.events \cup rec.events}
  ELSE {e \in SUBSET (fsm.events \cup rec.events) :
          fsm.events \subseteq e /\ Cardinality(e) = MaxEvents}

\* Fault: expected_offset is left behind.
Appended_StaleOffset(rec, t, tags) ==
  [fsm EXCEPT !.end_ts_ms = rec.ts_ms, !.total_length = @ + rec.length,
              !.expected_seq = rec.seq + 1, !.last_chunk_wall_ms = t,
              !.boundary_mode = "metadata", !.events = tags]

Appended(rec, t, tags) ==
  [fsm EXCEPT !.end_ts_ms = rec.ts_ms,
              !.total_length = @ + rec.length,
              !.expected_seq = rec.seq + 1,
              !.expected_offset = rec.offset + rec.length,
              !.last_chunk_wall_ms = t,
              !.boundary_mode = "metadata",
              !.events = tags]

Compatible(rec) ==
  /\ fsm.continuous
  /\ rec.continuous
  /\ fsm.byte_rate = rec.byte_rate
  /\ fsm.frame_align = Align(rec)

\* Fault: the length is not compared with the target.
WindowFull_AnyLength(f) ==
  f.continuous /\ AlignedTarget(f.byte_rate, f.frame_align) # 0

WindowFull(f) ==
  LET target == AlignedTarget(f.byte_rate, f.frame_align)
  IN  f.continuous /\ target # 0 /\ f.total_length >= target

WindowClip(f) ==
  [Snapshot(f) EXCEPT !.end_ts_ms = f.start_ts_ms + ClipMs,
                      !.total_length = AlignedTarget(f.byte_rate, f.frame_align),
                      !.boundary_mode = "continuous_byte_range"]

\* Fault: the events stay after they were given out.
AfterWindow_KeepEvents(f) ==
  LET target == AlignedTarget(f.byte_rate, f.frame_align)
  IN  [f EXCEPT !.start_offset = @ + target, !.total_length = @ - target,
                !.start_ts_ms = @ + ClipMs, !.end_ts_ms = f.start_ts_ms + ClipMs]

AfterWindow(f) ==
  LET target == AlignedTarget(f.byte_rate, f.frame_align)
  IN  [f EXCEPT !.start_offset = @ + target,
                !.total_length = @ - target,
                !.start_ts_ms = @ + ClipMs,
                !.end_ts_ms = f.start_ts_ms + ClipMs,
                !.boundary_mode = "metadata",
                !.events = {}]

\* The window test that ends a call whose state is f: one window at most.
MaybeEmitWindow(f) ==
  \/ /\ WindowFull(f)
     /\ fsm' = AfterWindow(f)
     /\ out' = WindowClip(f)
     /\ action' = "EMIT_COMPLETE"
  \/ /\ ~WindowFull(f)
     /\ fsm' = f
     /\ out' = NoClip
     /\ action' = "NONE"

-----------------------------------------------------------------------------------
(* sm_fsm_process_record, one action per branch.                                 *)

\* Fault: off by one, the last accepted row is not late.
IsLate_OffByOne(rec) == rec.seq < fsm.expected_seq - 1

\* Fault: only the offset is compared.
Breaks_OffsetOnly(rec) == rec.offset # fsm.expected_offset

IsLate(rec) == rec.seq < fsm.expected_seq

Breaks(rec) ==
  rec.seq > fsm.expected_seq \/ rec.offset # fsm.expected_offset

Begin(rec, t) ==
  /\ ~fsm.active
  /\ MaybeEmitWindow(Started(rec, t))

RejectLate(rec) ==
  /\ fsm.active
  /\ IsLate(rec)
  /\ action' = "REJECT_LATE"
  /\ out' = NoClip
  /\ UNCHANGED fsm

\* Fault: the restart does not ask whether something is collected.
RestartEmpty_Always(rec, t) ==
  fsm.active /\ ~IsLate(rec) /\ Breaks(rec) /\ MaybeEmitWindow(Started(rec, t))

\* Nothing is collected, so a gap has nothing to close.
RestartEmpty(rec, t) ==
  /\ fsm.active
  /\ ~IsLate(rec)
  /\ Breaks(rec)
  /\ fsm.total_length = 0
  /\ MaybeEmitWindow(Started(rec, t))

CloseAtGap(rec, t) ==
  /\ fsm.active
  /\ ~IsLate(rec)
  /\ Breaks(rec)
  /\ fsm.total_length # 0
  /\ out' = Snapshot(fsm)
  /\ fsm' = Started(rec, t)
  /\ action' = "EMIT_PARTIAL"

\* Fault: no window test after the row is added.
AppendContinuous_NoCut(rec, t) ==
  /\ fsm.active /\ ~IsLate(rec) /\ ~Breaks(rec) /\ Compatible(rec)
  /\ \E tags \in Retained(rec) : fsm' = Appended(rec, t, tags)
  /\ out' = NoClip /\ action' = "NONE"

AppendContinuous(rec, t) ==
  /\ fsm.active
  /\ ~IsLate(rec)
  /\ ~Breaks(rec)
  /\ Compatible(rec)
  /\ \E tags \in Retained(rec) : MaybeEmitWindow(Appended(rec, t, tags))

\* Fault: a row on the boundary still joins.
PastWindow_Strict(rec) == rec.ts_ms - fsm.start_ts_ms > ClipMs

PastWindow(rec) == rec.ts_ms - fsm.start_ts_ms >= ClipMs

\* Fault: the clip is restarted before it is copied out.
CutAtBoundary_CopyLast(rec, t) ==
  /\ fsm.active /\ ~IsLate(rec) /\ ~Breaks(rec) /\ ~Compatible(rec) /\ PastWindow(rec)
  /\ fsm' = Started(rec, t)
  /\ out' = Snapshot(Started(rec, t))
  /\ action' = "EMIT_COMPLETE"

CutAtBoundary(rec, t) ==
  /\ fsm.active
  /\ ~IsLate(rec)
  /\ ~Breaks(rec)
  /\ ~Compatible(rec)
  /\ PastWindow(rec)
  /\ out' = Snapshot(fsm)
  /\ fsm' = Started(rec, t)
  /\ action' = "EMIT_COMPLETE"

AppendWithin(rec, t) ==
  /\ fsm.active
  /\ ~IsLate(rec)
  /\ ~Breaks(rec)
  /\ ~Compatible(rec)
  /\ ~PastWindow(rec)
  /\ \E tags \in Retained(rec) : fsm' = Appended(rec, t, tags)
  /\ out' = NoClip
  /\ action' = "NONE"

\* The branches that make rec the first record of a new clip, and those that
\* add it to the current one.
Opens(rec, t) ==
  \/ Begin(rec, t)
  \/ RestartEmpty(rec, t)
  \/ CloseAtGap(rec, t)
  \/ CutAtBoundary(rec, t)

Joins(rec, t) == AppendContinuous(rec, t) \/ AppendWithin(rec, t)

ProcessRecord(rec, t) == Opens(rec, t) \/ Joins(rec, t) \/ RejectLate(rec)

-----------------------------------------------------------------------------------

\* Fault: the clip is given out without leaving the active state.
EmitWhole_StayActive(kind) ==
  /\ out' = Snapshot(fsm)
  /\ fsm' = [fsm EXCEPT !.total_length = 0, !.start_offset = fsm.expected_offset]
  /\ action' = kind

EmitWhole(kind) ==
  /\ out' = Snapshot(fsm)
  /\ fsm' = ResetFsm
  /\ action' = kind

EmitNothing ==
  /\ out' = NoClip
  /\ action' = "NONE"
  /\ UNCHANGED fsm

Holding == fsm.active /\ fsm.total_length # 0

IdleElapsed(t) == t - fsm.last_chunk_wall_ms >= IdleMs

\* sm_fsm_check_idle
CheckIdle(t) ==
  \/ Holding /\ IdleElapsed(t) /\ EmitWhole("EMIT_PARTIAL")
  \/ ~(Holding /\ IdleElapsed(t)) /\ EmitNothing

\* Fault: the last clip is not flushed.
FlushFinal_Nothing == EmitNothing

\* sm_fsm_flush_final
FlushFinal ==
  \/ Holding /\ EmitWhole("EMIT_COMPLETE")
  \/ ~Holding /\ EmitNothing
===================================================================================
