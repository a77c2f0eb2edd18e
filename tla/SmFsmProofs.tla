------------------------------- MODULE SmFsmProofs -------------------------------
(*******************************************************************************)
(* What every caller of the clip state machine may rely on, for all records    *)
(* and all times: a call keeps the types of the state, of the action and of    *)
(* the clip (sm_fsm.c:93-160).                                                 *)
(*******************************************************************************)
EXTENDS SmFsm, FiniteSetTheorems, TLAPS

LEMMA RemainderBound ==
  ASSUME NEW n \in Nat, NEW d \in Nat, d > 1
  PROVE  n % d \in Nat /\ n % d <= n
  OBVIOUS

LEMMA TargetType ==
  ASSUME NEW rate \in Nat, NEW align \in Nat
  PROVE  AlignedTarget(rate, align) \in Nat
<1>1. CASE ClipMs <= 0 \/ rate = 0
  BY <1>1 DEF AlignedTarget
<1>2. CASE ClipMs > 0 /\ rate > 0
  <2> DEFINE target == (ClipMs * rate) \div 1000
  <2>1. target \in Nat
    <3>1. ClipMs * rate \in Nat
      BY <1>2, FsmAssumption DEF FsmAssumption
    <3>2. QED BY <3>1
  <2>2. align > 1 => target % align \in Nat /\ target % align <= target
    BY <2>1, RemainderBound
  <2> HIDE DEF target
  <2>3. align > 1 => target - (target % align) \in Nat
    BY <2>1, <2>2
  <2>4. QED BY <1>2, <2>1, <2>3, FsmAssumption DEF AlignedTarget, target, FsmAssumption
<1>3. QED BY <1>1, <1>2, FsmAssumption DEF FsmAssumption

LEMMA NoTags == {} \in TagSets
BY FS_EmptySet, FsmAssumption DEF TagSets, FsmAssumption

LEMMA RetainedType ==
  ASSUME fsm \in FsmState, NEW rec \in MetaRecord, NEW tags \in Retained(rec)
  PROVE  tags \in TagSets
<1>1. fsm.events \in TagSets /\ rec.events \in TagSets
  BY DEF FsmState, MetaRecord
<1> DEFINE both == fsm.events \cup rec.events
<1>2. both \in SUBSET Tags /\ IsFiniteSet(both)
  BY <1>1, FS_Union DEF TagSets
<1>3. tags \in SUBSET both
  BY DEF Retained
<1>4. IsFiniteSet(tags)
  BY <1>2, <1>3, FS_Subset
<1>5. Cardinality(tags) <= MaxEvents
  BY FsmAssumption DEF Retained, FsmAssumption
<1>6. QED BY <1>2, <1>3, <1>4, <1>5 DEF TagSets

LEMMA StartedType ==
  ASSUME NEW rec \in MetaRecord, NEW t \in Int
  PROVE  Started(rec, t) \in FsmState
BY DEF Started, MetaRecord, FsmState, Modes, Align

LEMMA AppendedType ==
  ASSUME fsm \in FsmState, NEW rec \in MetaRecord, NEW t \in Int,
         NEW tags \in TagSets
  PROVE  Appended(rec, t, tags) \in FsmState
<1> DEFINE total == fsm.total_length + rec.length
           nextSeq == rec.seq + 1
           nextOffset == rec.offset + rec.length
<1>1. total \in Nat /\ nextSeq \in Nat /\ nextOffset \in Nat /\ rec.ts_ms \in Int
  BY DEF FsmState, MetaRecord
<1> DEFINE f == [fsm EXCEPT !.end_ts_ms = rec.ts_ms, !.total_length = total,
                            !.expected_seq = nextSeq]
           g == [f EXCEPT !.expected_offset = nextOffset, !.last_chunk_wall_ms = t]
<1>2. Appended(rec, t, tags) = [g EXCEPT !.boundary_mode = "metadata", !.events = tags]
  BY DEF Appended, FsmState
<1> HIDE DEF total, nextSeq, nextOffset
<1>3. f \in FsmState
  BY <1>1 DEF FsmState
<1> HIDE DEF f
<1>4. g \in FsmState
  BY <1>1, <1>3 DEF FsmState
<1> HIDE DEF g
<1>5. QED BY <1>2, <1>4 DEF FsmState, Modes

LEMMA SnapshotType ==
  ASSUME NEW f \in FsmState
  PROVE  Snapshot(f) \in ClipRecord
BY DEF Snapshot, ClipRecord, FsmState

\* The window test moves the start of the clip forward over exactly the bytes it
\* gives out and changes nothing that the next row is compared with.
LEMMA WindowStep ==
  ASSUME NEW f \in FsmState, MaybeEmitWindow(f)
  PROVE  /\ fsm' \in FsmState /\ out' \in ClipRecord /\ action' \in Actions
         /\ fsm'.active = f.active
         /\ fsm'.expected_seq = f.expected_seq
         /\ fsm'.expected_offset = f.expected_offset
         /\ fsm'.continuous = f.continuous
         /\ fsm'.byte_rate = f.byte_rate
         /\ fsm'.frame_align = f.frame_align
         /\ f.start_offset <= fsm'.start_offset
         /\ fsm'.start_offset + fsm'.total_length = f.start_offset + f.total_length
         /\ out'.total_length = fsm'.start_offset - f.start_offset
         /\ out'.total_length # 0 => out'.start_offset = f.start_offset
<1> DEFINE target == AlignedTarget(f.byte_rate, f.frame_align)
<1>1. target \in Nat
  BY TargetType DEF FsmState
<1>2. CASE WindowFull(f) /\ fsm' = AfterWindow(f) /\ out' = WindowClip(f)
           /\ action' = "EMIT_COMPLETE"
  <2>1. target # 0 /\ f.total_length >= target
    BY <1>2 DEF WindowFull
  <2>2. fsm' = [f EXCEPT !.start_offset = f.start_offset + target,
                         !.total_length = f.total_length - target,
                         !.start_ts_ms = f.start_ts_ms + ClipMs,
                         !.end_ts_ms = f.start_ts_ms + ClipMs,
                         !.boundary_mode = "metadata",
                         !.events = {}]
    BY <1>2 DEF AfterWindow
  <2>3. out' = [active |-> f.active, start_ts_ms |-> f.start_ts_ms,
                end_ts_ms |-> f.start_ts_ms + ClipMs,
                start_offset |-> f.start_offset, total_length |-> target,
                boundary_mode |-> "continuous_byte_range", events |-> f.events]
    BY <1>2 DEF WindowClip, Snapshot
  <2>4. fsm' \in FsmState
    <3> DEFINE start == f.start_offset + target
               rest == f.total_length - target
               ts == f.start_ts_ms + ClipMs
    <3>1. start \in Nat /\ rest \in Nat /\ ts \in Int
      BY <1>1, <2>1, FsmAssumption DEF FsmState, FsmAssumption
    <3>2. fsm' = [f EXCEPT !.start_offset = start, !.total_length = rest,
                           !.start_ts_ms = ts, !.end_ts_ms = ts,
                           !.boundary_mode = "metadata", !.events = {}]
      BY <2>2
    <3> HIDE DEF target, start, rest, ts
    <3>3. QED BY <3>1, <3>2, NoTags DEF FsmState, Modes
  <2>5. out' \in ClipRecord
    <3> HIDE DEF target
    <3>1. QED BY <1>1, <2>3, FsmAssumption DEF FsmState, ClipRecord, Modes, FsmAssumption
  <2> HIDE DEF target
  <2>6. QED BY <1>1, <1>2, <2>1, <2>2, <2>3, <2>4, <2>5 DEF FsmState, Actions
<1>3. CASE fsm' = f /\ out' = NoClip /\ action' = "NONE"
  BY <1>3, NoTags DEF FsmState, ClipRecord, NoClip, Actions, Modes
<1>4. QED BY <1>2, <1>3 DEF MaybeEmitWindow

-----------------------------------------------------------------------------------
(* Whole calls                                                                   *)

LEMMA NoClipType == NoClip \in ClipRecord
BY NoTags DEF NoClip, ClipRecord, Modes

LEMMA ResetType == ResetFsm \in FsmState
BY NoTags DEF ResetFsm, FsmState, Modes

LEMMA ProcessTypes ==
  ASSUME FsmTypeOK, NEW rec \in MetaRecord, NEW t \in Int, ProcessRecord(rec, t)
  PROVE  FsmTypeOK'
<1>1. fsm \in FsmState /\ Started(rec, t) \in FsmState
  BY StartedType DEF FsmTypeOK
<1>2. CASE Opens(rec, t)
  <2>1. CASE MaybeEmitWindow(Started(rec, t))
    BY <1>1, <2>1, WindowStep DEF FsmTypeOK
  <2>2. CASE out' = Snapshot(fsm) /\ fsm' = Started(rec, t) /\ action' \in Emits
    BY <1>1, <2>2, SnapshotType DEF FsmTypeOK, Emits, Actions
  <2> QED
    BY <1>2, <2>1, <2>2
    DEF Opens, Begin, RestartEmpty, CloseAtGap, CutAtBoundary, Emits
<1>3. CASE Joins(rec, t)
  <2>1. PICK tags \in Retained(rec) :
          \/ MaybeEmitWindow(Appended(rec, t, tags))
          \/ fsm' = Appended(rec, t, tags) /\ out' = NoClip /\ action' = "NONE"
    BY <1>3 DEF Joins, AppendContinuous, AppendWithin
  <2>2. Appended(rec, t, tags) \in FsmState
    BY <1>1, RetainedType, AppendedType
  <2> QED
    BY <2>1, <2>2, NoClipType, WindowStep DEF FsmTypeOK, Actions
<1>4. CASE RejectLate(rec)
  BY <1>1, <1>4, NoClipType DEF RejectLate, FsmTypeOK, Actions
<1> QED
  BY <1>2, <1>3, <1>4 DEF ProcessRecord

LEMMA FlushTypes ==
  ASSUME FsmTypeOK, NEW t \in Int, CheckIdle(t) \/ FlushFinal
  PROVE  FsmTypeOK' /\ (fsm' = fsm \/ fsm' = ResetFsm)
<1>1. CASE \E kind \in Emits : EmitWhole(kind)
  BY <1>1, ResetType, SnapshotType DEF EmitWhole, FsmTypeOK, Emits, Actions
<1>2. CASE EmitNothing
  BY <1>2, NoClipType DEF EmitNothing, FsmTypeOK, Actions
<1> QED
  BY <1>1, <1>2 DEF CheckIdle, FlushFinal, Emits
===================================================================================
