---------------------------- MODULE ClipCutterProofs -----------------------------
(*******************************************************************************)
(* Proofs about ClipCutter for all rows, times and options (sm_fsm.c: 93-160). *)
(*                                                                             *)
(* Tiling carries the rest: a row that is appended starts where the clip ends, *)
(* so every byte is given out or held as often as it was accepted.             *)
(*******************************************************************************)
EXTENDS ClipCutter, SmFsmProofs

-----------------------------------------------------------------------------------
(* What each group of branches does to the state machine.                        *)

\* A state machine that holds no clip holds no bytes.
FsmShape ==
  /\ fsm \in FsmState
  /\ ~fsm.active => fsm.start_offset = 0 /\ fsm.total_length = 0
  /\ Tiling

\* The bytes a call takes over are given out or held afterwards, and no others.
Conserves(start, length) ==
  \A b \in Nat :
    Hits(fsm.start_offset, fsm.total_length, b) + Hits(start, length, b)
      = Hits(out'.start_offset, out'.total_length, b)
        + Hits(fsm'.start_offset, fsm'.total_length, b)

StepTypes == fsm' \in FsmState /\ out' \in ClipRecord /\ action' \in Actions

LEMMA NoHits ==
  ASSUME NEW s \in Nat, NEW b \in Nat
  PROVE  Hits(s, 0, b) = 0
BY DEF Hits

\* Bytes of f before the window test = bytes given out + bytes kept.
LEMMA WindowHits ==
  ASSUME NEW f \in FsmState, MaybeEmitWindow(f), NEW b \in Nat
  PROVE  Hits(f.start_offset, f.total_length, b)
           = Hits(out'.start_offset, out'.total_length, b)
             + Hits(fsm'.start_offset, fsm'.total_length, b)
<1>1. /\ fsm' \in FsmState /\ out' \in ClipRecord
      /\ fsm'.start_offset + fsm'.total_length = f.start_offset + f.total_length
      /\ out'.total_length = fsm'.start_offset - f.start_offset
      /\ out'.total_length # 0 => out'.start_offset = f.start_offset
  BY WindowStep
<1>2. QED BY <1>1 DEF Hits, FsmState, ClipRecord

LEMMA OpensStep ==
  ASSUME FsmShape, NEW rec \in MetaRecord, NEW t \in Int, Opens(rec, t)
  PROVE  /\ StepTypes
         /\ FsmShape'
         /\ fsm'.active
         /\ fsm'.expected_seq = rec.seq + 1
         /\ Conserves(rec.offset, rec.length)
<1> DEFINE f == Started(rec, t)
<1>1. /\ f \in FsmState
      /\ f.active
      /\ f.start_offset = rec.offset /\ f.total_length = rec.length
      /\ f.expected_seq = rec.seq + 1
      /\ f.expected_offset = rec.offset + rec.length
  BY StartedType DEF Started
<1>2. CASE fsm.total_length = 0 /\ MaybeEmitWindow(f)
  <2> HIDE DEF f
  <2>1. StepTypes /\ fsm'.active /\ fsm'.expected_seq = rec.seq + 1
    BY <1>1, <1>2, WindowStep DEF StepTypes
  <2>2. FsmShape'
    BY <1>1, <1>2, WindowStep DEF FsmShape, Tiling
  <2>3. Conserves(rec.offset, rec.length)
    BY <1>1, <1>2, WindowHits, NoHits DEF Conserves, FsmShape, FsmState, Hits
  <2>4. QED BY <2>1, <2>2, <2>3
<1>3. CASE out' = Snapshot(fsm) /\ fsm' = f /\ action' \in Emits
  <2>1. StepTypes
    BY <1>1, <1>3, SnapshotType DEF StepTypes, FsmShape, Emits, Actions
  <2>2. out'.start_offset = fsm.start_offset /\ out'.total_length = fsm.total_length
    BY <1>3 DEF Snapshot
  <2> HIDE DEF f
  <2>3. FsmShape' /\ fsm'.active /\ fsm'.expected_seq = rec.seq + 1
    BY <1>1, <1>3 DEF FsmShape, Tiling
  <2>4. Conserves(rec.offset, rec.length)
    BY <1>1, <1>3, <2>2 DEF Conserves
  <2>5. QED BY <2>1, <2>3, <2>4
<1>4. QED BY <1>2, <1>3
  DEF Opens, Begin, RestartEmpty, CloseAtGap, CutAtBoundary, FsmShape, Emits

LEMMA JoinsStep ==
  ASSUME FsmShape, NEW rec \in MetaRecord, NEW t \in Int, Joins(rec, t)
  PROVE  /\ StepTypes
         /\ FsmShape'
         /\ fsm.active /\ fsm'.active
         /\ rec.seq = fsm.expected_seq
         /\ fsm'.expected_seq = rec.seq + 1
         /\ Conserves(rec.offset, rec.length)
<1>1. /\ fsm.active
      /\ rec.seq = fsm.expected_seq
      /\ rec.offset = fsm.expected_offset
  BY DEF Joins, AppendContinuous, AppendWithin, IsLate, Breaks, FsmShape,
         FsmState, MetaRecord
<1>2. PICK tags \in Retained(rec) :
        \/ MaybeEmitWindow(Appended(rec, t, tags))
        \/ fsm' = Appended(rec, t, tags) /\ out' = NoClip /\ action' = "NONE"
  BY DEF Joins, AppendContinuous, AppendWithin
<1> DEFINE f == Appended(rec, t, tags)
<1>3. f \in FsmState
  BY RetainedType, AppendedType DEF FsmShape
<1>4. /\ f.active = fsm.active
      /\ f.start_offset = fsm.start_offset
      /\ f.total_length = fsm.total_length + rec.length
      /\ f.expected_seq = rec.seq + 1
      /\ f.expected_offset = rec.offset + rec.length
  BY DEF Appended, FsmShape, FsmState
<1>5. f.expected_offset = f.start_offset + f.total_length
  BY <1>1, <1>4 DEF FsmShape, Tiling, FsmState, MetaRecord
<1>6. \A b \in Nat : Hits(f.start_offset, f.total_length, b)
        = Hits(fsm.start_offset, fsm.total_length, b) + Hits(rec.offset, rec.length, b)
  <2>1. rec.offset = fsm.start_offset + fsm.total_length
    BY <1>1 DEF FsmShape, Tiling
  <2>2. fsm.start_offset \in Nat /\ fsm.total_length \in Nat /\ rec.length \in Nat
    BY DEF FsmShape, FsmState, MetaRecord
  <2> HIDE DEF f
  <2>3. QED BY <1>4, <2>1, <2>2 DEF Hits
<1>7. CASE MaybeEmitWindow(f)
  <2> HIDE DEF f
  <2>1. StepTypes /\ fsm'.active /\ fsm'.expected_seq = rec.seq + 1
    BY <1>1, <1>3, <1>4, <1>7, WindowStep DEF StepTypes
  <2>2. FsmShape'
    BY <1>1, <1>3, <1>4, <1>5, <1>7, WindowStep DEF FsmShape, Tiling
  <2>3. Conserves(rec.offset, rec.length)
    BY <1>3, <1>6, <1>7, WindowHits DEF Conserves
  <2>4. QED BY <1>1, <2>1, <2>2, <2>3
<1>8. CASE fsm' = f /\ out' = NoClip /\ action' = "NONE"
  <2> HIDE DEF f
  <2>1. StepTypes
    BY <1>3, <1>8, NoTags DEF StepTypes, NoClip, ClipRecord, Modes, Actions
  <2>2. FsmShape' /\ fsm'.active /\ fsm'.expected_seq = rec.seq + 1
    BY <1>1, <1>3, <1>4, <1>5, <1>8 DEF FsmShape, Tiling
  <2>3. out'.start_offset = 0 /\ out'.total_length = 0
    BY <1>8 DEF NoClip
  <2>4. Conserves(rec.offset, rec.length)
    <3> SUFFICES ASSUME NEW b \in Nat
                 PROVE  Hits(fsm.start_offset, fsm.total_length, b)
                          + Hits(rec.offset, rec.length, b)
                        = Hits(0, 0, b) + Hits(f.start_offset, f.total_length, b)
      BY <1>8, <2>3 DEF Conserves
    <3>1. Hits(0, 0, b) = 0
      BY NoHits
    <3>2. Hits(f.start_offset, f.total_length, b) \in {0, 1, 2}
      BY DEF Hits
    <3>3. QED BY <1>6, <3>1, <3>2
  <2>5. QED BY <1>1, <2>1, <2>2, <2>4
<1>9. QED BY <1>2, <1>7, <1>8

LEMMA RejectStep ==
  ASSUME FsmShape, NEW rec \in MetaRecord, RejectLate(rec)
  PROVE  StepTypes /\ FsmShape'
<1>1. fsm' = fsm /\ out' = NoClip /\ action' = "REJECT_LATE"
  BY DEF RejectLate
<1>2. StepTypes
  BY <1>1, NoTags DEF StepTypes, FsmShape, NoClip, ClipRecord, Modes, Actions
<1>3. QED BY <1>1, <1>2 DEF FsmShape, Tiling

LEMMA FlushStep ==
  ASSUME FsmShape, NEW t \in Int, CheckIdle(t) \/ FlushFinal
  PROVE  /\ StepTypes
         /\ FsmShape'
         /\ Conserves(0, 0)
         /\ fsm'.active => fsm' = fsm
         /\ FlushFinal => fsm'.total_length = 0
<1>1. CASE \E kind \in Emits : Holding /\ EmitWhole(kind)
  <2>1. /\ fsm' = ResetFsm /\ out' = Snapshot(fsm) /\ action' \in Emits
        /\ ResetFsm \in FsmState
    BY <1>1, NoTags DEF EmitWhole, ResetFsm, FsmState, Modes
  <2>2. StepTypes
    BY <2>1, SnapshotType DEF StepTypes, FsmShape, Emits, Actions
  <2>3. ~fsm'.active /\ fsm'.start_offset = 0 /\ fsm'.total_length = 0
    BY <2>1 DEF ResetFsm
  <2>4. out'.start_offset = fsm.start_offset /\ out'.total_length = fsm.total_length
    BY <2>1 DEF Snapshot
  <2>5. Conserves(0, 0)
    BY <2>3, <2>4 DEF Conserves
  <2>6. QED BY <2>1, <2>2, <2>3, <2>5 DEF FsmShape, Tiling
<1>2. CASE EmitNothing
  <2>1. fsm' = fsm /\ out' = NoClip /\ action' = "NONE"
    BY <1>2 DEF EmitNothing
  <2>2. StepTypes
    BY <2>1, NoTags DEF StepTypes, FsmShape, NoClip, ClipRecord, Modes, Actions
  <2>3. out'.start_offset = 0 /\ out'.total_length = 0
    BY <2>1 DEF NoClip
  <2>4. Conserves(0, 0)
    BY <2>1, <2>3 DEF Conserves, Hits
  <2>5. FlushFinal => fsm'.total_length = 0
    <3>1. FlushFinal => ~Holding \/ fsm'.total_length = 0
      BY DEF FlushFinal, EmitWhole, ResetFsm
    <3>2. QED BY <2>1, <3>1 DEF Holding, FsmShape
  <2>6. QED BY <2>1, <2>2, <2>4, <2>5 DEF FsmShape, Tiling
<1>3. QED BY <1>1, <1>2 DEF CheckIdle, FlushFinal, Emits

-----------------------------------------------------------------------------------
(* The inductive invariant.                                                      *)

RunTracked ==
  fsm.active => /\ fsm.expected_seq = run.first + run.count
                /\ fsm.expected_seq = lastSeq + 1

CutterInv ==
  /\ TypeOK
  /\ FsmShape
  /\ ByteAccounting
  /\ RunTracked
  /\ done => fsm.total_length = 0

LEMMA TagsAfterType ==
  ASSUME NEW tags \in SUBSET Tags
  PROVE  TagsAfter(tags) \in SUBSET Tags
BY DEF TagsAfter

LEMMA CountType ==
  ASSUME TypeOK, StepTypes, CountEmitted
  PROVE  emitted' \in [Bytes -> Nat]
<1>1. \A b \in Bytes : Hits(out'.start_offset, out'.total_length, b) \in {0, 1}
  BY DEF Hits
<1>2. QED BY <1>1 DEF CountEmitted, TypeOK

\* Conservation by the state machine keeps the books balanced.
LEMMA Balanced ==
  ASSUME TypeOK, ByteAccounting, CountEmitted, NEW start, NEW length,
         Conserves(start, length),
         accepted' = [b \in Bytes |-> accepted[b] + Hits(start, length, b)]
  PROVE  ByteAccounting'
<1> SUFFICES ASSUME NEW b \in Bytes
             PROVE  accepted'[b]
                      = emitted'[b] + Hits(fsm'.start_offset, fsm'.total_length, b)
  BY DEF ByteAccounting, Hits
<1>1. b \in Nat /\ accepted[b] \in Nat /\ emitted[b] \in Nat
  BY CutterAssumption DEF CutterAssumption, TypeOK
<1> DEFINE before == Hits(fsm.start_offset, fsm.total_length, b)
           taken  == Hits(start, length, b)
           given  == Hits(out'.start_offset, out'.total_length, b)
           after  == Hits(fsm'.start_offset, fsm'.total_length, b)
<1>2. /\ before \in {0, 1} /\ taken \in {0, 1}
      /\ given \in {0, 1} /\ after \in {0, 1}
  BY DEF Hits
<1>3. before + taken = given + after
  BY <1>1 DEF Conserves
<1>4. accepted[b] = emitted[b] + before
  BY DEF ByteAccounting
<1>5. accepted'[b] = accepted[b] + taken /\ emitted'[b] = emitted[b] + given
  BY DEF CountEmitted
<1> HIDE DEF before, taken, given, after
<1>6. accepted'[b] = emitted'[b] + after
  BY <1>1, <1>2, <1>3, <1>4, <1>5
<1>7. QED BY <1>6 DEF after

LEMMA AcceptedType ==
  ASSUME TypeOK, NEW rec \in MetaRecord, CountAccepted(rec)
  PROVE  accepted' \in [Bytes -> Nat]
<1>1. \A b \in Bytes : Hits(rec.offset, rec.length, b) \in {0, 1}
  BY DEF Hits
<1>2. QED BY <1>1 DEF CountAccepted, TypeOK

LEMMA OpenKeeps ==
  ASSUME CutterInv, NEW rec \in Records, Open(rec)
  PROVE  CutterInv'
<1>1. rec \in MetaRecord
  BY CutterAssumption DEF CutterAssumption
<1>2. now \in Int /\ fed \in 0 .. MaxFed /\ FsmShape /\ TypeOK /\ ByteAccounting
  BY DEF CutterInv, TypeOK
<1>3. /\ StepTypes /\ FsmShape' /\ fsm'.active
      /\ fsm'.expected_seq = rec.seq + 1
      /\ Conserves(rec.offset, rec.length)
  BY <1>1, <1>2, OpensStep DEF Open
<1>4. /\ ~done /\ fed < MaxFed /\ fed' = fed + 1 /\ now' = now /\ done' = done
      /\ lastSeq' = rec.seq
      /\ run' = [first |-> rec.seq, count |-> 1, tags |-> TagsAfter(rec.events),
                 steady |-> Steady(rec)]
      /\ CountAccepted(rec) /\ CountEmitted
  BY DEF Open, Feeding
<1>5. TypeOK'
  <2>1. rec.events \in SUBSET Tags /\ rec.seq \in Nat /\ rec.continuous \in BOOLEAN
    BY <1>1 DEF MetaRecord, TagSets
  <2>2. run' \in RunState
    BY <1>4, <2>1, TagsAfterType DEF RunState, Steady
  <2>3. fed' \in 0 .. MaxFed
    BY <1>2, <1>4, CutterAssumption DEF CutterAssumption
  <2>4. QED BY <1>1, <1>2, <1>3, <1>4, <2>1, <2>2, <2>3, AcceptedType, CountType
             DEF TypeOK, FsmTypeOK, StepTypes
<1>6. ByteAccounting'
  BY <1>2, <1>3, <1>4, Balanced DEF CountAccepted
<1>7. RunTracked'
  BY <1>1, <1>3, <1>4 DEF RunTracked
<1>8. QED BY <1>3, <1>4, <1>5, <1>6, <1>7 DEF CutterInv

LEMMA JoinKeeps ==
  ASSUME CutterInv, NEW rec \in Records, Join(rec)
  PROVE  CutterInv'
<1>1. rec \in MetaRecord
  BY CutterAssumption DEF CutterAssumption
<1>2. /\ now \in Int /\ fed \in 0 .. MaxFed /\ run \in RunState /\ fsm \in FsmState
      /\ FsmShape /\ TypeOK /\ ByteAccounting
  BY DEF CutterInv, TypeOK, FsmTypeOK
<1>3. /\ StepTypes /\ FsmShape' /\ fsm.active /\ fsm'.active
      /\ rec.seq = fsm.expected_seq
      /\ fsm'.expected_seq = rec.seq + 1
      /\ Conserves(rec.offset, rec.length)
  BY <1>1, <1>2, JoinsStep DEF Join
<1>4. /\ ~done /\ fed < MaxFed /\ fed' = fed + 1 /\ now' = now /\ done' = done
      /\ lastSeq' = rec.seq
      /\ run' = [run EXCEPT !.count = run.count + 1,
                            !.tags = TagsAfter(run.tags \cup rec.events),
                            !.steady = run.steady /\ Steady(rec) /\ Compatible(rec)]
      /\ CountAccepted(rec) /\ CountEmitted
  BY DEF Join, Feeding
<1>5. TypeOK'
  <2>1. rec.events \in SUBSET Tags /\ rec.seq \in Nat
    BY <1>1 DEF MetaRecord, TagSets
  <2>2. run' \in RunState
    <3> DEFINE tags == TagsAfter(run.tags \cup rec.events)
               steady == run.steady /\ Steady(rec) /\ Compatible(rec)
    <3>1. tags \in SUBSET Tags
      BY <1>2, <2>1, TagsAfterType DEF RunState
    <3>2. steady \in BOOLEAN /\ run.count + 1 \in Nat
      BY <1>2 DEF RunState
    <3>3. run' = [run EXCEPT !.count = run.count + 1, !.tags = tags, !.steady = steady]
      BY <1>4
    <3> HIDE DEF tags, steady
    <3>4. QED BY <1>2, <3>1, <3>2, <3>3 DEF RunState
  <2>3. fed' \in 0 .. MaxFed
    BY <1>2, <1>4, CutterAssumption DEF CutterAssumption
  <2>4. QED BY <1>1, <1>2, <1>3, <1>4, <2>1, <2>2, <2>3, AcceptedType, CountType
             DEF TypeOK, FsmTypeOK, StepTypes
<1>6. ByteAccounting'
  BY <1>2, <1>3, <1>4, Balanced DEF CountAccepted
<1>7. RunTracked'
  <2>1. run'.first = run.first /\ run'.count = run.count + 1
    BY <1>2, <1>4 DEF RunState
  <2>2. QED BY <1>1, <1>2, <1>3, <1>4, <2>1
            DEF RunTracked, CutterInv, RunState, FsmState
<1>8. QED BY <1>3, <1>4, <1>5, <1>6, <1>7 DEF CutterInv

LEMMA RejectKeeps ==
  ASSUME CutterInv, NEW rec \in Records, Reject(rec)
  PROVE  CutterInv'
<1>1. rec \in MetaRecord
  BY CutterAssumption DEF CutterAssumption
<1>2. StepTypes /\ FsmShape'
  BY <1>1, RejectStep DEF CutterInv, Reject
<1>3. /\ fsm' = fsm /\ fed < MaxFed /\ fed' = fed + 1 /\ now' = now /\ done' = done
      /\ lastSeq' = lastSeq /\ run' = run
      /\ accepted' = accepted /\ emitted' = emitted
  BY DEF Reject, RejectLate, Feeding, history
<1>4. TypeOK'
  BY <1>2, <1>3, CutterAssumption
  DEF CutterAssumption, CutterInv, TypeOK, FsmTypeOK, StepTypes
<1>5. QED BY <1>2, <1>3, <1>4 DEF CutterInv, ByteAccounting, RunTracked

LEMMA FlushKeeps ==
  ASSUME CutterInv, Idle \/ Final
  PROVE  CutterInv'
<1>1. now \in Int /\ FsmShape /\ TypeOK /\ ByteAccounting
  BY DEF CutterInv, TypeOK
<1>2. /\ CheckIdle(now) \/ FlushFinal
      /\ CountEmitted
      /\ now' = now /\ fed' = fed /\ lastSeq' = lastSeq /\ run' = run
      /\ accepted' = accepted
      /\ done' => FlushFinal
      /\ done' \in BOOLEAN
  <2>1. CASE Idle
    <3>1. done' = FALSE
      BY <1>1, <2>1 DEF Idle, TypeOK
    <3>2. QED BY <2>1, <3>1 DEF Idle
  <2>2. CASE Final
    BY <2>2 DEF Final
  <2>3. QED BY <2>1, <2>2
<1>3. /\ StepTypes /\ FsmShape' /\ Conserves(0, 0)
      /\ fsm'.active => fsm' = fsm
      /\ FlushFinal => fsm'.total_length = 0
  BY <1>1, <1>2, FlushStep
<1>4. TypeOK'
  BY <1>1, <1>2, <1>3, CountType DEF TypeOK, FsmTypeOK, StepTypes
<1>5. ByteAccounting'
  <2>1. accepted' = [b \in Bytes |-> accepted[b] + Hits(0, 0, b)]
    <3>1. \A b \in Bytes : Hits(0, 0, b) = 0
      BY CutterAssumption DEF Hits, CutterAssumption
    <3>2. accepted \in [Bytes -> Nat]
      BY <1>1 DEF TypeOK
    <3>3. QED BY <1>2, <3>1, <3>2
  <2>2. QED BY <1>1, <1>2, <1>3, <2>1, Balanced
<1>6. RunTracked'
  BY <1>2, <1>3 DEF RunTracked, CutterInv
<1>7. QED BY <1>2, <1>3, <1>4, <1>5, <1>6 DEF CutterInv

LEMMA OthersKeep ==
  ASSUME CutterInv, Tick \/ UNCHANGED vars
  PROVE  CutterInv'
<1>1. /\ fsm' = fsm /\ action' = action /\ out' = out /\ fed' = fed /\ done' = done
      /\ lastSeq' = lastSeq /\ run' = run
      /\ accepted' = accepted /\ emitted' = emitted
  BY DEF Tick, vars, history
<1>2. now' \in Nat
  BY CutterAssumption DEF CutterAssumption, CutterInv, TypeOK, Tick, vars
<1>3. QED BY <1>1, <1>2
  DEF CutterInv, TypeOK, FsmTypeOK, FsmShape, Tiling, ByteAccounting, RunTracked

LEMMA CutterInit == Init => CutterInv
<1> SUFFICES ASSUME Init PROVE CutterInv
  OBVIOUS
<1>1. FsmTypeOK
  BY NoTags DEF Init, FsmInit, FsmTypeOK, ResetFsm, FsmState, NoClip, ClipRecord,
                Modes, Actions
<1>2. TypeOK
  <2>1. run \in RunState
    BY DEF Init, NoRun, RunState
  <2>2. fed \in 0 .. MaxFed
    BY CutterAssumption DEF CutterAssumption, Init
  <2>3. QED BY <1>1, <2>1, <2>2 DEF Init, TypeOK
<1>3. fsm = ResetFsm
  BY DEF Init, FsmInit
<1>4. FsmShape /\ RunTracked /\ fsm.total_length = 0
  BY <1>1, <1>3 DEF FsmShape, RunTracked, Tiling, ResetFsm, FsmTypeOK
<1>5. ByteAccounting
  BY <1>3, CutterAssumption
  DEF CutterAssumption, Init, ByteAccounting, Hits, ResetFsm
<1>6. QED BY <1>2, <1>4, <1>5 DEF CutterInv

LEMMA CutterStep == CutterInv /\ [Next]_vars => CutterInv'
BY OpenKeeps, JoinKeeps, RejectKeeps, FlushKeeps, OthersKeep DEF Next

LEMMA CutterInvariant == Spec => []CutterInv
BY CutterInit, CutterStep, PTL DEF Spec

-----------------------------------------------------------------------------------
(* What follows from it.                                                         *)

\* Every variable keeps its type, for every row set and every window.
THEOREM TypeCorrect == Spec => []TypeOK
<1>1. CutterInv => TypeOK
  BY DEF CutterInv
<1>2. QED BY <1>1, CutterInvariant, PTL

\* The open clip ends where the next contiguous chunk must start.
THEOREM ClipsTile == Spec => []Tiling
<1>1. CutterInv => Tiling
  BY DEF CutterInv, FsmShape
<1>2. QED BY <1>1, CutterInvariant, PTL

\* No byte of an accepted row is lost, given out twice or invented, whatever the
\* rows, their order, the window and the idle checks.
THEOREM BytesConserved == Spec => []ByteAccounting
<1>1. CutterInv => ByteAccounting
  BY DEF CutterInv
<1>2. QED BY <1>1, CutterInvariant, PTL

\* After the final flush every accepted byte has been given out.
THEOREM NothingOwed == Spec => []AllGivenOut
<1>1. ASSUME CutterInv PROVE AllGivenOut
  <2> SUFFICES ASSUME done PROVE accepted = emitted
    BY DEF AllGivenOut
  <2>1. accepted \in [Bytes -> Nat] /\ emitted \in [Bytes -> Nat] /\ fsm \in FsmState
    BY <1>1 DEF CutterInv, TypeOK, FsmTypeOK
  <2>2. ASSUME NEW b \in Bytes PROVE accepted[b] = emitted[b]
    <3>1. Hits(fsm.start_offset, fsm.total_length, b) = 0
      BY <1>1, <2>1, NoHits, CutterAssumption DEF CutterInv, FsmState, CutterAssumption
    <3>2. accepted[b] = emitted[b] + Hits(fsm.start_offset, fsm.total_length, b)
      BY <1>1 DEF CutterInv, ByteAccounting
    <3>3. QED BY <2>1, <3>1, <3>2
  <2>3. QED BY <2>1, <2>2
<1>2. QED BY <1>1, CutterInvariant, PTL

\* A clip holds consecutively numbered rows only: a lost chunk always ends a clip.
THEOREM GapsEndClips == Spec => []NoHiddenGap
<1>1. CutterInv => NoHiddenGap
  BY DEF CutterInv, RunTracked, NoHiddenGap
<1>2. QED BY <1>1, CutterInvariant, PTL

-----------------------------------------------------------------------------------
(* Every step of the state machine is a step of ClipLedger or changes nothing    *)
(* that it sees.                                                                 *)

\* The regions given out and kept by the window test applied to f.
LEMMA WindowRegions ==
  ASSUME NEW f \in FsmState, MaybeEmitWindow(f)
  PROVE  /\ fsm'.start_offset \in Nat
         /\ fsm'.start_offset + fsm'.total_length = f.start_offset + f.total_length
         /\ f.start_offset <= fsm'.start_offset
         /\ fsm'.start_offset <= fsm'.start_offset + fsm'.total_length
         /\ Given(out') = Ledger!Region(f.start_offset, fsm'.start_offset)
<1>1. /\ fsm' \in FsmState /\ out' \in ClipRecord
      /\ f.start_offset <= fsm'.start_offset
      /\ fsm'.start_offset + fsm'.total_length = f.start_offset + f.total_length
      /\ out'.total_length = fsm'.start_offset - f.start_offset
      /\ out'.total_length # 0 => out'.start_offset = f.start_offset
  BY WindowStep
<1>2. /\ fsm'.start_offset \in Nat /\ fsm'.total_length \in Nat
      /\ f.start_offset \in Nat /\ out'.total_length \in Nat
  BY <1>1 DEF FsmState, ClipRecord
<1>3. Given(out') = Ledger!Region(f.start_offset, fsm'.start_offset)
  <2>1. CASE out'.total_length = 0
    BY <1>1, <1>2, <2>1 DEF Given, Ledger!Region, Ledger!Nothing
  <2>2. CASE out'.total_length # 0
    BY <1>1, <1>2, <2>2 DEF Given, Ledger!Region
  <2>3. QED BY <2>1, <2>2
<1>4. QED BY <1>1, <1>2, <1>3

\* Giving out the whole open clip.
LEMMA WholeRegion ==
  ASSUME FsmShape, out' = Snapshot(fsm)
  PROVE  Given(out') = Ledger!Region(fsm.start_offset, fsm.start_offset + fsm.total_length)
<1>1. out'.start_offset = fsm.start_offset /\ out'.total_length = fsm.total_length
  BY DEF Snapshot
<1>2. QED BY <1>1 DEF Given, Ledger!Region, Ledger!Nothing, FsmShape, FsmState

LEMMA NothingGiven == Given(NoClip) = <<0, 0>>
BY DEF Given, NoClip

LEMMA OpensRefines ==
  ASSUME FsmShape, NEW rec \in MetaRecord, NEW t \in Int, Opens(rec, t)
  PROVE  Ledger!Next
<1> DEFINE f == Started(rec, t)
<1>1. /\ f \in FsmState
      /\ f.start_offset = rec.offset /\ f.total_length = rec.length
      /\ rec.offset \in Nat /\ rec.length \in Nat
      /\ fsm.start_offset \in Nat /\ fsm.total_length \in Nat
  BY StartedType DEF Started, MetaRecord, FsmShape, FsmState
<1>2. CASE fsm.total_length = 0 /\ MaybeEmitWindow(f)
  <2> HIDE DEF f
  <2>1. Ledger!Reopen
    BY <1>1, <1>2, WindowRegions DEF Ledger!Reopen
  <2>2. QED BY <2>1 DEF Ledger!Next
<1>3. CASE CloseAtGap(rec, t)
  <2>1. fsm.total_length # 0 /\ out' = Snapshot(fsm) /\ fsm' = f
    BY <1>3 DEF CloseAtGap
  <2> HIDE DEF f
  <2>2. Ledger!Replace
    BY <1>1, <2>1, WholeRegion DEF Ledger!Replace
  <2>3. QED BY <2>2 DEF Ledger!Next
<1>4. CASE CutAtBoundary(rec, t)
  <2>1. /\ fsm.active /\ rec.offset = fsm.expected_offset
        /\ out' = Snapshot(fsm) /\ fsm' = f
    BY <1>4 DEF CutAtBoundary, Breaks
  <2>2. rec.offset = fsm.start_offset + fsm.total_length
    BY <2>1 DEF FsmShape, Tiling
  <2> HIDE DEF f
  <2>3. Ledger!Adjoin
    BY <1>1, <2>1, <2>2, WholeRegion DEF Ledger!Adjoin
  <2>4. QED BY <2>3 DEF Ledger!Next
<1>5. QED BY <1>2, <1>3, <1>4 DEF Opens, Begin, RestartEmpty, FsmShape

LEMMA JoinsRefines ==
  ASSUME FsmShape, NEW rec \in MetaRecord, NEW t \in Int, Joins(rec, t)
  PROVE  Ledger!Next
<1>1. PICK tags \in Retained(rec) :
        \/ MaybeEmitWindow(Appended(rec, t, tags))
        \/ fsm' = Appended(rec, t, tags) /\ out' = NoClip
  BY DEF Joins, AppendContinuous, AppendWithin
<1> DEFINE f == Appended(rec, t, tags)
<1>2. /\ f \in FsmState
      /\ f.start_offset = fsm.start_offset
      /\ f.total_length = fsm.total_length + rec.length
      /\ rec.length \in Nat
      /\ fsm.start_offset \in Nat /\ fsm.total_length \in Nat
  <2>1. f \in FsmState
    BY RetainedType, AppendedType DEF FsmShape
  <2>2. QED BY <2>1 DEF Appended, FsmShape, FsmState, MetaRecord
<1> HIDE DEF f
<1>3. CASE MaybeEmitWindow(f)
  <2>1. Ledger!Adjoin
    BY <1>2, <1>3, WindowRegions DEF Ledger!Adjoin
  <2>2. QED BY <2>1 DEF Ledger!Next
<1>4. CASE fsm' = f /\ out' = NoClip
  <2>1. Ledger!Adjoin
    BY <1>2, <1>4, NothingGiven DEF Ledger!Adjoin, Ledger!Region, Ledger!Nothing
  <2>2. QED BY <2>1 DEF Ledger!Next
<1>5. QED BY <1>1, <1>3, <1>4 DEF f

LEMMA FlushRefines ==
  ASSUME FsmShape, NEW t \in Int, CheckIdle(t) \/ FlushFinal
  PROVE  Ledger!Next
<1>1. CASE \E kind \in Emits : Holding /\ EmitWhole(kind)
  <2>1. Ledger!GiveAll
    BY <1>1, WholeRegion
    DEF Ledger!GiveAll, EmitWhole, Holding, ResetFsm, FsmShape, FsmState
  <2>2. QED BY <2>1 DEF Ledger!Next
<1>2. CASE EmitNothing
  <2>1. Ledger!Refuse
    BY <1>2, NothingGiven DEF Ledger!Refuse, Ledger!Nothing, EmitNothing
  <2>2. QED BY <2>1 DEF Ledger!Next
<1>3. QED BY <1>1, <1>2 DEF CheckIdle, FlushFinal, Emits

\* The state machine implements ClipLedger: one open gap-free region, given out
\* in file order and never skipped.
THEOREM CutterImplementsLedger == Spec => LedgerSpec
<1>1. Init => Ledger!Init
  BY NothingGiven DEF Init, FsmInit, ResetFsm, Ledger!Init, Ledger!Nothing
<1>2. ASSUME CutterInv, [Next]_vars PROVE [Ledger!Next]_Ledger!vars
  <2>1. FsmShape /\ now \in Int
    BY <1>2 DEF CutterInv, TypeOK
  <2>2. ASSUME NEW rec \in Records, Open(rec) \/ Join(rec) \/ Reject(rec)
        PROVE  Ledger!Next
    <3>1. rec \in MetaRecord
      BY CutterAssumption DEF CutterAssumption
    <3>2. CASE Open(rec)
      BY <2>1, <3>1, <3>2, OpensRefines DEF Open
    <3>3. CASE Join(rec)
      BY <2>1, <3>1, <3>3, JoinsRefines DEF Join
    <3>4. CASE Reject(rec)
      <4>1. Ledger!Refuse
        BY <3>4, NothingGiven DEF Reject, RejectLate, Ledger!Refuse, Ledger!Nothing
      <4>2. QED BY <4>1 DEF Ledger!Next
    <3>5. QED BY <2>2, <3>2, <3>3, <3>4
  <2>3. CASE Idle \/ Final
    BY <2>1, <2>3, FlushRefines DEF Idle, Final
  <2>4. CASE Tick \/ UNCHANGED vars
    BY <2>4 DEF Tick, vars, Ledger!vars
  <2>5. QED BY <1>2, <2>2, <2>3, <2>4 DEF Next
<1>3. QED BY <1>1, <1>2, CutterInvariant, PTL DEF Spec, LedgerSpec, Ledger!Spec

-----------------------------------------------------------------------------------
(* Order, windows and events.                                                    *)

\* While a clip is open only rows newer than the last accepted one are accepted.
THEOREM OldRowsRejected == Spec => LateRejectedWhileOpen
<1>1. ASSUME CutterInv, [Next]_vars, fsm.active, Accepts
      PROVE  lastSeq' > lastSeq
  <2>1. fsm.expected_seq = lastSeq + 1 /\ lastSeq \in Nat \cup {-1} /\ fsm \in FsmState
    BY <1>1 DEF CutterInv, RunTracked, TypeOK, FsmTypeOK
  <2>2. PICK rec \in Records : Open(rec) \/ Join(rec)
    <3>1. fed' # fed /\ action' # "REJECT_LATE"
      BY <1>1 DEF Accepts
    <3>2. QED BY <1>1, <3>1 DEF Next, Reject, RejectLate, Idle, Final, Tick, vars
  <2>3. rec \in MetaRecord /\ lastSeq' = rec.seq
    BY <2>2, CutterAssumption DEF CutterAssumption, Open, Join
  <2>4. ~IsLate(rec)
    BY <1>1, <2>2 DEF Open, Join, Opens, Joins, Begin, RestartEmpty, CloseAtGap,
                      CutAtBoundary, AppendContinuous, AppendWithin
  <2>5. QED BY <2>1, <2>3, <2>4 DEF IsLate, MetaRecord, FsmState
<1>2. QED BY <1>1, CutterInvariant, PTL DEF Spec, LateRejectedWhileOpen

LEMMA WithinWindowStep ==
  ASSUME CutterInv, WithinWindow, [Next]_vars
  PROVE  WithinWindow'
<1>1. FsmShape /\ now \in Int /\ fsm \in FsmState
  BY DEF CutterInv, TypeOK, FsmTypeOK
<1>2. CASE fsm' = fsm
  BY <1>2 DEF WithinWindow
<1>3. CASE ~fsm'.active
  BY <1>3 DEF WithinWindow
<1>4. ASSUME NEW rec \in MetaRecord, fsm' = Started(rec, now)
      PROVE  WithinWindow'
  BY <1>4 DEF WithinWindow, Started, MetaRecord
<1>5. ASSUME NEW f \in FsmState, MaybeEmitWindow(f),
             ~f.continuous => f.end_ts_ms - f.start_ts_ms < ClipMs
                                \/ f.end_ts_ms = f.start_ts_ms
      PROVE  WithinWindow'
  <2>1. fsm'.continuous = f.continuous
    BY <1>5, WindowStep
  <2>2. ~f.continuous => fsm' = f
    BY <1>5 DEF MaybeEmitWindow, WindowFull
  <2>3. QED BY <1>5, <2>1, <2>2 DEF WithinWindow
<1>6. ASSUME NEW rec \in Records, Open(rec) PROVE WithinWindow'
  <2>1. rec \in MetaRecord
    BY CutterAssumption DEF CutterAssumption
  <2>2. CASE MaybeEmitWindow(Started(rec, now))
    <3>1. Started(rec, now) \in FsmState
      BY <1>1, <2>1, StartedType
    <3>2. Started(rec, now).end_ts_ms = Started(rec, now).start_ts_ms
      BY DEF Started
    <3>3. QED BY <1>5, <2>2, <3>1, <3>2
  <2>3. QED BY <1>4, <1>6, <2>1, <2>2
            DEF Open, Opens, Begin, RestartEmpty, CloseAtGap, CutAtBoundary
<1>7. ASSUME NEW rec \in Records, Join(rec) PROVE WithinWindow'
  <2>1. rec \in MetaRecord
    BY CutterAssumption DEF CutterAssumption
  <2>2. CASE AppendContinuous(rec, now)
    <3>1. PICK tags \in Retained(rec) : MaybeEmitWindow(Appended(rec, now, tags))
      BY <2>2 DEF AppendContinuous
    <3>2. Appended(rec, now, tags) \in FsmState
      BY <1>1, <2>1, RetainedType, AppendedType
    <3>3. Appended(rec, now, tags).continuous
      BY <1>1, <2>2 DEF Appended, FsmState, AppendContinuous, Compatible
    <3>4. QED BY <1>5, <3>1, <3>2, <3>3
  <2>3. CASE AppendWithin(rec, now)
    <3>1. PICK tags \in Retained(rec) : fsm' = Appended(rec, now, tags)
      BY <2>3 DEF AppendWithin
    <3>2. fsm'.end_ts_ms = rec.ts_ms /\ fsm'.start_ts_ms = fsm.start_ts_ms
      BY <1>1, <3>1 DEF Appended, FsmState
    <3>3. rec.ts_ms - fsm.start_ts_ms < ClipMs
      BY <1>1, <2>1, <2>3, FsmAssumption
      DEF AppendWithin, PastWindow, FsmState, MetaRecord, FsmAssumption
    <3>4. QED BY <3>2, <3>3 DEF WithinWindow
  <2>4. QED BY <1>7, <2>2, <2>3 DEF Join, Joins
<1>8. ASSUME NEW rec \in Records, Reject(rec) PROVE WithinWindow'
  BY <1>2, <1>8 DEF Reject, RejectLate
<1>9. CASE Idle \/ Final
  BY <1>1, <1>2, <1>3, <1>9, FlushStep DEF Idle, Final
<1>10. CASE Tick \/ UNCHANGED vars
  BY <1>2, <1>10 DEF Tick, vars
<1>11. QED BY <1>6, <1>7, <1>8, <1>9, <1>10 DEF Next

\* A clip cut by timestamps spans less than the window.
THEOREM ClipsWithinWindow == Spec => []WithinWindow
<1>1. Init => WithinWindow
  BY DEF Init, FsmInit, ResetFsm, WithinWindow
<1>2. QED BY <1>1, WithinWindowStep, CutterInvariant, PTL DEF Spec

\* A steady run has a continuous clip open, so that every row is tested against
\* the window.
BacklogInv ==
  fsm.active /\ run.steady =>
    /\ fsm.continuous
    /\ fsm.total_length <= AlignedTarget(fsm.byte_rate, fsm.frame_align)

\* The window test leaves at most a window of what was at most two.
LEMMA WindowLeaves ==
  ASSUME NEW f \in FsmState, f.continuous, MaybeEmitWindow(f),
         f.total_length <= 2 * AlignedTarget(f.byte_rate, f.frame_align)
  PROVE  /\ fsm'.continuous
         /\ fsm'.total_length <= AlignedTarget(fsm'.byte_rate, fsm'.frame_align)
<1> DEFINE target == AlignedTarget(f.byte_rate, f.frame_align)
<1>1. target \in Nat /\ f.total_length \in Nat
  BY TargetType DEF FsmState
<1>2. /\ fsm'.continuous = f.continuous
      /\ AlignedTarget(fsm'.byte_rate, fsm'.frame_align) = target
  BY WindowStep
<1>3. CASE WindowFull(f)
  <2>1. fsm'.total_length = f.total_length - target
    BY <1>3 DEF MaybeEmitWindow, AfterWindow, FsmState
  <2> HIDE DEF target
  <2>2. QED BY <1>1, <1>2, <2>1 DEF target
<1>4. CASE ~WindowFull(f)
  <2>1. fsm' = f /\ (target = 0 \/ f.total_length < target)
    BY <1>1, <1>4 DEF MaybeEmitWindow, WindowFull
  <2> HIDE DEF target
  <2>2. QED BY <1>1, <1>2, <2>1 DEF target
<1>5. QED BY <1>3, <1>4

LEMMA BacklogStep ==
  ASSUME CutterInv, BacklogInv, [Next]_vars
  PROVE  BacklogInv'
<1>1. FsmShape /\ now \in Int /\ fsm \in FsmState /\ run \in RunState
  BY DEF CutterInv, TypeOK, FsmTypeOK
<1>2. CASE fsm' = fsm /\ run' = run
  BY <1>2 DEF BacklogInv
<1>3. CASE ~fsm'.active
  BY <1>3 DEF BacklogInv
<1>4. ASSUME NEW rec \in Records, Open(rec) PROVE BacklogInv'
  <2>1. rec \in MetaRecord
    BY CutterAssumption DEF CutterAssumption
  <2>2. run'.steady = Steady(rec)
    BY <1>4 DEF Open
  <2> DEFINE f == Started(rec, now)
             target == AlignedTarget(rec.byte_rate, Align(rec))
  <2>3. /\ f \in FsmState /\ f.continuous = rec.continuous
        /\ f.total_length = rec.length
        /\ AlignedTarget(f.byte_rate, f.frame_align) = target
    BY <1>1, <2>1, StartedType DEF Started
  <2>4. target \in Nat /\ rec.length \in Nat
    BY <2>1, TargetType DEF MetaRecord, Align
  <2>5. CASE MaybeEmitWindow(f)
    <3> SUFFICES ASSUME Steady(rec) PROVE BacklogInv'
      BY <2>2 DEF BacklogInv
    <3>1. f.continuous /\ rec.length <= target
      BY <2>3 DEF Steady
    <3> HIDE DEF f, target
    <3>2. f.total_length <= 2 * AlignedTarget(f.byte_rate, f.frame_align)
      BY <2>3, <2>4, <3>1
    <3>3. QED BY <2>3, <2>5, <3>1, <3>2, WindowLeaves DEF BacklogInv
  <2>6. CASE fsm' = f
    BY <2>2, <2>3, <2>6 DEF BacklogInv, Steady
  <2>7. QED BY <1>4, <2>5, <2>6
            DEF Open, Opens, Begin, RestartEmpty, CloseAtGap, CutAtBoundary
<1>5. ASSUME NEW rec \in Records, Join(rec) PROVE BacklogInv'
  <2>1. rec \in MetaRecord /\ fsm.active
    BY <1>5, CutterAssumption
    DEF CutterAssumption, Join, Joins, AppendContinuous, AppendWithin
  <2>2. run'.steady = (run.steady /\ Steady(rec) /\ Compatible(rec))
    BY <1>1, <1>5 DEF Join, RunState
  <2> SUFFICES ASSUME run.steady, Steady(rec), Compatible(rec) PROVE BacklogInv'
    BY <2>2 DEF BacklogInv
  <2>3. PICK tags \in Retained(rec) : MaybeEmitWindow(Appended(rec, now, tags))
    BY <1>5 DEF Join, Joins, AppendContinuous, AppendWithin
  <2> DEFINE f == Appended(rec, now, tags)
             target == AlignedTarget(fsm.byte_rate, fsm.frame_align)
  <2>4. f \in FsmState
    BY <1>1, <2>1, RetainedType, AppendedType
  <2>5. /\ f.continuous = fsm.continuous
        /\ f.total_length = fsm.total_length + rec.length
        /\ AlignedTarget(f.byte_rate, f.frame_align) = target
    BY <1>1 DEF Appended, FsmState
  <2>6. target \in Nat /\ rec.length \in Nat /\ fsm.total_length \in Nat
    BY <1>1, <2>1, TargetType DEF MetaRecord, FsmState
  <2>7. fsm.total_length <= target /\ fsm.continuous /\ rec.length <= target
    BY <2>1 DEF BacklogInv, Steady, Compatible
  <2> HIDE DEF f, target
  <2>8. f.total_length <= 2 * AlignedTarget(f.byte_rate, f.frame_align)
    BY <2>5, <2>6, <2>7
  <2>9. MaybeEmitWindow(f)
    BY <2>3 DEF f
  <2>10. QED BY <2>4, <2>5, <2>7, <2>8, <2>9, WindowLeaves DEF BacklogInv
<1>6. ASSUME NEW rec \in Records, Reject(rec) PROVE BacklogInv'
  BY <1>2, <1>6 DEF Reject, RejectLate, history
<1>7. CASE Idle \/ Final
  BY <1>1, <1>2, <1>3, <1>7, FlushStep DEF Idle, Final
<1>8. CASE Tick \/ UNCHANGED vars
  BY <1>2, <1>8 DEF Tick, vars, history
<1>9. QED BY <1>4, <1>5, <1>6, <1>7, <1>8 DEF Next

\* A continuous stream of chunks no longer than a window leaves at most one window
\* unemitted, for every byte rate and alignment.
THEOREM ContinuousKeepsUp == Spec => []NoBacklog
<1>1. Init => BacklogInv
  BY DEF Init, FsmInit, ResetFsm, BacklogInv
<1>2. BacklogInv => NoBacklog
  BY DEF BacklogInv, NoBacklog
<1>3. QED BY <1>1, <1>2, BacklogStep, CutterInvariant, PTL DEF Spec

\* What a set of kept tags must satisfy with respect to all the tags of the run.
Faithful(kept, all) ==
  /\ IsFiniteSet(all)
  /\ kept \subseteq all
  /\ Cardinality(all) <= MaxEvents => kept = all

EventsInv ==
  fsm.active => Faithful(fsm.events, run.tags) /\ fsm.boundary_mode = "metadata"

\* Dropping only what does not fit keeps a set faithful.
LEMMA RetainedFaithful ==
  ASSUME NEW rec \in MetaRecord, NEW all, Faithful(fsm.events, all),
         NEW tags \in Retained(rec)
  PROVE  Faithful(tags, all \cup rec.events)
<1> DEFINE both == all \cup rec.events
<1>1. IsFiniteSet(both)
  BY FS_Union DEF MetaRecord, TagSets, Faithful
<1>2. tags \subseteq fsm.events \cup rec.events
  BY DEF Retained
<1>3. fsm.events \subseteq all
  BY DEF Faithful
<1>4. ASSUME Cardinality(both) <= MaxEvents PROVE tags = both
  <2>1. Cardinality(all) <= MaxEvents
    <3>1. Cardinality(all) <= Cardinality(both)
      BY <1>1, FS_Subset
    <3>2. Cardinality(all) \in Nat /\ Cardinality(both) \in Nat
      BY <1>1, FS_CardinalityType DEF Faithful
    <3>3. QED BY <1>4, <3>1, <3>2, FsmAssumption DEF FsmAssumption
  <2>2. fsm.events = all
    BY <2>1 DEF Faithful
  <2>3. QED BY <1>4, <2>2 DEF Retained
<1>5. QED BY <1>1, <1>2, <1>3, <1>4 DEF Faithful

LEMMA TagSetFaithful ==
  ASSUME NEW tags \in TagSets
  PROVE  Faithful(tags, tags)
BY DEF Faithful, TagSets

\* A window cut empties both sets, any other outcome leaves them as they are.
LEMMA WindowFaithful ==
  ASSUME NEW f \in FsmState, f.boundary_mode = "metadata", MaybeEmitWindow(f),
         NEW tags, Faithful(f.events, tags)
  PROVE  Faithful(fsm'.events, TagsAfter(tags)) /\ fsm'.boundary_mode = "metadata"
<1>1. CASE WindowFull(f)
  <2>1. fsm'.events = {} /\ fsm'.boundary_mode = "metadata"
    BY <1>1 DEF MaybeEmitWindow, AfterWindow, FsmState
  <2>2. out'.boundary_mode = "continuous_byte_range"
    BY <1>1 DEF MaybeEmitWindow, WindowClip, Snapshot
  <2>3. QED BY <2>1, <2>2, NoTags, TagSetFaithful DEF TagsAfter
<1>2. CASE ~WindowFull(f)
  <2>1. fsm' = f /\ out'.boundary_mode = "metadata"
    BY <1>2 DEF MaybeEmitWindow, NoClip
  <2>2. QED BY <2>1 DEF TagsAfter
<1>3. QED BY <1>1, <1>2

LEMMA EventsStep ==
  ASSUME CutterInv, EventsInv, [Next]_vars
  PROVE  EventsInv'
<1>1. FsmShape /\ now \in Int /\ fsm \in FsmState /\ run \in RunState
  BY DEF CutterInv, TypeOK, FsmTypeOK
<1>2. CASE fsm' = fsm /\ run' = run
  BY <1>2 DEF EventsInv, Faithful
<1>3. CASE ~fsm'.active
  BY <1>3 DEF EventsInv
<1>4. ASSUME NEW rec \in Records, Open(rec) PROVE EventsInv'
  <2>1. rec \in MetaRecord
    BY CutterAssumption DEF CutterAssumption
  <2>2. run'.tags = TagsAfter(rec.events)
    BY <1>4 DEF Open
  <2> DEFINE f == Started(rec, now)
  <2>3. /\ f \in FsmState /\ f.events = rec.events /\ f.boundary_mode = "metadata"
        /\ rec.events \in TagSets
    BY <1>1, <2>1, StartedType DEF Started, MetaRecord
  <2> HIDE DEF f
  <2>4. CASE MaybeEmitWindow(f)
    BY <2>2, <2>3, <2>4, TagSetFaithful, WindowFaithful DEF EventsInv, Faithful
  <2>5. CASE fsm.active /\ out' = Snapshot(fsm) /\ fsm' = f
    <3>1. out'.boundary_mode = "metadata"
      BY <2>5 DEF Snapshot, EventsInv
    <3>2. run'.tags = rec.events
      BY <2>2, <3>1 DEF TagsAfter
    <3>3. QED BY <2>3, <2>5, <3>2, TagSetFaithful DEF EventsInv, Faithful
  <2>6. QED BY <1>4, <2>4, <2>5
            DEF f, Open, Opens, Begin, RestartEmpty, CloseAtGap, CutAtBoundary
<1>5. ASSUME NEW rec \in Records, Join(rec) PROVE EventsInv'
  <2>1. rec \in MetaRecord /\ fsm.active
    BY <1>5, CutterAssumption
    DEF CutterAssumption, Join, Joins, AppendContinuous, AppendWithin
  <2> DEFINE all == run.tags \cup rec.events
  <2>2. run'.tags = TagsAfter(all)
    BY <1>1, <1>5 DEF Join, RunState
  <2>3. PICK tags \in Retained(rec) :
          \/ MaybeEmitWindow(Appended(rec, now, tags))
          \/ fsm' = Appended(rec, now, tags) /\ out' = NoClip
    BY <1>5 DEF Join, Joins, AppendContinuous, AppendWithin
  <2> DEFINE f == Appended(rec, now, tags)
  <2>4. f \in FsmState
    BY <1>1, <2>1, RetainedType, AppendedType
  <2>5. f.events = tags /\ f.boundary_mode = "metadata"
    BY <1>1 DEF Appended, FsmState
  <2>6. Faithful(tags, all)
    BY <2>1, RetainedFaithful DEF EventsInv
  <2> HIDE DEF f, all
  <2>7. CASE MaybeEmitWindow(f)
    BY <2>2, <2>4, <2>5, <2>6, <2>7, WindowFaithful DEF EventsInv, Faithful
  <2>8. CASE fsm' = f /\ out' = NoClip
    <3>1. run'.tags = all
      BY <2>2, <2>8 DEF TagsAfter, NoClip
    <3>2. QED BY <2>5, <2>6, <2>8, <3>1 DEF EventsInv, Faithful
  <2>9. QED BY <2>3, <2>7, <2>8 DEF f
<1>6. ASSUME NEW rec \in Records, Reject(rec) PROVE EventsInv'
  BY <1>2, <1>6 DEF Reject, RejectLate, history
<1>7. CASE Idle \/ Final
  BY <1>1, <1>2, <1>3, <1>7, FlushStep DEF Idle, Final
<1>8. CASE Tick \/ UNCHANGED vars
  BY <1>2, <1>8 DEF Tick, vars, history
<1>9. QED BY <1>4, <1>5, <1>6, <1>7, <1>8 DEF Next

\* The open clip carries its own events only, and loses one only when they are
\* more than the event set holds.
THEOREM EventsFollowClips == Spec => []EventsBelong
<1>1. Init => EventsInv
  BY DEF Init, FsmInit, ResetFsm, EventsInv
<1>2. EventsInv => EventsBelong
  BY DEF EventsInv, EventsBelong, Faithful
<1>3. QED BY <1>1, <1>2, EventsStep, CutterInvariant, PTL DEF Spec
===================================================================================
