---------------------------- MODULE StreamMergeProofs ----------------------------
(*******************************************************************************)
(* Proofs about StreamMerge, for all lines of the sidecar, all times and every *)
(* number of failing system calls.                                             *)
(*                                                                             *)
(* No wake-up is lost because what a watch has not queued is something that    *)
(* has not happened since it was last looked at: LinesAnnounced for the        *)
(* sidecar, EndAnnounced for the sentinel.  A clean exit is complete because   *)
(* the merger leaves its loop only once it knows of the sentinel, after which  *)
(* the sidecar no longer grows (EndKnown), and the drains that follow stop at  *)
(* its end (Drained).                                                          *)
(*******************************************************************************)
EXTENDS StreamMerge, SmFsmProofs

-----------------------------------------------------------------------------------
(* The invariant                                                                 *)

Startup == {"open_bin", "watch_dir", "check_start", "open_meta", "wait", "wait_polling",
            "wait_consume", "wait_open", "watch_meta"}

\* The watches are placed in order and stay.
Watches ==
  /\ pc \in Startup => "meta" \notin watching
  /\ pc \notin Startup \cup {"done"} => "meta" \in watching
  /\ pc \notin {"open_bin", "watch_dir", "done"} => "dir" \in watching

\* Before its end the merger has lost nothing and exits with no error.
Clean ==
  /\ pc # "done" => rc = 0 /\ ~lost
  /\ lost => rc = 1

\* What has not been read is announced on the watch of the sidecar.
LinesAnnounced ==
  pc \in {"first_parse", "poll", "polling", "consume_meta", "loop_parse", "consume_dir",
          "check_sentinel", "check_idle"}
  => (read < written => metaq)

\* The sentinel is known or announced on the watch of the directory.
EndAnnounced ==
  pc \notin {"open_bin", "watch_dir", "check_start", "done"} =>
    (sentinel => sawSentinel \/ "sentinel" \in dirq)

\* What the merger knows of the end of the session.  After it nothing is written.
EndKnown ==
  /\ sawSentinel \/ "sentinel" \in dirq => sentinel
  /\ sentinel => written % 2 = 0
  /\ pc \in {"poll", "polling", "consume_meta", "loop_read", "loop_parse", "consume_dir"}
       => ~sawSentinel
  /\ pc \in {"final_read", "final_parse", "flush"} => sentinel

\* What the last drain leaves.
Drained ==
  /\ pc = "final_parse" => read = written
  /\ pc = "flush" => 2 * parsed = written
  /\ pc = "done" /\ rc = 0 /\ "meta" \in watching =>
       sentinel /\ 2 * parsed = written /\ ~Holding

IInv ==
  /\ TypeOK
  /\ Watches
  /\ Clean
  /\ LinesAnnounced
  /\ EndAnnounced
  /\ EndKnown
  /\ Drained

-----------------------------------------------------------------------------------
(* Types                                                                         *)

LEMMA LineType ==
  ASSUME TypeOK, HasLine
  PROVE  parsed + 1 \in 1 .. Len(Lines) /\ Lines[parsed + 1] \in MetaRecord \cup {Skipped}
<1>1. Len(Lines) \in Nat /\ Lines \in [1 .. Len(Lines) -> MetaRecord \cup {Skipped}]
  BY MergeAssumption DEF MergeAssumption
<1>2. parsed + 1 \in 1 .. Len(Lines)
  BY <1>1 DEF TypeOK, HasLine
<1> QED
  BY <1>1, <1>2

LEMMA Counts ==
  ASSUME TypeOK
  PROVE  written \in Nat /\ read \in Nat /\ parsed \in Nat /\ 2 * parsed <= read /\ read <= written
<1>1. Len(Lines) \in Nat
  BY MergeAssumption DEF MergeAssumption
<1> QED
  BY <1>1 DEF TypeOK

\* One step of a drain: read to the end, take a line, or go on.
DrainStep(reading, parsing, next) ==
  ReadMeta(reading, parsing) \/ ParseLine(parsing) \/ NoMoreLines(parsing, next)

LEMMA DrainTypes ==
  ASSUME TypeOK, NEW reading \in PCs, NEW parsing \in PCs, NEW next \in PCs,
         DrainStep(reading, parsing, next)
  PROVE  TypeOK'
<1>1. CASE ReadMeta(reading, parsing) \/ NoMoreLines(parsing, next)
  <2>1. Len(Lines) \in Nat
    BY MergeAssumption DEF MergeAssumption
  <2>2. /\ UNCHANGED <<fsm, action, out, bin, meta, sentinel, written, dirq, metaq>>
        /\ UNCHANGED <<watching, sawSentinel, revents, parsed, left, waitLeft, rc>>
        /\ UNCHANGED <<stdout, lost, faults>>
        /\ pc' \in PCs /\ read' \in {read, written}
    BY <1>1 DEF ReadMeta, NoMoreLines, Goto, files, events, merger, fsmVars
  <2> QED
    BY <2>1, <2>2 DEF TypeOK, FsmTypeOK
<1>2. CASE ParseLine(parsing)
  <2>1. /\ UNCHANGED <<bin, meta, sentinel, written, dirq, metaq, watching>>
        /\ UNCHANGED <<sawSentinel, revents, read, left, waitLeft, stdout, faults>>
        /\ pc = parsing /\ HasLine
        /\ parsed' = IF pc' = parsing THEN parsed + 1 ELSE parsed
    BY <1>2 DEF ParseLine, files, events
  <2>2. FsmTypeOK'
    <3>1. CASE Lines[parsed + 1] # Skipped /\ ProcessRecord(Lines[parsed + 1], 0)
      <4>1. Lines[parsed + 1] \in MetaRecord
        BY <2>1, <3>1, LineType
      <4> QED
        BY <3>1, <4>1, ProcessTypes DEF TypeOK
    <3>2. CASE UNCHANGED fsmVars
      BY <3>2 DEF fsmVars, TypeOK, FsmTypeOK
    <3> QED
      BY <1>2, <3>1, <3>2 DEF ParseLine
  <2>3. /\ pc' \in {parsing, "done"}
        /\ rc' \in {rc, 1}
        /\ lost' \in {lost, TRUE}
    BY <1>2 DEF ParseLine, Emit
  <2>4. /\ parsed' \in Nat /\ 2 * parsed' <= read
        /\ rc' \in {0, 1} /\ pc' \in PCs
    <3>1. parsed' \in Nat /\ 2 * parsed' <= read
      BY <2>1, Counts DEF HasLine
    <3>2. rc' \in {0, 1} /\ pc' \in PCs
      BY <2>3 DEF TypeOK, PCs
    <3> QED
      BY <3>1, <3>2
  <2>5. lost' \in BOOLEAN
    BY <2>3, Zenon DEF TypeOK
  <2> QED
    BY <2>1, <2>2, <2>4, <2>5 DEF TypeOK
<1> QED
  BY <1>1, <1>2 DEF DrainStep

LEMMA ConsumeTypes ==
  ASSUME TypeOK, NEW from \in PCs, NEW to \in PCs, Consume(from, to)
  PROVE  TypeOK'
<1>1. /\ UNCHANGED <<fsm, action, out, bin, meta, sentinel, written, metaq, watching>>
      /\ UNCHANGED <<revents, read, parsed, left, waitLeft, rc, stdout, lost>>
      /\ pc' \in PCs
      /\ dirq' \in {{}, dirq}
  BY DEF Consume, Goto, files, fsmVars
<1>2. sawSentinel' \in BOOLEAN
  BY Zenon DEF Consume, TypeOK
<1>3. faults' \in 0 .. MaxFaults
  BY MergeAssumption DEF Consume, TypeOK, MergeAssumption
<1> QED
  BY <1>1, <1>2, <1>3 DEF TypeOK, FsmTypeOK

LEMMA EmitTypes ==
  ASSUME TypeOK, FsmTypeOK', NEW next \in PCs, Emit(next),
         UNCHANGED <<files, events, merger, stdout, faults>>
  PROVE  TypeOK'
<1>1. /\ UNCHANGED <<bin, meta, sentinel, written, dirq, metaq, watching>>
      /\ UNCHANGED <<sawSentinel, revents, read, parsed, left, waitLeft, stdout, faults>>
  BY DEF files, events, merger
<1>2. /\ pc' \in PCs /\ rc' \in {0, 1}
  BY DEF Emit, PCs, TypeOK
<1>3. lost' \in BOOLEAN
  BY Zenon DEF Emit, TypeOK
<1> QED
  BY <1>1, <1>2, <1>3 DEF TypeOK

LEMMA TickTypes == ASSUME TypeOK, Tick PROVE TypeOK'
<1>1. /\ UNCHANGED <<action, out, bin, meta, sentinel, written, dirq, metaq, watching>>
      /\ UNCHANGED <<sawSentinel, revents, read, parsed, pc, rc, stdout, lost, faults>>
  BY DEF Tick, files, events
<1>2. left' \in Nat /\ waitLeft' \in Nat
  <2>1. left \in Nat /\ waitLeft \in Nat /\ TickMs \in Nat
    BY MergeAssumption DEF TypeOK, MergeAssumption
  <2>2. left' = Later(left) /\ waitLeft' = Later(waitLeft)
    BY DEF Tick
  <2> QED
    BY <2>1, <2>2 DEF Later
<1>3. fsm' \in FsmState
  <2>1. Earlier(fsm.last_chunk_wall_ms) \in Int
    <3>1. fsm.last_chunk_wall_ms \in Int
      BY DEF TypeOK, FsmTypeOK, FsmState
    <3>2. TickMs \in Int /\ IdleMs \in Int
      BY MergeAssumption, FsmAssumption DEF MergeAssumption, FsmAssumption
    <3> QED
      BY <3>1, <3>2 DEF Earlier
  <2>2. \/ fsm' = fsm
        \/ fsm' = [fsm EXCEPT !.last_chunk_wall_ms = Earlier(fsm.last_chunk_wall_ms)]
    BY DEF Tick
  <2> QED
    BY <2>1, <2>2 DEF TypeOK, FsmTypeOK, FsmState
<1> QED
  BY <1>1, <1>2, <1>3 DEF TypeOK, FsmTypeOK

LEMMA IngestorTypes == ASSUME TypeOK, IngestorStep PROVE TypeOK'
<1>1. /\ UNCHANGED <<fsm, action, out, watching, sawSentinel, revents, read, parsed>>
      /\ UNCHANGED <<left, waitLeft, pc, rc, stdout, lost, faults>>
  BY DEF IngestorStep, CreateBin, CreateMeta, WriteHalfLine, EndSession, merger, fsmVars
<1>2. written' \in 0 .. 2 * Len(Lines) /\ written <= written'
  <2>1. Len(Lines) \in Nat
    BY MergeAssumption DEF MergeAssumption
  <2> QED
    BY <2>1 DEF IngestorStep, CreateBin, CreateMeta, WriteHalfLine, EndSession, TypeOK
<1>3. dirq' \subseteq {"file", "sentinel"}
  BY DEF IngestorStep, CreateBin, CreateMeta, WriteHalfLine, EndSession, TouchesDir, TypeOK
<1>4. {bin', meta', sentinel', metaq'} \subseteq BOOLEAN
  BY Zenon DEF IngestorStep, CreateBin, CreateMeta, WriteHalfLine, EndSession, TypeOK
<1> QED
  BY <1>1, <1>2, <1>3, <1>4 DEF TypeOK, FsmTypeOK

LEMMA StartupTypes ==
  ASSUME TypeOK,
         OpenBin \/ WatchDir \/ CheckStart \/ OpenMeta \/ Wait \/ WaitReturns \/ WaitOpen
           \/ WatchMeta
  PROVE  TypeOK'
<1>1. /\ UNCHANGED <<fsm, action, out, bin, meta, sentinel, written, dirq, metaq>>
      /\ UNCHANGED <<revents, read, parsed, stdout, lost, faults>>
  BY DEF OpenBin, WatchDir, CheckStart, OpenMeta, Wait, WaitReturns, WaitOpen, WatchMeta,
         files, events, merger, fsmVars
<1>2. /\ pc' \in PCs /\ rc' \in {rc, 0, 1}
      /\ watching' \in {watching, watching \cup {"dir"}, watching \cup {"meta"}}
      /\ sawSentinel' \in {sawSentinel, sentinel}
      /\ left' \in {left, waitLeft} /\ waitLeft' \in {waitLeft, MetaWaitMs}
  BY DEF OpenBin, WatchDir, CheckStart, OpenMeta, Wait, WaitReturns, WaitOpen, WatchMeta,
         files, events, merger, Goto, Exit, PCs
<1>3. sawSentinel' \in BOOLEAN
  BY <1>2, Zenon DEF TypeOK
<1> QED
  BY <1>1, <1>2, <1>3, MergeAssumption DEF TypeOK, FsmTypeOK, MergeAssumption

LEMMA LoopTypes ==
  ASSUME TypeOK,
         Poll \/ PollReturns \/ ConsumeMeta \/ CheckSentinel \/ SyscallFails \/ ReaderDies
  PROVE  TypeOK'
<1>1. /\ UNCHANGED <<fsm, action, out, bin, meta, sentinel, written, dirq, watching>>
      /\ UNCHANGED <<read, parsed, waitLeft, lost>>
  BY DEF Poll, PollReturns, ConsumeMeta, CheckSentinel, SyscallFails, ReaderDies,
         files, events, merger, fsmVars
<1>2. /\ pc' \in PCs /\ rc' \in {rc, 1}
      /\ faults' \in {faults, faults + 1} /\ (faults' # faults => faults < MaxFaults)
      /\ revents' \in {revents, Pending}
      /\ left' \in {left, PollTimeout}
  BY DEF Poll, PollReturns, ConsumeMeta, CheckSentinel, SyscallFails, ReaderDies,
         events, merger, Goto, PCs, TypeOK
<1>3. PollTimeout \in Nat
  BY MergeAssumption, FsmAssumption
  DEF PollTimeout, TypeOK, FsmTypeOK, FsmState, MergeAssumption, FsmAssumption
<1>4. /\ metaq' \in {metaq, FALSE} /\ sawSentinel' \in {sawSentinel, sawSentinel \/ sentinel}
      /\ stdout' \in {stdout, FALSE}
  BY DEF Poll, PollReturns, ConsumeMeta, CheckSentinel, SyscallFails, ReaderDies,
         events, merger
<1>5. {metaq', sawSentinel', stdout'} \subseteq BOOLEAN
  BY <1>4, Zenon DEF TypeOK
<1>6. Pending \subseteq {"dir", "meta"}
  BY DEF Pending
<1> QED
  BY <1>1, <1>2, <1>3, <1>5, <1>6, MergeAssumption DEF TypeOK, FsmTypeOK, MergeAssumption

LEMMA TypesKeep == TypeOK /\ [Next]_vars => TypeOK'
<1> SUFFICES ASSUME TypeOK, [Next]_vars PROVE TypeOK'
  OBVIOUS
<1>1. CASE OpenBin \/ WatchDir \/ CheckStart \/ OpenMeta \/ Wait \/ WaitReturns \/ WaitOpen
             \/ WatchMeta
  BY <1>1, StartupTypes
<1>2. CASE WaitConsume \/ ConsumeDir
  BY <1>2, ConsumeTypes DEF WaitConsume, ConsumeDir, PCs
<1>3. CASE FirstDrain \/ LoopDrain \/ FinalDrain
  <2>1. {"first_read", "first_parse", "loop_read", "loop_parse", "consume_dir",
         "check_sentinel", "final_read", "final_parse", "flush", LoopOrFinal} \subseteq PCs
    BY DEF LoopOrFinal, PCs
  <2>2. CASE FirstDrain
    BY <2>1, <2>2, DrainTypes DEF FirstDrain, DrainStep
  <2>3. CASE LoopDrain
    BY <2>1, <2>3, DrainTypes DEF LoopDrain, DrainStep
  <2>4. CASE FinalDrain
    BY <2>1, <2>4, DrainTypes DEF FinalDrain, DrainStep
  <2> QED
    BY <1>3, <2>2, <2>3, <2>4
<1>4. CASE Poll \/ PollReturns \/ ConsumeMeta \/ CheckSentinel \/ SyscallFails \/ ReaderDies
  BY <1>4, LoopTypes
<1>5. CASE CheckIdleStep \/ Flush
  <2>1. FsmTypeOK'
    BY <1>5, FlushTypes DEF CheckIdleStep, Flush, TypeOK
  <2> QED
    BY <1>5, <2>1, EmitTypes DEF CheckIdleStep, Flush, LoopOrFinal, PCs
<1>6. CASE IngestorStep
  BY <1>6, IngestorTypes
<1>7. CASE Tick
  BY <1>7, TickTypes
<1>8. CASE UNCHANGED vars
  BY <1>8 DEF vars, files, events, merger, TypeOK, FsmTypeOK
<1> QED
  BY <1>1, <1>2, <1>3, <1>4, <1>5, <1>6, <1>7, <1>8 DEF Next, MergerStep

-----------------------------------------------------------------------------------
(* Starts                                                                        *)

LEMMA MergeStarts == Init => IInv
<1> SUFFICES ASSUME Init PROVE IInv
  OBVIOUS
<1>1. FsmTypeOK
  BY NoClipType, ResetType DEF Init, FsmInit, FsmTypeOK, Actions
<1>2. {bin, meta, sentinel, metaq, sawSentinel, stdout, lost} \subseteq BOOLEAN
  BY DEF Init
<1>3. written \in 0 .. 2 * Len(Lines) /\ faults \in 0 .. MaxFaults
  <2>1. Len(Lines) \in Nat /\ MaxFaults \in Nat
    BY MergeAssumption DEF MergeAssumption
  <2> QED
    BY <2>1 DEF Init
<1>4. TypeOK
  BY <1>1, <1>2, <1>3 DEF Init, TypeOK, PCs
<1>5. Watches /\ Clean /\ LinesAnnounced /\ EndAnnounced /\ EndKnown /\ Drained
  BY DEF Init, Watches, Startup, Clean, LinesAnnounced, EndAnnounced, EndKnown, Drained
<1> QED
  BY <1>4, <1>5 DEF IInv

\* Startup: the watch of the directory, the first look for the sentinel, the wait
\* for the sidecar and the watch of the sidecar.
LEMMA StartupKeeps ==
  ASSUME IInv, TypeOK',
         OpenBin \/ WatchDir \/ CheckStart \/ OpenMeta \/ Wait \/ WaitReturns \/ WaitOpen
           \/ WatchMeta
  PROVE  IInv'
<1>1. UNCHANGED <<fsm, sentinel, written, dirq, metaq, read, parsed, lost>>
  BY DEF OpenBin, WatchDir, CheckStart, OpenMeta, Wait, WaitReturns, WaitOpen, WatchMeta,
         files, events, merger, fsmVars
<1>2. pc \in Startup /\ rc = 0 /\ ~lost /\ "meta" \notin watching
  BY DEF OpenBin, WatchDir, CheckStart, OpenMeta, Wait, WaitReturns, WaitOpen, WatchMeta,
         Goto, Exit, Startup, IInv, Clean, Watches
<1>3. Watches' /\ Clean'
  BY <1>1, <1>2 DEF OpenBin, WatchDir, CheckStart, OpenMeta, Wait, WaitReturns, WaitOpen,
         WatchMeta, events, Goto, Exit, Startup, IInv, Watches, Clean
<1>4. pc' \in Startup \cup {"first_read", "done"}
  BY DEF OpenBin, WatchDir, CheckStart, OpenMeta, Wait, WaitReturns, WaitOpen, WatchMeta,
         Goto, Exit, Startup
<1>5. LinesAnnounced'
  BY <1>4 DEF LinesAnnounced, Startup
<1>6. EndAnnounced'
  BY <1>1 DEF OpenBin, WatchDir, CheckStart, OpenMeta, Wait, WaitReturns, WaitOpen, WatchMeta,
         merger, Goto, Exit, IInv, EndAnnounced
<1>7. EndKnown'
  <2>1. sawSentinel' => sentinel
    BY DEF OpenBin, WatchDir, CheckStart, OpenMeta, Wait, WaitReturns, WaitOpen, WatchMeta,
           merger, IInv, EndKnown
  <2> QED
    BY <1>1, <1>4, <2>1 DEF IInv, EndKnown, Startup
<1>8. Drained'
  <2>1. pc' = "done" => "meta" \notin watching'
    BY <1>2 DEF OpenBin, WatchDir, CheckStart, OpenMeta, Wait, WaitReturns, WaitOpen,
           WatchMeta, events, Goto, Exit
  <2> QED
    BY <1>4, <2>1 DEF Drained, Startup
<1> QED
  BY <1>3, <1>5, <1>6, <1>7, <1>8 DEF IInv

-----------------------------------------------------------------------------------
(* Reads and events                                                              *)

\* What one step of a drain does, whatever the record makes of the state machine.
LEMMA DrainEffect ==
  ASSUME NEW reading, NEW parsing, NEW next, DrainStep(reading, parsing, next)
  PROVE  /\ UNCHANGED <<sentinel, written, dirq, metaq, watching, sawSentinel>>
         /\ \/ /\ pc = reading /\ pc' = parsing
               /\ read' = written /\ UNCHANGED <<fsm, parsed, rc, lost>>
            \/ /\ pc = parsing /\ pc' = parsing
               /\ UNCHANGED <<read, rc, lost>>
            \/ /\ pc = parsing /\ pc' = "done" /\ rc' = 1 /\ lost'
            \/ /\ pc = parsing /\ pc' = next /\ ~HasLine
               /\ UNCHANGED <<fsm, read, parsed, rc, lost>>
BY DEF DrainStep, ReadMeta, ParseLine, NoMoreLines, Emit, Goto, files, events, merger, fsmVars

LEMMA DrainKeeps ==
  ASSUME IInv, TypeOK', FirstDrain \/ LoopDrain \/ FinalDrain
  PROVE  IInv'
<1>1. CASE FirstDrain
  <2>1. DrainStep("first_read", "first_parse", LoopOrFinal)
    BY <1>1 DEF FirstDrain, DrainStep
  <2>2. Watches' /\ Clean'
    BY <2>1, DrainEffect DEF LoopOrFinal, IInv, Watches, Startup, Clean
  <2>3. LinesAnnounced'
    BY <2>1, DrainEffect, Counts DEF LoopOrFinal, IInv, LinesAnnounced
  <2>4. EndAnnounced' /\ EndKnown'
    BY <2>1, DrainEffect DEF LoopOrFinal, IInv, EndAnnounced, EndKnown
  <2>5. Drained'
    BY <2>1, DrainEffect DEF LoopOrFinal, IInv, Drained
  <2> QED
    BY <2>2, <2>3, <2>4, <2>5 DEF IInv
<1>2. CASE LoopDrain
  <2> DEFINE next == IF "dir" \in revents THEN "consume_dir" ELSE "check_sentinel"
  <2>1. DrainStep("loop_read", "loop_parse", next) /\ next \in {"consume_dir", "check_sentinel"}
    BY <1>2 DEF LoopDrain, DrainStep
  <2> HIDE DEF next
  <2>2. Watches' /\ Clean'
    BY <2>1, DrainEffect DEF IInv, Watches, Startup, Clean
  <2>3. LinesAnnounced'
    BY <2>1, DrainEffect, Counts DEF IInv, LinesAnnounced
  <2>4. EndAnnounced' /\ EndKnown'
    BY <2>1, DrainEffect DEF IInv, EndAnnounced, EndKnown
  <2>5. Drained'
    BY <2>1, DrainEffect DEF IInv, Drained
  <2> QED
    BY <2>2, <2>3, <2>4, <2>5 DEF IInv
<1>3. CASE FinalDrain
  <2>1. DrainStep("final_read", "final_parse", "flush")
    BY <1>3 DEF FinalDrain, DrainStep
  <2>2. Watches' /\ Clean' /\ LinesAnnounced'
    BY <2>1, DrainEffect DEF IInv, Watches, Startup, Clean, LinesAnnounced
  <2>3. EndAnnounced' /\ EndKnown'
    BY <2>1, DrainEffect DEF IInv, EndAnnounced, EndKnown
  <2>4. pc = "final_parse" /\ ~HasLine => 2 * parsed = written
    <3>1. pc = "final_parse" => sentinel /\ written % 2 = 0 /\ read = written
      BY DEF IInv, EndKnown, Drained
    <3> QED
      BY <3>1, Counts DEF IInv, HasLine
  <2>5. Drained'
    BY <2>1, <2>4, DrainEffect DEF IInv, Drained
  <2> QED
    BY <2>2, <2>3, <2>5 DEF IInv
<1> QED
  BY <1>1, <1>2, <1>3

LEMMA ConsumeKeeps ==
  ASSUME IInv, TypeOK', WaitConsume \/ ConsumeDir
  PROVE  IInv'
<1>1. /\ UNCHANGED <<fsm, sentinel, written, metaq, watching, read, parsed, rc, lost>>
      /\ \/ pc = "wait_consume" /\ pc' = "wait_open"
         \/ pc = "consume_dir" /\ pc' = "check_sentinel"
      /\ \/ dirq' = {} /\ sawSentinel' = (sawSentinel \/ "sentinel" \in dirq)
         \/ UNCHANGED <<dirq, sawSentinel>>
  BY DEF WaitConsume, ConsumeDir, Consume, Goto, files, fsmVars
<1>2. Watches' /\ Clean' /\ LinesAnnounced' /\ Drained'
  <2>1. Watches' /\ Clean'
    BY <1>1 DEF IInv, Watches, Startup, Clean
  <2>2. LinesAnnounced' /\ Drained'
    BY <1>1 DEF IInv, LinesAnnounced, Drained
  <2> QED
    BY <2>1, <2>2
<1>3. (sawSentinel \/ "sentinel" \in dirq) <=> (sawSentinel' \/ "sentinel" \in dirq')
  <2>1. CASE dirq' = {} /\ sawSentinel' = (sawSentinel \/ "sentinel" \in dirq)
    <3>1. sawSentinel' <=> (sawSentinel \/ "sentinel" \in dirq)
      BY <2>1, Zenon
    <3>2. "sentinel" \notin dirq'
      BY <2>1
    <3> QED
      BY <3>1, <3>2
  <2>2. CASE UNCHANGED <<dirq, sawSentinel>>
    BY <2>2
  <2> QED
    BY <1>1, <2>1, <2>2
<1>4. EndAnnounced'
  BY <1>1, <1>3 DEF IInv, EndAnnounced
<1>5. EndKnown'
  BY <1>1, <1>3 DEF IInv, EndKnown
<1> QED
  BY <1>2, <1>4, <1>5 DEF IInv

LEMMA LoopKeeps ==
  ASSUME IInv, TypeOK', Poll \/ PollReturns \/ ConsumeMeta \/ CheckSentinel
  PROVE  IInv'
<1>1. /\ UNCHANGED <<fsm, sentinel, written, dirq, watching, read, parsed, rc, lost>>
      /\ \/ /\ pc = "poll" /\ pc' = "polling"
            /\ UNCHANGED <<metaq, sawSentinel>>
         \/ /\ pc = "polling" /\ pc' \in {"consume_meta", "consume_dir", "check_sentinel"}
            /\ UNCHANGED <<metaq, sawSentinel>>
         \/ /\ pc = "consume_meta" /\ pc' = "loop_read"
            /\ UNCHANGED sawSentinel
         \/ /\ pc = "check_sentinel" /\ pc' = "check_idle"
            /\ sawSentinel' = (sawSentinel \/ sentinel) /\ UNCHANGED metaq
  BY DEF Poll, PollReturns, ConsumeMeta, CheckSentinel, Goto, files, events, merger, fsmVars
<1>2. Watches' /\ Clean'
  BY <1>1 DEF IInv, Watches, Startup, Clean
<1>3. LinesAnnounced' /\ Drained'
  BY <1>1 DEF IInv, LinesAnnounced, Drained
<1>4. sawSentinel' => sawSentinel \/ sentinel
  BY <1>1, Zenon
<1>5. sawSentinel => sawSentinel'
  BY <1>1, Zenon
<1>6. EndAnnounced'
  BY <1>1, <1>5 DEF IInv, EndAnnounced
<1>7. EndKnown'
  BY <1>1, <1>4 DEF IInv, EndKnown
<1> QED
  BY <1>2, <1>3, <1>6, <1>7 DEF IInv

LEMMA FlushKeeps ==
  ASSUME IInv, TypeOK', CheckIdleStep \/ Flush
  PROVE  IInv'
<1>1. UNCHANGED <<sentinel, written, dirq, metaq, watching, sawSentinel, read, parsed>>
  BY DEF CheckIdleStep, Flush, files, events, merger
<1>2. \/ pc = "check_idle" /\ pc' = LoopOrFinal /\ UNCHANGED <<rc, lost>>
      \/ pc = "flush" /\ pc' = "done" /\ ~Holding' /\ UNCHANGED <<rc, lost>>
      \/ pc \in {"check_idle", "flush"} /\ pc' = "done" /\ rc' = 1 /\ lost'
  <2>1. FlushFinal => ~Holding'
    BY DEF FlushFinal, EmitWhole, EmitNothing, Holding, ResetFsm
  <2> QED
    BY <2>1 DEF CheckIdleStep, Flush, Emit
<1>3. Watches' /\ Clean' /\ LinesAnnounced'
  BY <1>1, <1>2 DEF LoopOrFinal, IInv, Watches, Startup, Clean, LinesAnnounced
<1>4. EndAnnounced' /\ EndKnown'
  BY <1>1, <1>2 DEF LoopOrFinal, IInv, EndAnnounced, EndKnown
<1>5. Drained'
  BY <1>1, <1>2 DEF LoopOrFinal, IInv, EndKnown, Drained
<1> QED
  BY <1>3, <1>4, <1>5 DEF IInv

-----------------------------------------------------------------------------------
(* The rest of the world                                                         *)

LEMMA IngestorKeeps ==
  ASSUME IInv, TypeOK', IngestorStep
  PROVE  IInv'
<1>1. UNCHANGED <<fsm, watching, sawSentinel, read, parsed, pc, rc, lost>>
  BY DEF IngestorStep, CreateBin, CreateMeta, WriteHalfLine, EndSession, merger, fsmVars
<1>2. CASE CreateBin \/ CreateMeta \/ WriteHalfLine
  <2>1. /\ UNCHANGED sentinel
        /\ "sentinel" \in dirq' <=> "sentinel" \in dirq
        /\ \/ UNCHANGED <<written, metaq>>
           \/ ~sentinel /\ metaq' = (metaq \/ "meta" \in watching)
    BY <1>2 DEF CreateBin, CreateMeta, WriteHalfLine, TouchesDir
  <2>2. LinesAnnounced'
    <3>1. CASE UNCHANGED <<written, metaq>>
      BY <1>1, <3>1 DEF IInv, LinesAnnounced
    <3>2. CASE metaq' = (metaq \/ "meta" \in watching)
      <4>1. "meta" \in watching => metaq'
        BY <3>2, Zenon
      <4> QED
        BY <1>1, <4>1 DEF IInv, LinesAnnounced, Watches, Startup
    <3> QED
      BY <2>1, <3>1, <3>2
  <2>3. EndAnnounced' /\ EndKnown'
    BY <1>1, <2>1 DEF IInv, EndAnnounced, EndKnown
  <2>4. Drained'
    BY <1>1, <2>1 DEF IInv, EndKnown, Drained, Holding
  <2> QED
    BY <1>1, <2>2, <2>3, <2>4 DEF IInv, Watches, Clean
<1>3. CASE EndSession
  <2>1. /\ UNCHANGED <<written, metaq>> /\ sentinel' /\ written % 2 = 0
        /\ "dir" \in watching => "sentinel" \in dirq'
    BY <1>3 DEF EndSession, TouchesDir
  <2>2. LinesAnnounced' /\ EndAnnounced' /\ EndKnown'
    BY <1>1, <2>1 DEF IInv, LinesAnnounced, Watches, EndAnnounced, EndKnown
  <2>3. Drained'
    BY <1>1, <2>1 DEF IInv, Drained, Holding
  <2> QED
    BY <1>1, <2>2, <2>3 DEF IInv, Watches, Clean
<1> QED
  BY <1>2, <1>3 DEF IngestorStep

LEMMA OthersKeep ==
  ASSUME IInv, TypeOK', ReaderDies \/ SyscallFails \/ Tick
  PROVE  IInv'
<1>1. UNCHANGED <<sentinel, written, dirq, metaq, watching, sawSentinel, read, parsed, lost>>
  BY DEF ReaderDies, SyscallFails, Tick, files, events, merger
<1>2. \/ UNCHANGED <<fsm, pc, rc>>
      \/ UNCHANGED fsm /\ pc' = "done" /\ rc' = 1
      \/ pc # "done" /\ UNCHANGED <<pc, rc>>
  BY DEF ReaderDies, SyscallFails, Tick, fsmVars
<1>3. Watches' /\ Clean'
  BY <1>1, <1>2 DEF IInv, Watches, Startup, Clean
<1>4. LinesAnnounced' /\ EndAnnounced' /\ EndKnown'
  BY <1>1, <1>2 DEF IInv, LinesAnnounced, EndAnnounced, EndKnown
<1>5. Drained'
  BY <1>1, <1>2 DEF IInv, Drained, Holding
<1> QED
  BY <1>3, <1>4, <1>5 DEF IInv

LEMMA MergeKeeps == IInv /\ [Next]_vars => IInv'
<1> SUFFICES ASSUME IInv, [Next]_vars PROVE IInv'
  OBVIOUS
<1>1. TypeOK'
  BY TypesKeep DEF IInv
<1>2. CASE MergerStep
  BY <1>1, <1>2, StartupKeeps, DrainKeeps, ConsumeKeeps, LoopKeeps, FlushKeeps
  DEF MergerStep
<1>3. CASE IngestorStep
  BY <1>1, <1>3, IngestorKeeps
<1>4. CASE ReaderDies \/ SyscallFails \/ Tick
  BY <1>1, <1>4, OthersKeep
<1>5. CASE UNCHANGED vars
  <2>1. UNCHANGED <<fsm, sentinel, written, dirq, metaq, watching, sawSentinel, read,
                    parsed, pc, rc, lost>>
    BY <1>5 DEF vars, files, events, merger
  <2>2. Watches' /\ Clean' /\ LinesAnnounced' /\ EndAnnounced' /\ EndKnown' /\ Drained'
    BY <2>1 DEF IInv, Watches, Clean, LinesAnnounced, EndAnnounced, EndKnown, Drained, Holding
  <2> QED
    BY <1>1, <2>2 DEF IInv
<1> QED
  BY <1>2, <1>3, <1>4, <1>5 DEF Next

-----------------------------------------------------------------------------------
(* The results                                                                   *)

\* IInv holds of every session: however the files appear and grow, whatever time
\* passes, whichever call fails (stream_merge.c:234-368).
THEOREM MergeInvariant == Spec => []IInv
<1>1. Init => IInv
  BY MergeStarts
<1>2. IInv /\ [Next]_vars => IInv'
  BY MergeKeeps
<1> QED
  BY <1>1, <1>2, PTL DEF Spec

\* The merger stays within its types: no line is taken that was not read to its
\* end, none read that was not written (stream_merge.c:103-173).
THEOREM MergeType == Spec => []TypeOK
<1>1. IInv => TypeOK
  BY DEF IInv
<1> QED
  BY <1>1, MergeInvariant, PTL

\* poll never waits while a line is unread or the session has ended
\* (stream_merge.c:241-248, 298-311, 337-350).
THEOREM NoLostWakeUp == Spec => []PollSeesEverything
<1>1. IInv => PollSeesEverything
  BY DEF IInv, LinesAnnounced, EndAnnounced, EndKnown, PollSeesEverything
<1> QED
  BY <1>1, MergeInvariant, PTL

\* A clean exit of a merger that had the sidecar open leaves nothing behind
\* (stream_merge.c:359-368).
THEOREM NothingLeftBehind == Spec => []CleanExitIsComplete
<1>1. IInv => CleanExitIsComplete
  BY DEF IInv, Clean, Drained, CleanExitIsComplete
<1> QED
  BY <1>1, MergeInvariant, PTL

-----------------------------------------------------------------------------------
(* No busy loop                                                                  *)

\* Rows that hold bytes and are not cut by byte ranges, as the UDP ingestor writes
\* them.
PlainLines ==
  /\ PollMs > 0
  /\ \A i \in 1 .. Len(Lines) :
       Lines[i] # Skipped => Lines[i].length > 0 /\ ~Lines[i].continuous

\* An open clip then holds bytes.
OpenHolds == fsm.active => fsm.total_length > 0 /\ ~fsm.continuous

LEMMA PlainRowHolds ==
  ASSUME FsmTypeOK, OpenHolds, NEW rec \in MetaRecord, rec.length > 0, ~rec.continuous,
         ProcessRecord(rec, 0)
  PROVE  OpenHolds'
<1>1. fsm' \in {fsm, Started(rec, 0)} \/ \E tags \in Retained(rec) : fsm' = Appended(rec, 0, tags)
  <2>1. ~WindowFull(Started(rec, 0))
    BY DEF WindowFull, Started
  <2> QED
    BY <2>1
    DEF ProcessRecord, Opens, Joins, Begin, RestartEmpty, CloseAtGap, CutAtBoundary,
        AppendContinuous, AppendWithin, RejectLate, MaybeEmitWindow, Compatible
<1>2. CASE fsm' = fsm
  BY <1>2 DEF OpenHolds
<1>3. CASE fsm' = Started(rec, 0)
  BY <1>3 DEF OpenHolds, Started
<1>4. CASE \E tags \in Retained(rec) : fsm' = Appended(rec, 0, tags)
  <2>1. fsm \in FsmState /\ rec.length \in Nat
    BY DEF FsmTypeOK, MetaRecord
  <2>2. /\ fsm'.active = fsm.active /\ fsm'.continuous = fsm.continuous
        /\ fsm'.total_length = fsm.total_length + rec.length
    BY <1>4, <2>1 DEF Appended, FsmState
  <2>3. fsm.total_length \in Nat
    BY <2>1 DEF FsmState
  <2> QED
    BY <2>1, <2>2, <2>3 DEF OpenHolds
<1> QED
  BY <1>1, <1>2, <1>3, <1>4

LEMMA OpenHoldsStep ==
  ASSUME PlainLines, TypeOK, OpenHolds, [Next]_vars
  PROVE  OpenHolds'
<1>1. CASE UNCHANGED fsm
  BY <1>1 DEF OpenHolds
<1>2. CASE \E here \in PCs : ParseLine(here)
  <2>1. CASE Lines[parsed + 1] # Skipped /\ ProcessRecord(Lines[parsed + 1], 0)
    <3>1. /\ parsed + 1 \in 1 .. Len(Lines)
          /\ Lines[parsed + 1] \in MetaRecord
      BY <1>2, <2>1, LineType DEF ParseLine
    <3>2. Lines[parsed + 1].length > 0 /\ ~Lines[parsed + 1].continuous
      BY <2>1, <3>1 DEF PlainLines
    <3> QED
      BY <2>1, <3>1, <3>2, PlainRowHolds DEF TypeOK
  <2>2. CASE UNCHANGED fsmVars
    BY <1>1, <2>2 DEF fsmVars
  <2> QED
    BY <1>2, <2>1, <2>2 DEF ParseLine
<1>3. CASE CheckIdleStep \/ Flush
  <2>1. fsm' = fsm \/ fsm' = ResetFsm
    BY <1>3, FlushTypes DEF CheckIdleStep, Flush, TypeOK
  <2> QED
    BY <1>1, <2>1 DEF ResetFsm, OpenHolds
<1>4. CASE Tick
  <2>1. fsm' \in {fsm, [fsm EXCEPT !.last_chunk_wall_ms = Earlier(fsm.last_chunk_wall_ms)]}
    BY <1>4 DEF Tick
  <2>2. /\ fsm'.active = fsm.active /\ fsm'.total_length = fsm.total_length
        /\ fsm'.continuous = fsm.continuous
    BY <2>1 DEF TypeOK, FsmTypeOK, FsmState
  <2> QED
    BY <2>2 DEF OpenHolds
<1> QED
  <2>1. FirstDrain \/ LoopDrain \/ FinalDrain =>
          UNCHANGED fsm \/ \E here \in PCs : ParseLine(here)
    BY DEF FirstDrain, LoopDrain, FinalDrain, ReadMeta, NoMoreLines, fsmVars, PCs
  <2>2. OpenBin \/ WatchDir \/ CheckStart \/ OpenMeta \/ Wait \/ WaitReturns \/ WaitConsume
          \/ WaitOpen \/ WatchMeta \/ Poll \/ PollReturns \/ ConsumeMeta \/ ConsumeDir
          \/ CheckSentinel => UNCHANGED fsm
    BY DEF OpenBin, WatchDir, CheckStart, OpenMeta, Wait, WaitReturns, WaitConsume, WaitOpen,
           WatchMeta, Poll, PollReturns, ConsumeMeta, ConsumeDir, CheckSentinel, Consume, fsmVars
  <2>3. IngestorStep \/ ReaderDies \/ SyscallFails \/ UNCHANGED vars => UNCHANGED fsm
    BY DEF IngestorStep, CreateBin, CreateMeta, WriteHalfLine, EndSession, ReaderDies,
           SyscallFails, fsmVars, vars
  <2> QED
    BY <1>1, <1>2, <1>3, <1>4, <2>1, <2>2, <2>3 DEF Next, MergerStep

\* A poll that does not wait at all has an idle clip to flush (stream_merge.c:316-321;
\* sm_fsm.c:135-147).
THEOREM NoBusyLoop ==
  ASSUME PlainLines
  PROVE  Spec => []NoWaitMeansFlush
<1>1. Init => OpenHolds
  BY DEF Init, FsmInit, ResetFsm, OpenHolds
<1>2. TypeOK /\ OpenHolds /\ [Next]_vars => OpenHolds'
  BY OpenHoldsStep
<1>3. TypeOK /\ OpenHolds => NoWaitMeansFlush
  BY MergeAssumption
  DEF PlainLines, OpenHolds, NoWaitMeansFlush, PollTimeout, Holding, MergeAssumption,
      TypeOK, FsmTypeOK, FsmState
<1>4. Spec => []TypeOK
  BY MergeType
<1> QED
  BY <1>1, <1>2, <1>3, <1>4, PTL DEF Spec
===================================================================================
