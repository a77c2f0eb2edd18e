------------------------------- MODULE StreamMerge -------------------------------
(*******************************************************************************)
(* The stream_merge process (src/applets/stream_merge/stream_merge.c) beside   *)
(* an ingestor that grows the session's sidecar file and ends the session with *)
(* the .pipeline_end sentinel.                                                 *)
(*                                                                             *)
(* The two share the directory only: the sidecar, the sentinel and the inotify *)
(* queues of the merger's two watches.  A sidecar line reaches the file in two *)
(* halves, so that a read may end inside a line.  Time is kept relative to the *)
(* present: the clock passed to the state machine is always 0 and Tick moves   *)
(* every remembered instant back, no further than the code can tell apart.     *)
(*******************************************************************************)
EXTENDS SmFsm, Sequences

CONSTANTS
  Lines,        \* the lines the ingestor will write, in order
  Skipped,      \* a line that is no "data" record or does not parse
  TickMs,       \* granularity of the clock
  PollMs,       \* longest poll of the main loop (1000)
  MetaWaitMs,   \* longest wait for the sidecar to appear (5000)
  MaxFaults     \* bound: failing system calls

ASSUME MergeAssumption ==
  /\ Lines \in Seq(MetaRecord \cup {Skipped})
  /\ TickMs \in Nat \ {0}
  /\ PollMs \in Nat
  /\ MetaWaitMs \in Nat
  /\ MaxFaults \in Nat

VARIABLES
  bin, meta, sentinel,  \* which of the session's files exist
  written,              \* half lines in the sidecar
  dirq, metaq,          \* events queued on the two watches
  watching,             \* the watches in place
  pc,                   \* where stream_merge_main is
  sawSentinel,          \* saw_sentinel
  revents,              \* the watches that poll reported
  read,                 \* half lines read into meta_buf so far
  parsed,               \* lines taken out of meta_buf so far
  left,                 \* time left of the current poll
  waitLeft,             \* time left to the deadline of the wait for the sidecar
  rc,                   \* exit status
  stdout,               \* the reader of the clip stream is alive
  lost,                 \* a clip could not be written
  faults                \* failed system calls so far

files  == <<bin, meta, sentinel, written>>
events == <<dirq, metaq, watching>>
merger == <<sawSentinel, revents, read, parsed, left, waitLeft>>
vars   == <<fsm, action, out, files, events, merger, pc, rc, stdout, lost, faults>>

PCs == {"open_bin", "watch_dir", "check_start", "open_meta", "wait", "wait_polling",
        "wait_consume", "wait_open", "watch_meta", "first_read", "first_parse",
        "poll", "polling", "consume_meta", "loop_read", "loop_parse", "consume_dir",
        "check_sentinel", "check_idle", "final_read", "final_parse", "flush", "done"}

Init ==
  /\ FsmInit
  /\ bin = FALSE /\ meta = FALSE /\ sentinel = FALSE
  /\ written = 0
  /\ dirq = {} /\ metaq = FALSE /\ watching = {}
  /\ pc = "open_bin"
  /\ sawSentinel = FALSE
  /\ revents = {}
  /\ read = 0 /\ parsed = 0
  /\ left = 0 /\ waitLeft = 0
  /\ rc = 0
  /\ stdout = TRUE /\ lost = FALSE
  /\ faults = 0

-----------------------------------------------------------------------------------
(* The ingestor (external contract: .docs/applets/stream-merge.md:19-45; the     *)
(* UDP demo server keeps it).                                                    *)

\* Closing a file that was open for writing queues an event on the directory
\* watch; an ingestor that keeps its file open queues none.
TouchesDir(kinds) ==
  \E e \in kinds : dirq' = IF "dir" \in watching THEN dirq \cup e ELSE dirq

CreateBin ==
  /\ ~bin
  /\ bin' = TRUE
  /\ TouchesDir({{}, {"file"}})
  /\ UNCHANGED <<meta, sentinel, written, metaq, watching, fsmVars, merger, pc, rc,
                 stdout, lost, faults>>

CreateMeta ==
  /\ bin /\ ~meta /\ ~sentinel
  /\ meta' = TRUE
  /\ TouchesDir({{}, {"file"}})
  /\ UNCHANGED <<bin, sentinel, written, metaq, watching, fsmVars, merger, pc, rc,
                 stdout, lost, faults>>

WriteHalfLine ==
  /\ meta /\ ~sentinel
  /\ written < 2 * Len(Lines)
  /\ written' = written + 1
  /\ metaq' = (metaq \/ "meta" \in watching)
  /\ TouchesDir({{}, {"file"}})
  /\ UNCHANGED <<bin, meta, sentinel, watching, fsmVars, merger, pc, rc, stdout, lost,
                 faults>>

EndSession ==
  /\ bin /\ ~sentinel
  /\ written % 2 = 0
  /\ sentinel' = TRUE
  /\ TouchesDir({{"sentinel"}})
  /\ UNCHANGED <<bin, meta, written, metaq, watching, fsmVars, merger, pc, rc, stdout,
                 lost, faults>>

\* The next stage of the pipeline goes away.
ReaderDies ==
  /\ stdout
  /\ stdout' = FALSE
  /\ UNCHANGED <<files, events, fsmVars, merger, pc, rc, lost, faults>>

-----------------------------------------------------------------------------------
(* Startup: stream_merge.c:234-311.                                              *)

Goto(from, to) == pc = from /\ pc' = to

Exit(from, status) == Goto(from, "done") /\ rc' = status

OpenBin ==
  /\ \/ bin /\ Goto("open_bin", "watch_dir") /\ UNCHANGED rc
     \/ ~bin /\ Exit("open_bin", 1)
  /\ UNCHANGED <<files, events, fsmVars, merger, stdout, lost, faults>>

WatchDir ==
  /\ Goto("watch_dir", "check_start")
  /\ watching' = watching \cup {"dir"}
  /\ UNCHANGED <<files, dirq, metaq, fsmVars, merger, rc, stdout, lost, faults>>

CheckStart ==
  /\ Goto("check_start", "open_meta")
  /\ sawSentinel' = sentinel
  /\ UNCHANGED <<files, events, fsmVars, revents, read, parsed, left, waitLeft, rc,
                 stdout, lost, faults>>

OpenMeta ==
  /\ \/ /\ meta
        /\ Goto("open_meta", "watch_meta")
        /\ UNCHANGED <<waitLeft, rc>>
     \/ /\ ~meta /\ sawSentinel
        /\ Exit("open_meta", 0)
        /\ UNCHANGED waitLeft
     \/ /\ ~meta /\ ~sawSentinel
        /\ Goto("open_meta", "wait")
        /\ waitLeft' = MetaWaitMs
        /\ UNCHANGED rc
  /\ UNCHANGED <<files, events, fsmVars, sawSentinel, revents, read, parsed, left,
                 stdout, lost, faults>>

\* Fault: the deadline is set anew for every poll.
Wait_NewDeadline ==
  /\ Goto("wait", "wait_polling")
  /\ left' = MetaWaitMs
  /\ UNCHANGED <<files, events, fsmVars, sawSentinel, revents, read, parsed, waitLeft, rc,
                 stdout, lost, faults>>

\* The poll that waits for the sidecar, or the end of the wait.
Wait ==
  /\ \/ waitLeft > 0 /\ Goto("wait", "wait_polling") /\ UNCHANGED rc
     \/ waitLeft = 0 /\ Exit("wait", 1)
  /\ left' = waitLeft
  /\ UNCHANGED <<files, events, fsmVars, sawSentinel, revents, read, parsed, waitLeft,
                 stdout, lost, faults>>

WaitReturns ==
  /\ \/ dirq # {} /\ Goto("wait_polling", "wait_consume")
     \/ dirq = {} /\ left = 0 /\ Goto("wait_polling", "wait_open")
  /\ UNCHANGED <<files, events, fsmVars, merger, rc, stdout, lost, faults>>

\* lp_consume_inotify_events: everything queued is read, the sentinel noticed.
\* A failing read is only logged.
Consume(from, to) ==
  /\ Goto(from, to)
  /\ \/ /\ dirq' = {}
        /\ sawSentinel' = (sawSentinel \/ "sentinel" \in dirq)
        /\ UNCHANGED faults
     \/ /\ faults < MaxFaults
        /\ faults' = faults + 1
        /\ UNCHANGED <<dirq, sawSentinel>>
  /\ UNCHANGED <<files, metaq, watching, fsmVars, revents, read, parsed, left, waitLeft,
                 rc, stdout, lost>>

WaitConsume == Consume("wait_consume", "wait_open")

\* Once the sentinel was seen the sidecar is not looked for any more.
WaitOpen ==
  /\ \/ sawSentinel /\ Exit("wait_open", 0)
     \/ ~sawSentinel /\ meta /\ Goto("wait_open", "watch_meta") /\ UNCHANGED rc
     \/ ~sawSentinel /\ ~meta /\ Goto("wait_open", "wait") /\ UNCHANGED rc
  /\ UNCHANGED <<files, events, fsmVars, merger, stdout, lost, faults>>

\* Fault: what was written before the watch was placed is not read.
WatchMeta_NoFirstDrain ==
  /\ Goto("watch_meta", "poll")
  /\ watching' = watching \cup {"meta"}
  /\ UNCHANGED <<files, dirq, metaq, fsmVars, merger, rc, stdout, lost, faults>>

WatchMeta ==
  /\ Goto("watch_meta", "first_read")
  /\ watching' = watching \cup {"meta"}
  /\ UNCHANGED <<files, dirq, metaq, fsmVars, merger, rc, stdout, lost, faults>>

-----------------------------------------------------------------------------------
(* drain_meta, called at three places: read to the end of the file, then take    *)
(* one complete line after the other.  A line without its newline stays.         *)

\* Fault: one read per wake-up instead of reading to the end of the file.
ReadMeta_OneChunk(from, to) ==
  /\ Goto(from, to)
  /\ read' = IF read < written THEN read + 1 ELSE read
  /\ UNCHANGED <<files, events, fsmVars, sawSentinel, revents, parsed, left, waitLeft, rc,
                 stdout, lost, faults>>

ReadMeta(from, to) ==
  /\ Goto(from, to)
  /\ read' = written
  /\ UNCHANGED <<files, events, fsmVars, sawSentinel, revents, parsed, left, waitLeft,
                 rc, stdout, lost, faults>>

\* Fault: a line is taken before its newline has arrived.
HasLine_Torn == 2 * parsed + 1 <= read

HasLine == 2 * (parsed + 1) <= read

\* emit_clip on what the state machine has just returned.  Without a reader the
\* process ends: by SIGPIPE, or with status 1 where that signal is ignored.
Emit(next) ==
  \/ /\ action' \notin Emits \/ stdout
     /\ pc' = next
     /\ UNCHANGED <<rc, lost>>
  \/ /\ action' \in Emits /\ ~stdout
     /\ pc' = "done"
     /\ rc' = 1
     /\ lost' = TRUE

\* Fault: a skipped line is left in the buffer.
ParseLine_KeepSkipped(here) ==
  /\ pc = here
  /\ HasLine
  /\ Lines[parsed + 1] # Skipped => ProcessRecord(Lines[parsed + 1], 0) /\ Emit(here)
  /\ Lines[parsed + 1] = Skipped => UNCHANGED <<fsmVars, pc, rc, lost>>
  /\ parsed' = IF pc' = here /\ Lines[parsed + 1] # Skipped THEN parsed + 1 ELSE parsed
  /\ UNCHANGED <<files, events, sawSentinel, revents, read, left, waitLeft, stdout,
                 faults>>

ParseLine(here) ==
  /\ pc = here
  /\ HasLine
  /\ \/ /\ Lines[parsed + 1] # Skipped
        /\ ProcessRecord(Lines[parsed + 1], 0)
        /\ Emit(here)
     \/ /\ Lines[parsed + 1] = Skipped
        /\ UNCHANGED <<fsmVars, pc, rc, lost>>
  /\ parsed' = IF pc' = here THEN parsed + 1 ELSE parsed
  /\ UNCHANGED <<files, events, sawSentinel, revents, read, left, waitLeft, stdout,
                 faults>>

NoMoreLines(from, to) ==
  /\ ~HasLine
  /\ Goto(from, to)
  /\ UNCHANGED <<files, events, fsmVars, merger, rc, stdout, lost, faults>>

\* Fault: no drain after the sentinel was seen.
LoopOrFinal_NoDrain == IF sawSentinel THEN "flush" ELSE "poll"

LoopOrFinal == IF sawSentinel THEN "final_read" ELSE "poll"

FirstDrain ==
  \/ ReadMeta("first_read", "first_parse")
  \/ ParseLine("first_parse")
  \/ NoMoreLines("first_parse", LoopOrFinal)

LoopDrain ==
  \/ ReadMeta("loop_read", "loop_parse")
  \/ ParseLine("loop_parse")
  \/ NoMoreLines("loop_parse", IF "dir" \in revents THEN "consume_dir" ELSE "check_sentinel")

FinalDrain ==
  \/ ReadMeta("final_read", "final_parse")
  \/ ParseLine("final_parse")
  \/ NoMoreLines("final_parse", "flush")

-----------------------------------------------------------------------------------
(* The main loop: stream_merge.c:315-357.                                        *)

Least(a, b) == IF a < b THEN a ELSE b

\* As long as the open clip still has before it is idle, at most PollMs.
PollTimeout ==
  LET idleLeft == IdleMs + fsm.last_chunk_wall_ms
  IN  IF fsm.active /\ idleLeft < PollMs THEN (IF idleLeft > 0 THEN idleLeft ELSE 0)
      ELSE PollMs

Poll ==
  /\ Goto("poll", "polling")
  /\ left' = PollTimeout
  /\ UNCHANGED <<files, events, fsmVars, sawSentinel, revents, read, parsed, waitLeft,
                 rc, stdout, lost, faults>>

Pending == (IF metaq THEN {"meta"} ELSE {}) \cup (IF dirq # {} THEN {"dir"} ELSE {})

\* Fault: poll waits for an event without a timeout.
PollReturns_NoTimeout ==
  /\ pc = "polling"
  /\ Pending # {}
  /\ revents' = Pending
  /\ pc' = IF "meta" \in Pending THEN "consume_meta" ELSE "consume_dir"
  /\ UNCHANGED <<files, events, fsmVars, sawSentinel, read, parsed, left, waitLeft, rc,
                 stdout, lost, faults>>

PollReturns ==
  /\ pc = "polling"
  /\ Pending # {} \/ left = 0
  /\ revents' = Pending
  /\ pc' = CASE "meta" \in Pending -> "consume_meta"
             [] Pending = {"dir"} -> "consume_dir"
             [] OTHER -> "check_sentinel"
  /\ UNCHANGED <<files, events, fsmVars, sawSentinel, read, parsed, left, waitLeft, rc,
                 stdout, lost, faults>>

\* The events of the sidecar's watch carry no name that matters.
ConsumeMeta ==
  /\ Goto("consume_meta", "loop_read")
  /\ \/ metaq' = FALSE /\ UNCHANGED faults
     \/ faults < MaxFaults /\ faults' = faults + 1 /\ UNCHANGED metaq
  /\ UNCHANGED <<files, dirq, watching, fsmVars, merger, rc, stdout, lost>>

ConsumeDir == Consume("consume_dir", "check_sentinel")

CheckSentinel ==
  /\ Goto("check_sentinel", "check_idle")
  /\ sawSentinel' = (sawSentinel \/ sentinel)
  /\ UNCHANGED <<files, events, fsmVars, revents, read, parsed, left, waitLeft, rc,
                 stdout, lost, faults>>

CheckIdleStep ==
  /\ pc = "check_idle"
  /\ CheckIdle(0)
  /\ Emit(LoopOrFinal)
  /\ UNCHANGED <<files, events, merger, stdout, faults>>

Flush ==
  /\ pc = "flush"
  /\ FlushFinal
  /\ Emit("done")
  /\ UNCHANGED <<files, events, merger, stdout, faults>>

\* open (other than ENOENT), inotify_add_watch, poll or read reports an error.
SyscallFails ==
  /\ pc \in {"watch_dir", "open_meta", "wait_polling", "watch_meta", "polling",
             "first_read", "loop_read", "final_read"}
  /\ faults < MaxFaults
  /\ faults' = faults + 1
  /\ pc' = "done"
  /\ rc' = 1
  /\ UNCHANGED <<files, events, fsmVars, merger, stdout, lost>>

MergerStep ==
  \/ OpenBin \/ WatchDir \/ CheckStart \/ OpenMeta
  \/ Wait \/ WaitReturns \/ WaitConsume \/ WaitOpen
  \/ WatchMeta \/ FirstDrain
  \/ Poll \/ PollReturns \/ ConsumeMeta \/ LoopDrain \/ ConsumeDir
  \/ CheckSentinel \/ CheckIdleStep
  \/ FinalDrain \/ Flush

IngestorStep == CreateBin \/ CreateMeta \/ WriteHalfLine \/ EndSession

-----------------------------------------------------------------------------------

Later(ms) == IF ms > TickMs THEN ms - TickMs ELSE 0

\* An instant is moved back no further than IdleMs before the present.
Earlier(t) == IF t - TickMs > -IdleMs THEN t - TickMs ELSE -IdleMs

Tick ==
  /\ pc # "done"
  /\ left' = Later(left)
  /\ waitLeft' = Later(waitLeft)
  /\ fsm' = IF fsm.active THEN [fsm EXCEPT !.last_chunk_wall_ms = Earlier(@)] ELSE fsm
  /\ UNCHANGED <<files, events, action, out, sawSentinel, revents, read, parsed, pc,
                 rc, stdout, lost, faults>>

Next == MergerStep \/ IngestorStep \/ ReaderDies \/ SyscallFails \/ Tick

Spec == Init /\ [][Next]_vars

\* The merger is scheduled and time passes; nothing is assumed of the ingestor.
FairSpec == Spec /\ WF_vars(MergerStep) /\ WF_vars(Tick)

-----------------------------------------------------------------------------------

Looping == {"poll", "polling", "consume_meta", "loop_read", "loop_parse",
            "consume_dir", "check_sentinel", "check_idle"}

TypeOK ==
  /\ FsmTypeOK
  /\ {bin, meta, sentinel, metaq, sawSentinel, stdout, lost} \subseteq BOOLEAN
  /\ written \in 0 .. 2 * Len(Lines)
  /\ dirq \subseteq {"file", "sentinel"}
  /\ watching \subseteq {"dir", "meta"}
  /\ revents \subseteq {"dir", "meta"}
  /\ pc \in PCs
  /\ read \in 0 .. written
  /\ parsed \in Nat /\ 2 * parsed <= read
  /\ left \in Nat /\ waitLeft \in Nat
  /\ rc \in {0, 1}
  /\ faults \in 0 .. MaxFaults

\* No lost wake-up: poll never waits while a line is unread or the session has
\* ended, because each watch is placed before the state it guards is first looked
\* at (stream_merge.c:241-248, 298-311) and emptied before it is looked at again
\* (337-340, 346-350).
PollSeesEverything ==
  pc = "polling" =>
    /\ read < written => metaq
    /\ sentinel => "sentinel" \in dirq

\* A clean exit of a merger that had the sidecar open leaves no complete line
\* unparsed, no byte in the state machine and no clip unwritten
\* (stream_merge.c:359-368).
CleanExitIsComplete ==
  pc = "done" /\ rc = 0 /\ "meta" \in watching =>
    2 * parsed = written /\ ~Holding /\ ~lost

\* With rows that are not empty and not cut by byte ranges, a poll that does not
\* wait at all always has an idle clip to flush: no busy loop.
NoWaitMeansFlush ==
  pc = "poll" /\ PollTimeout = 0 => Holding

\* man/stream_merge.1:15-17: "Processing ends when a .pipeline_end sentinel file
\* appears in the source directory, after which any remaining metadata is drained
\* and the final clip is flushed."  The wait for the sidecar ends when the
\* sentinel is seen, without looking for the sidecar again (stream_merge.c:275).
EndOfSessionDrains == pc = "done" /\ rc = 0 => 2 * parsed = written

\* The sentinel ends the merger, whatever it is doing.
SentinelTerminates == sentinel ~> (pc = "done")

\* The merger never stays in its startup: the wait for the sidecar is bounded.
StartupEnds == <>(pc \in Looping \cup {"done"})

\* A complete line in the sidecar is processed by a running merger.
LinesAreParsed ==
  \A i \in 1 .. Len(Lines) :
    (written >= 2 * i) /\ pc \in Looping ~> (parsed >= i \/ pc = "done")

\* Bytes never stay in the state machine: a pause of the stream flushes them.
BytesAreFlushed == []<>(~Holding \/ pc = "done")
===================================================================================
