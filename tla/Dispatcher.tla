--------------------------------- MODULE Dispatcher ---------------------------------
(*******************************************************************************)
(* pipeline_dispatcher: the parent process that pipes stream_merge into        *)
(* log_parse into clip_store, waits for the three, and takes them down when it *)
(* is interrupted (src/applets/pipeline_dispatcher/pd_pipeline.c, pd_spawn.c,  *)
(* pd_signal.c).                                                               *)
(*                                                                             *)
(* The children are modelled by what the parent and their neighbours see: the  *)
(* pipe ends they hold, the records they pass on, and how they end.  A record  *)
(* stands for a clip that log_parse's filter lets through.                     *)
(*******************************************************************************)
EXTENDS Integers, FiniteSets

CONSTANTS
  PipeCap,     \* records a pipe holds
  MaxRecords,  \* bound: records stream_merge emits
  MaxSignals   \* bound: signals sent to the dispatcher

ASSUME DispatcherAssumption ==
  PipeCap \in Nat \ {0} /\ MaxRecords \in Nat /\ MaxSignals \in Nat

Stages == 1..3    \* stream_merge, log_parse, clip_store
Pipes  == 1..2    \* pipe j leads from stage j to stage j + 1
Parent == 0

OK == 0
SETUP_ERROR == 1
CHILD_ERROR == 3
INTERRUPTED == 130

VARIABLES
  pc, at,            \* where the parent is; the child its loop is at
  rc,                \* its exit code
  interrupted,       \* the flag its signal handler sets
  signals,           \* signals sent so far
  known,             \* stages s with children[s].pid > 0
  child, status,     \* state of each child process; how it ended
  readers, writers,  \* who holds an end of each pipe
  inPipe,            \* records in each pipe
  held,              \* records in log_parse's stdout buffer
  emitted, stored    \* records written by stream_merge, read by clip_store

parentVars == <<pc, at, rc, known>>
flow == <<inPipe, held, emitted, stored>>
ends == <<readers, writers>>
vars == <<parentVars, interrupted, signals, child, status, ends, flow>>

Init ==
  /\ pc = "pipe1" /\ at = 1 /\ rc = OK /\ known = {}
  /\ interrupted = FALSE /\ signals = 0
  /\ child = [s \in Stages |-> "none"] /\ status = [s \in Stages |-> "none"]
  /\ readers = [j \in Pipes |-> {}] /\ writers = [j \in Pipes |-> {}]
  /\ inPipe = [j \in Pipes |-> 0]
  /\ held = 0 /\ emitted = 0 /\ stored = 0

Goto(l) == pc' = l
Leave(code) == pc' = "exit" /\ rc' = code

Without(who) ==
  /\ readers' = [j \in Pipes |-> readers[j] \ {who}]
  /\ writers' = [j \in Pipes |-> writers[j] \ {who}]

-----------------------------------------------------------------------------------
(* The parent                                                                    *)

OpenPipe(j) ==
  /\ pc = (IF j = 1 THEN "pipe1" ELSE "pipe2")
  /\ \/ /\ readers' = [readers EXCEPT ![j] = {Parent}]
        /\ writers' = [writers EXCEPT ![j] = {Parent}]
        /\ Goto(IF j = 1 THEN "pipe2" ELSE "spawn")
        /\ UNCHANGED rc
     \/ Without(Parent) /\ Leave(SETUP_ERROR)
  /\ UNCHANGED <<at, known, interrupted, signals, child, status, flow>>

\* fork: the child holds what the parent holds.
Spawn ==
  /\ pc = "spawn"
  /\ \/ /\ child' = [child EXCEPT ![at] = "forked"]
        /\ known' = known \cup {at}
        /\ readers' = [j \in Pipes |-> readers[j] \cup {at}]
        /\ writers' = [j \in Pipes |-> writers[j] \cup {at}]
        /\ IF at = 3 THEN Goto("close") /\ at' = 1 ELSE at' = at + 1 /\ UNCHANGED pc
        /\ UNCHANGED rc
     \/ /\ rc' = SETUP_ERROR /\ Goto("cleanup") /\ at' = 1
        /\ UNCHANGED <<child, known, ends>>
  /\ UNCHANGED <<interrupted, signals, status, flow>>

\* Fault: the parent keeps its write ends.
CloseEnds_ReadOnly ==
  /\ pc = "close"
  /\ readers' = [j \in Pipes |-> readers[j] \ {Parent}]
  /\ Goto("check")
  /\ UNCHANGED <<at, rc, known, interrupted, signals, child, status, writers, flow>>

CloseEnds ==
  /\ pc = "close"
  /\ Without(Parent)
  /\ Goto("check")
  /\ UNCHANGED <<at, rc, known, interrupted, signals, child, status, flow>>

CheckInterrupted ==
  /\ pc = "check"
  /\ IF interrupted THEN rc' = INTERRUPTED /\ Goto("cleanup")
                    ELSE Goto("wait") /\ UNCHANGED rc
  /\ UNCHANGED <<at, known, interrupted, signals, child, status, ends, flow>>

\* pd_pipeline_cleanup
Cleanup ==
  /\ pc = "cleanup"
  /\ Without(Parent)
  /\ Goto("kill")
  /\ UNCHANGED <<at, rc, known, interrupted, signals, child, status, flow>>

\* Fault: off by one, the loop runs past the last child.
Onward_PastEnd(next) ==
  IF at > 3 THEN pc' = next /\ at' = 1 ELSE at' = at + 1 /\ UNCHANGED pc

\* The loop goes on to the next child, or to what follows it.
Onward(next) ==
  IF at = 3 THEN pc' = next /\ at' = 1 ELSE at' = at + 1 /\ UNCHANGED pc

\* waitpid finds the child alive and sleeps.
Block ==
  /\ pc = "wait" /\ child[at] # "zombie"
  /\ Goto("blocked")
  /\ UNCHANGED <<at, rc, known, interrupted, signals, child, status, ends, flow>>

\* Fault: the exit code of the last child stands.
Reap_LastCode ==
  /\ pc \in {"wait", "blocked"} /\ child[at] = "zombie"
  /\ child' = [child EXCEPT ![at] = "reaped"]
  /\ known' = known \ {at}
  /\ rc' = IF status[at] = "ok" THEN OK ELSE CHILD_ERROR
  /\ IF at = 3 THEN Goto("exit") /\ at' = 1 ELSE Goto("wait") /\ at' = at + 1
  /\ UNCHANGED <<interrupted, signals, status, ends, flow>>

\* Fault: a reaped child keeps its pid.
Reap_KeepPid ==
  /\ pc \in {"wait", "blocked"} /\ child[at] = "zombie"
  /\ child' = [child EXCEPT ![at] = "reaped"]
  /\ rc' = IF status[at] = "ok" THEN rc ELSE CHILD_ERROR
  /\ IF at = 3 THEN Goto("exit") /\ at' = 1 ELSE Goto("wait") /\ at' = at + 1
  /\ UNCHANGED <<known, interrupted, signals, status, ends, flow>>

\* waitpid returns a child.
Reap ==
  /\ pc \in {"wait", "blocked"} /\ child[at] = "zombie"
  /\ child' = [child EXCEPT ![at] = "reaped"]
  /\ known' = known \ {at}
  /\ rc' = IF status[at] = "ok" THEN rc ELSE CHILD_ERROR
  /\ IF at = 3 THEN Goto("exit") /\ at' = 1 ELSE Goto("wait") /\ at' = at + 1
  /\ UNCHANGED <<interrupted, signals, status, ends, flow>>

\* A child ends: its files are closed.
Ends(s, how) ==
  /\ child' = [child EXCEPT ![s] = "zombie"]
  /\ status' = [status EXCEPT ![s] = how]
  /\ Without(s)

\* pd_kill_children, first loop.  Until it has called execv a child has the
\* parent's handler, which only sets the child's own flag.
Kill ==
  /\ pc = "kill"
  /\ IF at \in known /\ child[at] = "running"
     THEN Ends(at, "signal")
     ELSE UNCHANGED <<child, status, ends>>
  /\ Onward("collect")
  /\ UNCHANGED <<rc, known, interrupted, signals, flow>>

\* Fault: the children are killed and not waited for.
Collect_NoWait ==
  /\ pc = "collect"
  /\ known' = known \ {at}
  /\ Onward("exit")
  /\ UNCHANGED <<rc, interrupted, signals, child, status, ends, flow>>

\* Its second loop: waitpid until the child is gone, whatever interrupts it.
Collect ==
  /\ pc = "collect"
  /\ at \in known => child[at] = "zombie"
  /\ child' = IF at \in known THEN [child EXCEPT ![at] = "reaped"] ELSE child
  /\ known' = known \ {at}
  /\ Onward("exit")
  /\ UNCHANGED <<rc, interrupted, signals, status, ends, flow>>

-----------------------------------------------------------------------------------
(* Signals                                                                       *)

\* SIGINT or SIGTERM to the dispatcher alone, or SIGINT to its whole group.  A
\* sleeping waitpid fails with EINTR and finds the flag set.
Interrupt(group) ==
  /\ signals < MaxSignals /\ pc # "exit"
  /\ signals' = signals + 1
  /\ interrupted' = TRUE
  /\ IF pc = "blocked" THEN Goto("kill") /\ at' = 1 /\ rc' = INTERRUPTED
                       ELSE UNCHANGED <<pc, at, rc>>
  /\ LET hit == IF group THEN {s \in Stages : child[s] = "running"} ELSE {}
     IN  /\ child' = [s \in Stages |-> IF s \in hit THEN "zombie" ELSE child[s]]
         /\ status' = [s \in Stages |-> IF s \in hit THEN "signal" ELSE status[s]]
         /\ readers' = [j \in Pipes |-> readers[j] \ hit]
         /\ writers' = [j \in Pipes |-> writers[j] \ hit]
  /\ UNCHANGED <<known, flow>>

-----------------------------------------------------------------------------------
(* The children                                                                  *)

\* dup2, close of all four ends, execv: stage s keeps the read end of pipe
\* s - 1 and the write end of pipe s.
Exec(s) ==
  /\ child[s] = "forked"
  /\ child' = [child EXCEPT ![s] = "running"]
  /\ readers' = [j \in Pipes |-> IF j = s - 1 THEN readers[j] ELSE readers[j] \ {s}]
  /\ writers' = [j \in Pipes |-> IF j = s THEN writers[j] ELSE writers[j] \ {s}]
  /\ UNCHANGED <<parentVars, interrupted, signals, status, flow>>

\* dup2 or execv failed, or the program found an error.
Fails(s) ==
  /\ child[s] \in {"forked", "running"}
  /\ Ends(s, "error")
  /\ UNCHANGED <<parentVars, interrupted, signals, flow>>

\* A write to a pipe that nobody reads raises SIGPIPE.
Broken(s) ==
  /\ child[s] = "running" /\ s \in Pipes /\ readers[s] = {}
  /\ s = 1 => emitted < MaxRecords
  /\ s = 2 => held > 0
  /\ Ends(s, "signal")
  /\ UNCHANGED <<parentVars, interrupted, signals, flow>>

\* stream_merge writes and flushes a clip.
Emit ==
  /\ child[1] = "running" /\ readers[1] # {}
  /\ emitted < MaxRecords /\ inPipe[1] < PipeCap
  /\ inPipe' = [inPipe EXCEPT ![1] = @ + 1]
  /\ emitted' = emitted + 1
  /\ UNCHANGED <<parentVars, interrupted, signals, child, status, ends, held, stored>>

\* The session ends and stream_merge with it.
SessionEnds ==
  /\ child[1] = "running"
  /\ Ends(1, "ok")
  /\ UNCHANGED <<parentVars, interrupted, signals, flow>>

\* log_parse reads a record; puts() leaves it in the stdout buffer.
Parse ==
  /\ child[2] = "running" /\ inPipe[1] > 0
  /\ inPipe' = [inPipe EXCEPT ![1] = @ - 1]
  /\ held' = held + 1
  /\ UNCHANGED <<parentVars, interrupted, signals, child, status, ends, emitted, stored>>

\* The buffer is full, or the input has ended and main flushes it.
Flush ==
  /\ child[2] = "running" /\ readers[2] # {}
  /\ held > 0 /\ inPipe[2] < PipeCap
  /\ held' = held - 1
  /\ inPipe' = [inPipe EXCEPT ![2] = @ + 1]
  /\ UNCHANGED <<parentVars, interrupted, signals, child, status, ends, emitted, stored>>

Store ==
  /\ child[3] = "running" /\ inPipe[2] > 0
  /\ inPipe' = [inPipe EXCEPT ![2] = @ - 1]
  /\ stored' = stored + 1
  /\ UNCHANGED <<parentVars, interrupted, signals, child, status, ends, held, emitted>>

\* End of file on an empty pipe that nobody writes; what was held is flushed.
EndOfInput(s) ==
  /\ child[s] = "running" /\ s > 1
  /\ inPipe[s - 1] = 0 /\ writers[s - 1] = {}
  /\ s = 2 => held = 0
  /\ Ends(s, "ok")
  /\ UNCHANGED <<parentVars, interrupted, signals, flow>>

-----------------------------------------------------------------------------------

ParentStep ==
  \/ \E j \in Pipes : OpenPipe(j)
  \/ Spawn \/ CloseEnds \/ CheckInterrupted \/ Cleanup
  \/ Block \/ Reap \/ Kill \/ Collect

Works(s) ==
  \/ Exec(s) \/ Broken(s) \/ EndOfInput(s)
  \/ s = 1 /\ Emit
  \/ s = 2 /\ (Parse \/ Flush)
  \/ s = 3 /\ Store

Next ==
  \/ ParentStep
  \/ \E group \in BOOLEAN : Interrupt(group)
  \/ SessionEnds
  \/ \E s \in Stages : Works(s) \/ Fails(s)

Spec == Init /\ [][Next]_vars

\* Processes that can run do.
Scheduled == WF_vars(ParentStep) /\ \A s \in Stages : WF_vars(Works(s))

\* A session that may go on for ever.
OpenSpec == Spec /\ Scheduled

\* Every session ends: the sentinel comes and stream_merge sees it.
FairSpec == OpenSpec /\ WF_vars(SessionEnds)

-----------------------------------------------------------------------------------
(* Properties                                                                    *)

TypeOK ==
  /\ pc \in {"pipe1", "pipe2", "spawn", "close", "check", "wait", "blocked",
             "cleanup", "kill", "collect", "exit"}
  /\ at \in Stages
  /\ rc \in {OK, SETUP_ERROR, CHILD_ERROR, INTERRUPTED}
  /\ interrupted \in BOOLEAN /\ signals \in Nat
  /\ known \subseteq Stages
  /\ child \in [Stages -> {"none", "forked", "running", "zombie", "reaped"}]
  /\ status \in [Stages -> {"none", "ok", "error", "signal"}]
  /\ readers \in [Pipes -> SUBSET (Stages \cup {Parent})]
  /\ writers \in [Pipes -> SUBSET (Stages \cup {Parent})]
  /\ inPipe \in [Pipes -> 0..PipeCap]
  /\ held \in Nat /\ emitted \in Nat /\ stored \in Nat

\* When the dispatcher exits no child of it runs and none is left unreaped,
\* whichever fork or pipe failed and whenever the signal came (pd_pipeline.c:
\* 37-43, 89-115; pd_spawn.c: 75-96).
NoOrphans ==
  pc = "exit" => \A s \in Stages : child[s] \in {"none", "reaped"}

\* Exit code 0 means that every record stream_merge wrote was read by
\* clip_store, and that no child failed (pd_spawn.c: 60-69).
SuccessIsComplete ==
  pc = "exit" /\ rc = OK =>
    stored = emitted /\ \A s \in Stages : status[s] = "ok"

\* A signal goes only to a pid that is still a child: never to one that was
\* reaped, which another process may have by now (pd_spawn.c: 70, 79-83).
KillsOwnChildren ==
  pc = "kill" => \A s \in known : child[s] \notin {"none", "reaped"}

\* The whole pipeline comes to its end when the session does: no child waits for
\* an end of file that a forgotten pipe end withholds (pd_pipeline.c: 110;
\* pd_spawn.c: 27-32).
Terminates == <>(pc = "exit")

\* A dispatcher that got SIGINT or SIGTERM cleans up and exits, even if the
\* session never ends.
InterruptEnds == interrupted ~> pc = "exit"
===================================================================================
