----------------------------- MODULE DispatcherProofs -----------------------------
(*******************************************************************************)
(* Proofs about Dispatcher for every capacity of the pipes and every number of *)
(* records and signals.                                                        *)
(*                                                                             *)
(* The parent's loops are safe because the pids it knows are exactly those of  *)
(* the children it has not reaped (KnownAreUnreaped).  Exit code 0 is complete *)
(* because no record is lost while its stages end in order: a stage ends well  *)
(* only at the end of file, and that comes only when nobody can write any more *)
(* (ParentHolds, ChildrenHold), so nothing comes after it (Flow).              *)
(*******************************************************************************)
EXTENDS Dispatcher, TLAPS

USE DEF Stages, Pipes, Parent, OK, SETUP_ERROR, CHILD_ERROR, INTERRUPTED

-----------------------------------------------------------------------------------
(* The invariant                                                                 *)

Alive == {"forked", "running", "zombie"}

\* The pids the parent knows are those of the children that were not reaped.
KnownAreUnreaped == \A s \in Stages : s \in known <=> child[s] \in Alive

\* Where the loops of the parent are.
Progress ==
  /\ pc \in {"pipe1", "pipe2"} => \A s \in Stages : child[s] = "none"
  /\ pc \in {"pipe1", "pipe2", "close", "check"} => at = 1
  /\ pc = "spawn" =>
       \A s \in Stages : IF s < at THEN child[s] \in Alive ELSE child[s] = "none"
  /\ pc \in {"close", "check"} => \A s \in Stages : child[s] \in Alive
  /\ pc \in {"wait", "blocked"} => \A s \in Stages : child[s] \in Alive <=> s >= at
  /\ pc = "collect" => \A s \in Stages : s < at => s \notin known
  /\ pc = "exit" => known = {}

\* A status is there when the child has ended.
Statuses ==
  \A s \in Stages : status[s] = "none" <=> child[s] \in {"none", "forked", "running"}

\* The exit code is 0 only as long as nothing has failed.
Codes ==
  /\ pc \in {"cleanup", "kill", "collect"} => rc # OK
  /\ pc \in {"wait", "blocked"} /\ rc = OK =>
       \A s \in Stages : s < at => status[s] = "ok"
  /\ pc = "exit" /\ rc = OK => \A s \in Stages : status[s] = "ok"

\* The parent holds the write ends until the children have them, and none of them
\* while it waits.
ParentHolds ==
  /\ pc \in {"spawn", "close"} => \A j \in Pipes : Parent \in writers[j]
  /\ pc = "pipe2" => Parent \in writers[1]
  /\ pc \in {"check", "wait", "blocked", "kill", "collect", "exit"} =>
       \A j \in Pipes : Parent \notin writers[j]

\* A child holds every write end until execv, then the one it writes to.
ChildrenHold ==
  \A s \in Stages, j \in Pipes :
    /\ child[s] = "forked" => s \in writers[j]
    /\ child[s] = "running" => (s \in writers[j] <=> s = j)
    /\ child[s] \notin {"forked", "running"} => s \notin writers[j]

\* Every record is somewhere, and a stage that ended well left none behind it.
Flow ==
  /\ emitted = inPipe[1] + held + inPipe[2] + stored
  /\ status[2] = "ok" => inPipe[1] = 0 /\ held = 0 /\ writers[1] = {}
  /\ status[3] = "ok" => inPipe[2] = 0 /\ writers[2] = {}

IInv ==
  /\ TypeOK
  /\ KnownAreUnreaped
  /\ Progress
  /\ Statuses
  /\ Codes
  /\ ParentHolds
  /\ ChildrenHold
  /\ Flow

LEMMA DispatcherStarts == Init => IInv
<1> SUFFICES ASSUME Init PROVE IInv
  OBVIOUS
<1>1. TypeOK
  <2>1. PipeCap \in Nat
    BY DispatcherAssumption
  <2>2. inPipe \in [Pipes -> 0 .. PipeCap] /\ held \in Nat /\ emitted \in Nat /\ stored \in Nat
    BY <2>1 DEF Init
  <2>3. /\ child \in [Stages -> {"none", "forked", "running", "zombie", "reaped"}]
        /\ status \in [Stages -> {"none", "ok", "error", "signal"}]
        /\ readers \in [Pipes -> SUBSET (Stages \cup {Parent})]
        /\ writers \in [Pipes -> SUBSET (Stages \cup {Parent})]
    BY DEF Init
  <2>4. /\ pc = "pipe1" /\ at \in Stages /\ rc = OK /\ known \subseteq Stages
        /\ signals \in Nat
    BY DEF Init
  <2>5. interrupted \in BOOLEAN
    BY Zenon DEF Init
  <2> QED
    BY <2>2, <2>3, <2>4, <2>5 DEF TypeOK
<1>2. KnownAreUnreaped /\ Progress /\ Statuses /\ Codes
  <2>1. /\ pc = "pipe1" /\ at = 1 /\ known = {}
        /\ \A s \in Stages : child[s] = "none" /\ status[s] = "none"
    BY DEF Init
  <2> QED
    BY <2>1 DEF KnownAreUnreaped, Alive, Progress, Statuses, Codes
<1>3. ParentHolds /\ ChildrenHold
  BY DEF Init, ParentHolds, ChildrenHold
<1>4. Flow
  BY DEF Init, Flow
<1> QED
  BY <1>1, <1>2, <1>3, <1>4 DEF IInv

-----------------------------------------------------------------------------------
(* The parent sets the pipeline up                                               *)

LEMMA OpenPipeKeeps == ASSUME IInv, NEW j \in Pipes, OpenPipe(j) PROVE IInv'
<1>1. /\ pc = (IF j = 1 THEN "pipe1" ELSE "pipe2") /\ at = 1
      /\ j = 2 => Parent \in writers[1]
      /\ \A s \in Stages : child[s] = "none" /\ status[s] = "none"
      /\ known = {}
  <2>1. pc \in {"pipe1", "pipe2"} /\ pc = (IF j = 1 THEN "pipe1" ELSE "pipe2")
    BY DEF OpenPipe
  <2>2. at = 1 /\ \A s \in Stages : child[s] = "none"
    BY <2>1 DEF IInv, Progress
  <2>3. \A s \in Stages : status[s] = "none" /\ s \notin known
    BY <2>2 DEF IInv, Statuses, KnownAreUnreaped, Alive
  <2>4. j = 2 => Parent \in writers[1]
    BY <2>1 DEF IInv, ParentHolds
  <2>5. known = {}
    BY <2>3 DEF IInv, TypeOK
  <2> QED
    BY <2>1, <2>2, <2>3, <2>4, <2>5
<1>2. /\ UNCHANGED <<at, known, interrupted, signals, child, status, inPipe, held, emitted, stored>>
      /\ \/ /\ pc' = (IF j = 1 THEN "pipe2" ELSE "spawn") /\ rc' = rc
            /\ readers' = [readers EXCEPT ![j] = {Parent}]
            /\ writers' = [writers EXCEPT ![j] = {Parent}]
         \/ /\ pc' = "exit" /\ rc' = SETUP_ERROR
            /\ readers' = [i \in Pipes |-> readers[i] \ {Parent}]
            /\ writers' = [i \in Pipes |-> writers[i] \ {Parent}]
  BY DEF OpenPipe, Goto, Leave, Without, flow
<1>3. TypeOK'
  BY <1>1, <1>2 DEF IInv, TypeOK
<1>4. KnownAreUnreaped' /\ Statuses'
  BY <1>1, <1>2 DEF IInv, KnownAreUnreaped, Statuses
<1>5. Progress' /\ Codes'
  BY <1>1, <1>2 DEF Progress, Codes
<1>6. ParentHolds' /\ ChildrenHold'
  <2>1. \A s \in Stages, i \in Pipes : s \notin writers[i] /\ s \notin writers'[i]
    BY <1>1, <1>2 DEF IInv, TypeOK, ChildrenHold
  <2>3. CASE pc' = "exit"
    <3>1. \A i \in Pipes : Parent \notin writers'[i]
      BY <1>2, <2>3 DEF IInv, TypeOK
    <3> QED
      BY <1>1, <1>2, <2>1, <2>3, <3>1 DEF ParentHolds, ChildrenHold
  <2>2. CASE pc' # "exit"
    <3>1. \A i \in Pipes : writers'[i] = IF i = j THEN {Parent} ELSE writers[i]
      BY <1>2, <2>2 DEF IInv, TypeOK
    <3> QED
      BY <1>1, <1>2, <2>1, <2>2, <3>1 DEF ParentHolds, ChildrenHold
  <2> QED
    BY <2>2, <2>3
<1>7. Flow'
  BY <1>1, <1>2 DEF IInv, Flow
<1> QED
  BY <1>3, <1>4, <1>5, <1>6, <1>7 DEF IInv

LEMMA SpawnKeeps == ASSUME IInv, Spawn PROVE IInv'
<1>1. /\ pc = "spawn" /\ at \in Stages
      /\ \A s \in Stages : IF s < at THEN child[s] \in Alive ELSE child[s] = "none"
      /\ \A j \in Pipes : Parent \in writers[j]
  BY DEF Spawn, IInv, TypeOK, Progress, ParentHolds
<1>2. UNCHANGED <<interrupted, signals, status, inPipe, held, emitted, stored>>
  BY DEF Spawn, flow
<1>3. CASE /\ child' = [child EXCEPT ![at] = "forked"] /\ known' = known \cup {at}
           /\ readers' = [j \in Pipes |-> readers[j] \cup {at}]
           /\ writers' = [j \in Pipes |-> writers[j] \cup {at}]
           /\ pc' = (IF at = 3 THEN "close" ELSE "spawn")
           /\ at' = (IF at = 3 THEN 1 ELSE at + 1)
           /\ rc' = rc
  <2>1. TypeOK'
    <3>1. at' \in Stages
      BY <1>1, <1>3
    <3> QED
      BY <1>1, <1>2, <1>3, <3>1 DEF IInv, TypeOK
  <2>2. \A s \in Stages : child'[s] = IF s = at THEN "forked" ELSE child[s]
    BY <1>3 DEF IInv, TypeOK
  <2>3. KnownAreUnreaped' /\ Statuses'
    BY <1>1, <1>2, <1>3, <2>2 DEF IInv, KnownAreUnreaped, Statuses, Alive
  <2>4. Progress'
    <3>1. CASE at = 3
      <4>1. \A s \in Stages : child'[s] \in Alive
        BY <1>1, <2>2, <3>1 DEF Alive
      <4> QED
        BY <1>3, <3>1, <4>1 DEF Progress
    <3>2. CASE at # 3
      BY <1>1, <1>3, <2>2, <3>2 DEF Progress, Alive
    <3> QED
      BY <3>1, <3>2
  <2>5. Codes'
    BY <1>3 DEF Codes
  <2>6. ParentHolds' /\ ChildrenHold'
    BY <1>1, <1>3, <2>2 DEF IInv, ParentHolds, ChildrenHold
  <2>7. Flow'
    BY <1>1, <1>2, <1>3 DEF IInv, Flow
  <2> QED
    BY <2>1, <2>3, <2>4, <2>5, <2>6, <2>7 DEF IInv
<1>4. CASE /\ rc' = SETUP_ERROR /\ pc' = "cleanup" /\ at' = 1
           /\ UNCHANGED <<child, known, readers, writers>>
  <2>1. TypeOK'
    BY <1>2, <1>4 DEF IInv, TypeOK
  <2>2. KnownAreUnreaped' /\ Statuses' /\ ChildrenHold' /\ Flow'
    BY <1>2, <1>4 DEF IInv, KnownAreUnreaped, Statuses, ChildrenHold, Flow
  <2>3. Progress' /\ Codes' /\ ParentHolds'
    BY <1>4 DEF Progress, Codes, ParentHolds
  <2> QED
    BY <2>1, <2>2, <2>3 DEF IInv
<1> QED
  BY <1>1, <1>3, <1>4 DEF Spawn, Goto, ends

\* CloseEnds and Cleanup close what the parent holds, and nothing else.
LEMMA ClosingKeeps ==
  ASSUME IInv, pc \in {"close", "cleanup"}, Without(Parent),
         pc' = (IF pc = "close" THEN "check" ELSE "kill"),
         UNCHANGED <<at, rc, known, interrupted, signals, child, status, flow>>
  PROVE  IInv'
<1>1. /\ readers' = [j \in Pipes |-> readers[j] \ {Parent}]
      /\ writers' = [j \in Pipes |-> writers[j] \ {Parent}]
      /\ UNCHANGED <<inPipe, held, emitted, stored>>
  BY DEF Without, flow
<1>2. TypeOK'
  BY <1>1 DEF IInv, TypeOK
<1>3. KnownAreUnreaped' /\ Statuses' /\ Progress' /\ Codes'
  BY DEF IInv, KnownAreUnreaped, Statuses, Progress, Codes
<1>4. ParentHolds' /\ ChildrenHold' /\ Flow'
  BY <1>1 DEF IInv, ParentHolds, ChildrenHold, Flow
<1> QED
  BY <1>2, <1>3, <1>4 DEF IInv

\* CheckInterrupted and Block only move on.
LEMMA MovingOnKeeps ==
  ASSUME IInv, CheckInterrupted \/ Block
  PROVE  IInv'
<1>1. /\ UNCHANGED <<at, known, interrupted, signals, child, status>>
      /\ UNCHANGED <<readers, writers, inPipe, held, emitted, stored>>
      /\ \/ pc = "check" /\ pc' = "cleanup" /\ rc' = INTERRUPTED
         \/ pc = "check" /\ pc' = "wait" /\ rc' = rc
         \/ pc = "wait" /\ pc' = "blocked" /\ rc' = rc
  BY DEF CheckInterrupted, Block, Goto, ends, flow
<1>2. TypeOK'
  BY <1>1 DEF IInv, TypeOK
<1>3. KnownAreUnreaped' /\ Statuses' /\ ChildrenHold' /\ Flow'
  BY <1>1 DEF IInv, KnownAreUnreaped, Statuses, ChildrenHold, Flow
<1>4. Progress'
  BY <1>1 DEF IInv, Progress
<1>5. Codes' /\ ParentHolds'
  BY <1>1 DEF IInv, TypeOK, Progress, Codes, ParentHolds
<1> QED
  BY <1>2, <1>3, <1>4, <1>5 DEF IInv

-----------------------------------------------------------------------------------
(* The parent waits                                                              *)

LEMMA ReapKeeps == ASSUME IInv, Reap PROVE IInv'
<1>1. /\ pc \in {"wait", "blocked"} /\ at \in Stages /\ child[at] = "zombie"
      /\ UNCHANGED <<interrupted, signals, status, readers, writers>>
      /\ UNCHANGED <<inPipe, held, emitted, stored>>
      /\ known' = known \ {at}
      /\ rc' = (IF status[at] = "ok" THEN rc ELSE CHILD_ERROR)
      /\ pc' = (IF at = 3 THEN "exit" ELSE "wait")
      /\ at' = (IF at = 3 THEN 1 ELSE at + 1)
  BY DEF Reap, Goto, ends, flow, IInv, TypeOK
<1>2. /\ child' = [child EXCEPT ![at] = "reaped"]
      /\ \A s \in Stages : child'[s] = IF s = at THEN "reaped" ELSE child[s]
  BY DEF Reap, IInv, TypeOK
<1>3. at' \in Stages
  BY <1>1
<1>4. TypeOK'
  BY <1>1, <1>2, <1>3 DEF IInv, TypeOK
<1>5. KnownAreUnreaped' /\ Statuses' /\ ChildrenHold' /\ Flow'
  BY <1>1, <1>2 DEF IInv, KnownAreUnreaped, Alive, Statuses, ChildrenHold, Flow
<1>6. \A s \in Stages : child[s] \in Alive <=> s >= at
  BY <1>1 DEF IInv, Progress
<1>7. Progress'
  <2>1. CASE at = 3
    <3>1. \A s \in Stages : s \notin known'
      BY <1>1, <1>6, <2>1 DEF IInv, KnownAreUnreaped
    <3> QED
      BY <1>1, <1>4, <2>1, <3>1 DEF Progress, TypeOK
  <2>2. CASE at # 3
    BY <1>1, <1>2, <1>6, <2>2 DEF Progress, Alive
  <2> QED
    BY <2>1, <2>2
<1>8. Codes'
  <2>1. rc = OK => \A s \in Stages : s < at => status[s] = "ok"
    BY <1>1 DEF IInv, Codes
  <2>2. rc' = OK => \A s \in Stages : s <= at => status[s] = "ok"
    BY <1>1, <2>1
  <2> QED
    BY <1>1, <2>2 DEF Codes
<1>9. ParentHolds'
  BY <1>1 DEF IInv, ParentHolds
<1> QED
  BY <1>4, <1>5, <1>7, <1>8, <1>9 DEF IInv

LEMMA CollectKeeps == ASSUME IInv, Collect PROVE IInv'
<1>1. /\ pc = "collect" /\ at \in Stages
      /\ UNCHANGED <<rc, interrupted, signals, status, readers, writers>>
      /\ UNCHANGED <<inPipe, held, emitted, stored>>
      /\ known' = known \ {at}
      /\ pc' = (IF at = 3 THEN "exit" ELSE "collect")
      /\ at' = (IF at = 3 THEN 1 ELSE at + 1)
  BY DEF Collect, Onward, ends, flow, IInv, TypeOK
<1>2. at \in known => child[at] = "zombie"
  BY DEF Collect
<1>3. /\ child' \in [Stages -> {"none", "forked", "running", "zombie", "reaped"}]
      /\ \A s \in Stages : child'[s] = IF s = at /\ at \in known THEN "reaped" ELSE child[s]
  BY DEF Collect, IInv, TypeOK
<1>4. at' \in Stages
  BY <1>1
<1>5. TypeOK'
  BY <1>1, <1>3, <1>4 DEF IInv, TypeOK
<1>6. KnownAreUnreaped' /\ Statuses' /\ ChildrenHold' /\ Flow'
  BY <1>1, <1>2, <1>3 DEF IInv, KnownAreUnreaped, Alive, Statuses, ChildrenHold, Flow
<1>7. Progress'
  <2>1. \A s \in Stages : s <= at => s \notin known'
    BY <1>1 DEF IInv, Progress
  <2> QED
    BY <1>1, <1>5, <2>1 DEF Progress, TypeOK
<1>8. Codes' /\ ParentHolds'
  BY <1>1 DEF IInv, Codes, ParentHolds
<1> QED
  BY <1>5, <1>6, <1>7, <1>8 DEF IInv

-----------------------------------------------------------------------------------
(* Children end                                                                  *)

\* The children in "hit" end: by themselves, by kill() or by a signal to the group.
EndAll(hit, how) ==
  /\ child' = [s \in Stages |-> IF s \in hit THEN "zombie" ELSE child[s]]
  /\ status' = [s \in Stages |-> IF s \in hit THEN how ELSE status[s]]
  /\ readers' = [j \in Pipes |-> readers[j] \ hit]
  /\ writers' = [j \in Pipes |-> writers[j] \ hit]

\* What their end leaves as it was, wherever the parent is.
LEMMA EndingKeeps ==
  ASSUME IInv, NEW hit \in SUBSET Stages, NEW how \in {"ok", "error", "signal"},
         \A s \in hit : child[s] \in {"forked", "running"},
         how = "ok" => /\ 2 \in hit => inPipe[1] = 0 /\ held = 0 /\ writers[1] = {}
                       /\ 3 \in hit => inPipe[2] = 0 /\ writers[2] = {},
         EndAll(hit, how),
         UNCHANGED <<known, flow>>
  PROVE  /\ child' \in [Stages -> {"none", "forked", "running", "zombie", "reaped"}]
         /\ status' \in [Stages -> {"none", "ok", "error", "signal"}]
         /\ readers' \in [Pipes -> SUBSET (Stages \cup {Parent})]
         /\ writers' \in [Pipes -> SUBSET (Stages \cup {Parent})]
         /\ \A j \in Pipes : Parent \in writers'[j] <=> Parent \in writers[j]
         /\ \A s \in Stages : /\ child'[s] \in Alive <=> child[s] \in Alive
                              /\ child'[s] = "none" <=> child[s] = "none"
                              /\ status[s] = "ok" => status'[s] = "ok"
         /\ KnownAreUnreaped' /\ Statuses' /\ ChildrenHold' /\ Flow'
<1>1. /\ \A s \in Stages : /\ child'[s] = IF s \in hit THEN "zombie" ELSE child[s]
                           /\ status'[s] = IF s \in hit THEN how ELSE status[s]
      /\ \A j \in Pipes : writers'[j] = writers[j] \ hit
      /\ UNCHANGED <<inPipe, held, emitted, stored>>
  BY DEF EndAll, flow
<1>2. /\ child' \in [Stages -> {"none", "forked", "running", "zombie", "reaped"}]
      /\ status' \in [Stages -> {"none", "ok", "error", "signal"}]
      /\ readers' \in [Pipes -> SUBSET (Stages \cup {Parent})]
      /\ writers' \in [Pipes -> SUBSET (Stages \cup {Parent})]
  BY DEF EndAll, IInv, TypeOK
<1>3. \A j \in Pipes : Parent \in writers'[j] <=> Parent \in writers[j]
  BY <1>1
<1>4. \A s \in Stages : /\ child'[s] \in Alive <=> child[s] \in Alive
                        /\ child'[s] = "none" <=> child[s] = "none"
                        /\ status[s] = "ok" => status'[s] = "ok"
  BY <1>1 DEF IInv, Statuses, Alive
<1>5. KnownAreUnreaped' /\ Statuses' /\ ChildrenHold'
  BY <1>1, <1>4 DEF IInv, KnownAreUnreaped, Statuses, ChildrenHold
<1>6. Flow'
  BY <1>1 DEF IInv, Flow
<1> QED
  BY <1>2, <1>3, <1>4, <1>5, <1>6

\* A child ends while the parent goes on with what it does.
LEMMA ChildEndsKeeps ==
  ASSUME IInv, NEW s \in Stages, NEW how \in {"ok", "error", "signal"},
         child[s] \in {"forked", "running"},
         how = "ok" => /\ s = 2 => inPipe[1] = 0 /\ held = 0 /\ writers[1] = {}
                       /\ s = 3 => inPipe[2] = 0 /\ writers[2] = {},
         Ends(s, how),
         UNCHANGED <<parentVars, interrupted, signals, flow>>
  PROVE  IInv'
<1>1. EndAll({s}, how)
  <2>1. /\ DOMAIN child = Stages /\ child = [t \in Stages |-> child[t]]
        /\ DOMAIN status = Stages /\ status = [t \in Stages |-> status[t]]
    BY DEF IInv, TypeOK
  <2> QED
    BY <2>1 DEF Ends, Without, EndAll
<1>2. /\ UNCHANGED <<pc, at, rc, known, inPipe, held, emitted, stored>>
  BY DEF parentVars, flow
<1>3. /\ child' \in [Stages -> {"none", "forked", "running", "zombie", "reaped"}]
      /\ status' \in [Stages -> {"none", "ok", "error", "signal"}]
      /\ readers' \in [Pipes -> SUBSET (Stages \cup {Parent})]
      /\ writers' \in [Pipes -> SUBSET (Stages \cup {Parent})]
      /\ \A j \in Pipes : Parent \in writers'[j] <=> Parent \in writers[j]
      /\ \A t \in Stages : /\ child'[t] \in Alive <=> child[t] \in Alive
                           /\ child'[t] = "none" <=> child[t] = "none"
                           /\ status[t] = "ok" => status'[t] = "ok"
      /\ KnownAreUnreaped' /\ Statuses' /\ ChildrenHold' /\ Flow'
  BY <1>1, <1>2, EndingKeeps
<1>4. TypeOK'
  BY <1>2, <1>3 DEF IInv, TypeOK
<1>5. Progress' /\ Codes' /\ ParentHolds'
  BY <1>2, <1>3 DEF IInv, Progress, Codes, ParentHolds
<1> QED
  BY <1>3, <1>4, <1>5 DEF IInv

LEMMA SessionEndsKeeps == ASSUME IInv, SessionEnds PROVE IInv'
BY ChildEndsKeeps DEF SessionEnds

LEMMA FailsKeeps == ASSUME IInv, NEW s \in Stages, Fails(s) PROVE IInv'
BY ChildEndsKeeps DEF Fails

LEMMA BrokenKeeps == ASSUME IInv, NEW s \in Stages, Broken(s) PROVE IInv'
BY ChildEndsKeeps DEF Broken

LEMMA EndOfInputKeeps == ASSUME IInv, NEW s \in Stages, EndOfInput(s) PROVE IInv'
BY ChildEndsKeeps DEF EndOfInput

LEMMA KillKeeps == ASSUME IInv, Kill PROVE IInv'
<1>1. /\ pc = "kill" /\ at \in Stages
      /\ UNCHANGED <<rc, known, interrupted, signals, inPipe, held, emitted, stored>>
      /\ pc' = (IF at = 3 THEN "collect" ELSE "kill")
      /\ at' = (IF at = 3 THEN 1 ELSE at + 1)
  BY DEF Kill, Onward, flow, IInv, TypeOK
<1>2. PICK hit \in SUBSET Stages :
        EndAll(hit, "signal") /\ \A s \in hit : child[s] \in {"forked", "running"}
  <2>1. CASE at \in known /\ child[at] = "running"
    <3>1. EndAll({at}, "signal")
      BY <2>1 DEF Kill, Ends, Without, EndAll, IInv, TypeOK
    <3> QED
      BY <1>1, <2>1, <3>1
  <2>2. CASE ~(at \in known /\ child[at] = "running")
    <3>1. EndAll({}, "signal")
      BY <2>2 DEF Kill, ends, EndAll, IInv, TypeOK
    <3> QED
      BY <3>1
  <2> QED
    BY <2>1, <2>2
<1>3. /\ child' \in [Stages -> {"none", "forked", "running", "zombie", "reaped"}]
      /\ status' \in [Stages -> {"none", "ok", "error", "signal"}]
      /\ readers' \in [Pipes -> SUBSET (Stages \cup {Parent})]
      /\ writers' \in [Pipes -> SUBSET (Stages \cup {Parent})]
      /\ \A j \in Pipes : Parent \in writers'[j] <=> Parent \in writers[j]
      /\ KnownAreUnreaped' /\ Statuses' /\ ChildrenHold' /\ Flow'
  BY <1>1, <1>2, EndingKeeps DEF flow
<1>4. at' \in Stages
  BY <1>1
<1>5. TypeOK'
  BY <1>1, <1>3, <1>4 DEF IInv, TypeOK
<1>6. Progress'
  BY <1>1 DEF Progress
<1>7. Codes' /\ ParentHolds'
  BY <1>1, <1>3 DEF IInv, Codes, ParentHolds
<1> QED
  BY <1>3, <1>5, <1>6, <1>7 DEF IInv

LEMMA InterruptKeeps == ASSUME IInv, NEW group \in BOOLEAN, Interrupt(group) PROVE IInv'
<1>1. /\ pc # "exit" /\ signals' = signals + 1 /\ interrupted' = TRUE
      /\ UNCHANGED <<known, inPipe, held, emitted, stored>>
      /\ IF pc = "blocked" THEN pc' = "kill" /\ at' = 1 /\ rc' = INTERRUPTED
                           ELSE UNCHANGED <<pc, at, rc>>
  BY DEF Interrupt, Goto, flow
<1>2. PICK hit \in SUBSET Stages :
        EndAll(hit, "signal") /\ \A s \in hit : child[s] \in {"forked", "running"}
  <2> DEFINE group_hit == IF group THEN {s \in Stages : child[s] = "running"} ELSE {}
  <2>1. EndAll(group_hit, "signal")
    BY DEF Interrupt, EndAll
  <2> QED
    BY <2>1
<1>3. /\ child' \in [Stages -> {"none", "forked", "running", "zombie", "reaped"}]
      /\ status' \in [Stages -> {"none", "ok", "error", "signal"}]
      /\ readers' \in [Pipes -> SUBSET (Stages \cup {Parent})]
      /\ writers' \in [Pipes -> SUBSET (Stages \cup {Parent})]
      /\ \A j \in Pipes : Parent \in writers'[j] <=> Parent \in writers[j]
      /\ \A t \in Stages : /\ child'[t] \in Alive <=> child[t] \in Alive
                           /\ child'[t] = "none" <=> child[t] = "none"
                           /\ status[t] = "ok" => status'[t] = "ok"
      /\ KnownAreUnreaped' /\ Statuses' /\ ChildrenHold' /\ Flow'
  BY <1>1, <1>2, EndingKeeps DEF flow
<1>4. TypeOK'
  BY <1>1, <1>3 DEF IInv, TypeOK
<1>5. Progress' /\ Codes' /\ ParentHolds'
  BY <1>1, <1>3 DEF IInv, Progress, Codes, ParentHolds
<1> QED
  BY <1>3, <1>4, <1>5 DEF IInv

-----------------------------------------------------------------------------------
(* Children work                                                                 *)

LEMMA ExecKeeps == ASSUME IInv, NEW s \in Stages, Exec(s) PROVE IInv'
<1>1. /\ child[s] = "forked"
      /\ UNCHANGED <<pc, at, rc, known, interrupted, signals, status>>
      /\ UNCHANGED <<inPipe, held, emitted, stored>>
      /\ child' = [child EXCEPT ![s] = "running"]
      /\ \A t \in Stages : child'[t] = IF t = s THEN "running" ELSE child[t]
      /\ readers' = [j \in Pipes |-> IF j = s - 1 THEN readers[j] ELSE readers[j] \ {s}]
      /\ writers' = [j \in Pipes |-> IF j = s THEN writers[j] ELSE writers[j] \ {s}]
  BY DEF Exec, parentVars, flow, IInv, TypeOK
<1>2. TypeOK'
  BY <1>1 DEF IInv, TypeOK
<1>3. KnownAreUnreaped' /\ Progress' /\ Statuses' /\ Codes'
  BY <1>1 DEF IInv, KnownAreUnreaped, Progress, Statuses, Codes, Alive
<1>4. ParentHolds' /\ ChildrenHold'
  BY <1>1 DEF IInv, ParentHolds, ChildrenHold
<1>5. Flow'
  BY <1>1 DEF IInv, Flow
<1> QED
  BY <1>2, <1>3, <1>4, <1>5 DEF IInv

\* A running child has the write end of its pipe, so no stage behind it has ended well.
LEMMA RecordsKeep ==
  ASSUME IInv, Emit \/ Parse \/ Flush \/ Store
  PROVE  IInv'
<1>1. /\ UNCHANGED <<pc, at, rc, known, interrupted, signals, child, status>>
      /\ UNCHANGED <<readers, writers>>
  BY DEF Emit, Parse, Flush, Store, parentVars, ends
<1>2. KnownAreUnreaped' /\ Progress' /\ Statuses' /\ Codes' /\ ParentHolds' /\ ChildrenHold'
  BY <1>1 DEF IInv, KnownAreUnreaped, Progress, Statuses, Codes, ParentHolds, ChildrenHold
<1>3. /\ inPipe' \in [Pipes -> 0 .. PipeCap] /\ held' \in Nat
      /\ emitted' \in Nat /\ stored' \in Nat
  BY DispatcherAssumption DEF Emit, Parse, Flush, Store, IInv, TypeOK
<1>4. TypeOK'
  BY <1>1, <1>3 DEF IInv, TypeOK
<1>5. Flow'
  <2>1. /\ child[1] = "running" => 1 \in writers[1]
        /\ child[2] = "running" => 2 \in writers[2] /\ status[2] = "none"
        /\ child[3] = "running" => status[3] = "none"
    BY DEF IInv, ChildrenHold, Statuses
  <2>2. /\ inPipe \in [Pipes -> 0 .. PipeCap] /\ held \in Nat
        /\ emitted \in Nat /\ stored \in Nat /\ PipeCap \in Nat
    BY DispatcherAssumption DEF IInv, TypeOK
  <2>3. emitted' = inPipe'[1] + held' + inPipe'[2] + stored'
    BY <2>2 DEF Emit, Parse, Flush, Store, IInv, Flow
  <2>4. status[2] = "ok" => inPipe'[1] = 0 /\ held' = 0 /\ writers[1] = {}
    BY <2>1, <2>2 DEF Emit, Parse, Flush, Store, IInv, Flow
  <2>5. status[3] = "ok" => inPipe'[2] = 0 /\ writers[2] = {}
    BY <2>1, <2>2 DEF Emit, Parse, Flush, Store, IInv, Flow
  <2> QED
    BY <1>1, <2>3, <2>4, <2>5 DEF Flow
<1> QED
  BY <1>2, <1>4, <1>5 DEF IInv

-----------------------------------------------------------------------------------
(* The results                                                                   *)

LEMMA DispatcherKeeps == IInv /\ [Next]_vars => IInv'
<1> SUFFICES ASSUME IInv, [Next]_vars PROVE IInv'
  OBVIOUS
<1>1. CASE \E j \in Pipes : OpenPipe(j)
  BY <1>1, OpenPipeKeeps
<1>2. CASE Spawn
  BY <1>2, SpawnKeeps
<1>3. CASE CloseEnds \/ Cleanup
  BY <1>3, ClosingKeeps DEF CloseEnds, Cleanup, Goto
<1>4. CASE CheckInterrupted \/ Block
  BY <1>4, MovingOnKeeps
<1>5. CASE Reap \/ Kill \/ Collect
  BY <1>5, ReapKeeps, KillKeeps, CollectKeeps
<1>6. CASE \E group \in BOOLEAN : Interrupt(group)
  BY <1>6, InterruptKeeps
<1>7. CASE SessionEnds
  BY <1>7, SessionEndsKeeps
<1>8. CASE \E s \in Stages : Works(s) \/ Fails(s)
  BY <1>8, ExecKeeps, BrokenKeeps, EndOfInputKeeps, FailsKeeps, RecordsKeep DEF Works
<1>9. CASE UNCHANGED vars
  <2>1. /\ UNCHANGED <<pc, at, rc, known, interrupted, signals, child, status>>
        /\ UNCHANGED <<readers, writers, inPipe, held, emitted, stored>>
    BY <1>9 DEF vars, parentVars, ends, flow
  <2>2. TypeOK' /\ KnownAreUnreaped' /\ Progress' /\ Statuses'
    BY <2>1 DEF IInv, TypeOK, KnownAreUnreaped, Progress, Statuses
  <2>3. Codes' /\ ParentHolds' /\ ChildrenHold' /\ Flow'
    BY <2>1 DEF IInv, Codes, ParentHolds, ChildrenHold, Flow
  <2> QED
    BY <2>2, <2>3 DEF IInv
<1> QED
  BY <1>1, <1>2, <1>3, <1>4, <1>5, <1>6, <1>7, <1>8, <1>9 DEF Next, ParentStep

\* IInv holds of every pipeline: whatever fails, and whenever a signal comes
\* (pd_pipeline.c:37-115, pd_spawn.c:22-96).
THEOREM DispatcherInvariant == Spec => []IInv
<1>1. Init => IInv
  BY DispatcherStarts
<1>2. IInv /\ [Next]_vars => IInv'
  BY DispatcherKeeps
<1> QED
  BY <1>1, <1>2, PTL DEF Spec

\* Pids, pipe ends and exit codes stay what they should be, and no pipe holds more
\* than it can (pd_pipeline.c:37-115).
THEOREM DispatcherType == Spec => []TypeOK
<1>1. IInv => TypeOK
  BY DEF IInv
<1> QED
  BY <1>1, DispatcherInvariant, PTL

\* When the dispatcher exits no child runs and none is left unreaped
\* (pd_pipeline.c:37-43, 89-115; pd_spawn.c:75-96).
THEOREM NoChildLeftBehind == Spec => []NoOrphans
<1>1. IInv => NoOrphans
  BY DEF IInv, TypeOK, KnownAreUnreaped, Progress, Alive, NoOrphans
<1> QED
  BY <1>1, DispatcherInvariant, PTL

\* Exit code 0 is given only when every record that stream_merge wrote was read by
\* clip_store and no child failed (pd_spawn.c:60-69).
THEOREM ExitCodeTellsTruth == Spec => []SuccessIsComplete
<1>1. IInv => SuccessIsComplete
  <2> SUFFICES ASSUME IInv, pc = "exit", rc = OK
               PROVE  stored = emitted /\ \A s \in Stages : status[s] = "ok"
    BY DEF SuccessIsComplete
  <2>1. \A s \in Stages : status[s] = "ok"
    BY DEF IInv, Codes
  <2>2. inPipe[1] = 0 /\ held = 0 /\ inPipe[2] = 0
    BY <2>1 DEF IInv, Flow
  <2> QED
    BY <2>1, <2>2 DEF IInv, Flow, TypeOK
<1> QED
  BY <1>1, DispatcherInvariant, PTL

\* kill() and waitpid() are never given the pid of a child that was reaped
\* (pd_spawn.c:70, 79-83).
THEOREM OnlyOwnChildrenKilled == Spec => []KillsOwnChildren
<1>1. IInv => KillsOwnChildren
  BY DEF IInv, TypeOK, KnownAreUnreaped, Alive, KillsOwnChildren
<1> QED
  BY <1>1, DispatcherInvariant, PTL

\* Once the parent has closed its ends, a stage that is gone leaves the write end
\* of its pipe to nobody but children that have not reached execv: the next stage
\* will see the end of file (pd_pipeline.c:110; pd_spawn.c:27-32).
EndOfFileComes ==
  pc \notin {"pipe1", "pipe2", "spawn", "close", "cleanup"} =>
    \A j \in Pipes :
      child[j] \notin {"forked", "running"} =>
        writers[j] \subseteq {s \in Stages : child[s] = "forked"}

\* No forgotten pipe end withholds an end of file.
THEOREM NoEndIsForgotten == Spec => []EndOfFileComes
<1>1. IInv => EndOfFileComes
  BY DEF IInv, TypeOK, ParentHolds, ChildrenHold, EndOfFileComes
<1> QED
  BY <1>1, DispatcherInvariant, PTL
===================================================================================
