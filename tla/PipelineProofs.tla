------------------------------ MODULE PipelineProofs ------------------------------
(*******************************************************************************)
(* The path from datagrams to query results, for any datagrams in any order,   *)
(* any options of the state machine and any hash function: a clip is made of   *)
(* whole segments in a row, a session that has ended lost nothing but what is  *)
(* late, and a query prints the clips that no later one replaced.              *)
(*                                                                             *)
(* The argument follows the data: the rows of the sidecar name the bytes of    *)
(* the file one after the other (FilesAgree), the bytes of the rows read are   *)
(* given out, refused or held (Merged), and lines go through the pipe into the *)
(* database in order (Queued).  The rest says which processes run (Phases).    *)
(*******************************************************************************)
EXTENDS Pipeline, RowIndexProofs, SmFsmProofs

Byte == Nat \X Nat \X Nat

\* The times that clients send.
Times == {d.ts_ms : d \in Datagrams}

Clip == [id : Sessions, start : Times, length : Nat, bytes : Seq(Byte)]

Serving == current \in Sessions

Meta == meta[current]

Bin == bin[current]

\* Where row k of the sidecar ends.
End(rows, k) == IF k = 0 THEN 0 ELSE rows[k].offset + rows[k].length

PipeTypes ==
  /\ current \in Sessions \cup {NoSession}
  /\ next \in Sessions \cup {NoSession}
  /\ sentinel \in [Sessions -> BOOLEAN]
  /\ bin \in [Sessions -> Seq(Byte)]
  /\ meta \in [Sessions -> Seq(MetaRecord)]
  /\ offset \in Nat
  /\ proc \in {"none", "running", "exited"}
  /\ FsmTypeOK
  /\ merger \in {"off", "running", "ending", "done"}
  /\ read \in Nat
  /\ pipe \in Seq(Nat)
  /\ store \in {"off", "appending"}
  /\ stale \in BOOLEAN
  /\ lines \in Seq(Clip)

\* The server writes nothing more to the session.
Over == {"waiting", "waiting for good", "down"}

\* The processes of a session, and what its end means to them.
Phases ==
  /\ server \in {"bin", "meta", "ending", "ending for good", "waiting",
                 "waiting for good"} => Serving
  /\ server = "starting" => ~Serving /\ next \in Sessions
  /\ Serving <=> proc # "none"
  /\ proc # "running" => merger = "off" /\ store = "off" /\ pipe = <<>>
  /\ merger \in {"ending", "done"} /\ ~stale => server \in Over
  /\ merger = "running" => ~stale /\ (sentinel[current] => server \in Over)
  /\ proc = "exited" /\ ~stale => server \in Over

\* write_payload has been called.
Writing ==
  server \in {"bin", "meta"} =>
    /\ payload.seq \in Nat
    /\ payload.ts_ms \in Times
    /\ \E count \in Nat \ {0} : payload.bytes = SegmentBytes(payload.seq, count)

\* Row k begins where row k - 1 ends and names one whole segment.
RowNamesSegment(rows, bytes, k) ==
  /\ rows[k].offset = End(rows, k - 1)
  /\ rows[k].length >= 1
  /\ End(rows, k) <= Len(bytes)
  /\ \A i \in 1 .. rows[k].length :
       bytes[rows[k].offset + i] = <<rows[k].seq, i - 1, rows[k].length>>
  /\ ~rows[k].continuous
  /\ rows[k].ts_ms \in Times

\* The sidecar covers the file, but for the payload whose row is not written yet.
FilesAgree ==
  Serving =>
    /\ \A k \in 1 .. Len(Meta) : RowNamesSegment(Meta, Bin, k)
    /\ offset = End(Meta, Len(Meta))
    /\ server # "meta" => Len(Bin) = offset
    /\ server = "meta" =>
         /\ Len(Bin) = offset + Len(payload.bytes)
         /\ \A i \in 1 .. Len(payload.bytes) : Bin[offset + i] = payload.bytes[i]

Open == IF fsm.active THEN Bytes(fsm.start_offset, fsm.total_length) ELSE {}

Cut(bytes, start, length) == [i \in 1 .. length |-> bytes[start + i]]

\* The open clip holds whole segments in a row.
OpenIsWhole ==
  fsm.active =>
    /\ ~fsm.continuous
    /\ fsm.total_length >= 1
    /\ fsm.start_ts_ms \in Times
    /\ fsm.start_offset + fsm.total_length = fsm.expected_offset
    /\ fsm.expected_offset <= End(Meta, read)
    /\ WholeSegments(Cut(Bin, fsm.start_offset, fsm.total_length))
    /\ Bin[fsm.expected_offset][1] + 1 = fsm.expected_seq

\* Every byte of a row that was read was given out, refused, or is held.
Merged ==
  merger # "off" =>
    /\ read <= Len(Meta)
    /\ OpenIsWhole
    /\ covered \cup refused \cup Open = 1 .. End(Meta, read)
    /\ merger = "done" => ~fsm.active
    /\ merger = "done" /\ ~stale => read = Len(Meta)

Completed ==
  proc = "exited" /\ ~stale => covered \cup refused = 1 .. End(Meta, Len(Meta))

Stored == Len(file) - Len(OldFile)

\* Lines go through the pipe into the file, in order.
Queued ==
  /\ Stored \in Nat
  /\ Stored + Len(pipe) = Len(lines)
  /\ \A i \in 1 .. Len(OldFile) : file[i] = OldFile[i]
  /\ \A n \in 1 .. Stored :
       file[Len(OldFile) + n] =
         [key |-> KeyOf(n), val |-> Line, exp |-> 0, n |-> n, whole |-> TRUE]
  /\ \A j \in 1 .. Len(pipe) : pipe[j] = Stored + j

\* A query runs alone.
Alone ==
  /\ query = "running" <=> pc # "idle"
  /\ query = "running" => store = "off"

PipeInv ==
  /\ PipeTypes /\ Phases /\ Writing /\ FilesAgree /\ Merged /\ Completed
  /\ ClipsAreWhole /\ Queued /\ Alone /\ IInv

-----------------------------------------------------------------------------------
(* Segments                                                                      *)

LEMMA TimesAreInts == Times \subseteq Int
BY DatagramsAssumption DEF Times, DatagramsAssumption

LEMMA EndIsNat ==
  ASSUME NEW rows \in Seq(MetaRecord), NEW k \in 0 .. Len(rows)
  PROVE  End(rows, k) \in Nat
<1>1. CASE k = 0
  BY <1>1 DEF End
<1>2. CASE k # 0
  <2>1. rows[k] \in MetaRecord
    BY <1>2
  <2>2. rows[k].offset \in Nat /\ rows[k].length \in Nat
    BY <2>1 DEF MetaRecord
  <2>3. QED BY <1>2, <2>2 DEF End
<1>3. QED BY <1>1, <1>2

LEMMA SegmentIsBytes ==
  ASSUME NEW seq \in Nat, NEW count \in Nat
  PROVE  /\ SegmentBytes(seq, count) \in Seq(Byte)
         /\ Len(SegmentBytes(seq, count)) = count
         /\ \A i \in 1 .. count : SegmentBytes(seq, count)[i] = <<seq, i - 1, count>>
<1>1. \A i \in 1 .. count : <<seq, i - 1, count>> \in Byte
  BY DEF Byte
<1>2. SegmentBytes(seq, count) \in [1 .. count -> Byte]
  BY <1>1 DEF SegmentBytes
<1>3. QED BY <1>2 DEF SegmentBytes

\* One segment is whole.
LEMMA OneSegment ==
  ASSUME NEW n \in Nat \ {0}, NEW seq \in Nat, NEW f, DOMAIN f = 1 .. n,
         \A i \in 1 .. n : f[i] = <<seq, i - 1, n>>
  PROVE  WholeSegments(f)
<1> SUFFICES ASSUME NEW i \in 1 .. n
    PROVE  /\ IF f[i][2] = 0 THEN i > 1 => f[i - 1][1] = f[i][1] - 1
              ELSE i > 1 /\ f[i - 1] = <<f[i][1], f[i][2] - 1, f[i][3]>>
           /\ f[i][2] # f[i][3] - 1 => i + 1 \in DOMAIN f
  BY DEF WholeSegments
<1>1. f[i][1] = seq /\ f[i][2] = i - 1 /\ f[i][3] = n
  OBVIOUS
<1>2. i > 1 => f[i - 1] = <<seq, i - 1 - 1, n>>
  OBVIOUS
<1>3. QED BY <1>1, <1>2

\* A segment may follow whole segments that end with its predecessor.
LEMMA SegmentJoins ==
  ASSUME NEW s \in Seq(Byte), NEW start \in Nat, NEW n \in Nat, NEW m \in Nat, NEW seq
  PROVE  /\ n >= 1 /\ m >= 1 /\ start + n + m <= Len(s)
         /\ WholeSegments(Cut(s, start, n))
         /\ s[start + n][1] + 1 = seq
         /\ \A i \in 1 .. m : s[start + n + i] = <<seq, i - 1, m>>
         => WholeSegments(Cut(s, start, n + m))
<1>z. SUFFICES ASSUME n >= 1, m >= 1, start + n + m <= Len(s),
                      WholeSegments(Cut(s, start, n)),
                      s[start + n][1] + 1 = seq,
                      \A i \in 1 .. m : s[start + n + i] = <<seq, i - 1, m>>
               PROVE  WholeSegments(Cut(s, start, n + m))
  OBVIOUS
<1> DEFINE f == Cut(s, start, n)
           g == Cut(s, start, n + m)
<1>a. DOMAIN f = 1 .. n /\ DOMAIN g = 1 .. n + m /\ WholeSegments(f)
  BY <1>z DEF Cut
<1>b. f[n] = s[start + n] /\ f[n] \in Byte /\ f[n][1] + 1 = seq
  BY <1>z DEF Cut
<1>c. \A i \in 1 .. n : g[i] = f[i]
  BY DEF Cut
<1>d. \A i \in 1 .. m : g[n + i] = <<seq, i - 1, m>>
  <2> SUFFICES ASSUME NEW i \in 1 .. m PROVE g[n + i] = <<seq, i - 1, m>>
    OBVIOUS
  <2>1. g[n + i] = s[start + (n + i)] /\ start + (n + i) = start + n + i
    BY DEF Cut
  <2>2. QED BY <1>z, <2>1
<1> HIDE DEF f, g
<1>e. SUFFICES WholeSegments(g)
  BY DEF g
<1> SUFFICES ASSUME NEW i \in 1 .. n + m
    PROVE  /\ IF g[i][2] = 0 THEN i > 1 => g[i - 1][1] = g[i][1] - 1
              ELSE i > 1 /\ g[i - 1] = <<g[i][1], g[i][2] - 1, g[i][3]>>
           /\ g[i][2] # g[i][3] - 1 => i + 1 \in DOMAIN g
  BY <1>a DEF WholeSegments
<1>1. CASE i \in 1 .. n
  <2>1. /\ IF f[i][2] = 0 THEN i > 1 => f[i - 1][1] = f[i][1] - 1
           ELSE i > 1 /\ f[i - 1] = <<f[i][1], f[i][2] - 1, f[i][3]>>
        /\ f[i][2] # f[i][3] - 1 => i + 1 \in 1 .. n
    BY <1>1, <1>a DEF WholeSegments
  <2>2. g[i] = f[i] /\ (i > 1 => g[i - 1] = f[i - 1])
    BY <1>1, <1>c
  <2>3. QED BY <1>a, <2>1, <2>2
<1>2. CASE i \in n + 1 .. n + m
  <2>1. g[n + (i - n)] = <<seq, i - n - 1, m>>
    <3>1. i - n \in 1 .. m /\ (i - n) - 1 = i - n - 1
      BY <1>2
    <3>2. QED BY <1>d, <3>1
  <2>2. g[i][1] = seq /\ g[i][2] = i - n - 1 /\ g[i][3] = m
    BY <1>2, <2>1
  <2>3. CASE i = n + 1
    <3>1. i - 1 = n /\ n \in 1 .. n
      BY <1>z, <2>3
    <3>2. g[i - 1] = f[n] /\ f[n][1] \in Nat
      BY <3>1, <1>b, <1>c DEF Byte
    <3>3. QED BY <1>a, <1>b, <2>2, <2>3, <3>1, <3>2
  <2>4. CASE i > n + 1
    <3>1. i - 1 - n \in 1 .. m
      BY <1>2, <2>4
    <3>2. g[n + (i - 1 - n)] = <<seq, i - 1 - n - 1, m>>
      BY <1>d, <3>1
    <3>3. g[i - 1] = <<seq, g[i][2] - 1, m>>
      BY <1>2, <2>2, <3>2
    <3>4. QED BY <1>2, <1>a, <2>2, <2>4, <3>3
  <2>5. QED BY <1>2, <2>3, <2>4
<1>3. QED BY <1>1, <1>2

\* What a file holds is not changed by what is appended.
LEMMA CutStays ==
  ASSUME NEW s \in Seq(Byte), NEW t \in Seq(Byte), Len(s) <= Len(t),
         \A i \in 1 .. Len(s) : t[i] = s[i],
         NEW start \in Nat, NEW length \in Nat, start + length <= Len(s)
  PROVE  Cut(t, start, length) = Cut(s, start, length)
BY DEF Cut

-----------------------------------------------------------------------------------
(* The server                                                                    *)

\* What stream_merge knows of the files stays true when they grow, and it is done
\* only when they do not grow any more.
LEMMA MergedStays ==
  ASSUME Merged, FilesAgree, PipeTypes, Serving, UNCHANGED <<mergeVars, current>>,
         Meta' \in Seq(MetaRecord), Len(Meta) <= Len(Meta'),
         \A k \in 1 .. Len(Meta) : Meta'[k] = Meta[k],
         Bin' \in Seq(Byte), Len(Bin) <= Len(Bin'),
         \A i \in 1 .. Len(Bin) : Bin'[i] = Bin[i],
         merger = "done" /\ ~stale => Len(Meta') = Len(Meta)
  PROVE  Merged'
<1> SUFFICES ASSUME merger # "off" PROVE Merged'
  BY DEF Merged, mergeVars
<1>1. /\ UNCHANGED <<fsm, merger, read, stale, covered, refused>>
      /\ read \in 0 .. Len(Meta) /\ Meta \in Seq(MetaRecord) /\ Bin \in Seq(Byte)
      /\ fsm \in FsmState
  BY DEF Merged, PipeTypes, mergeVars, FsmTypeOK, Serving, Meta, Bin
<1>2. End(Meta', read') = End(Meta, read)
  BY <1>1 DEF End
<1>3. End(Meta, read) \in Nat /\ End(Meta, read) <= Len(Bin)
  <2>1. CASE read = 0
    BY <2>1, <1>1 DEF End
  <2>2. CASE read # 0
    BY <2>2, <1>1, EndIsNat DEF FilesAgree, RowNamesSegment
  <2>3. QED BY <2>1, <2>2
<1>4. OpenIsWhole'
  <2> SUFFICES ASSUME fsm.active PROVE OpenIsWhole'
    BY <1>1 DEF OpenIsWhole
  <2>1. OpenIsWhole
    BY DEF Merged
  <2>2. /\ fsm.total_length \in Nat /\ fsm.start_offset \in Nat
        /\ fsm.expected_offset \in Nat
        /\ fsm.start_offset + fsm.total_length = fsm.expected_offset
        /\ fsm.total_length >= 1
        /\ fsm.expected_offset <= Len(Bin)
    <3>1. /\ fsm.total_length \in Nat /\ fsm.start_offset \in Nat
          /\ fsm.expected_offset \in Nat
      BY <1>1 DEF FsmState
    <3>2. /\ fsm.start_offset + fsm.total_length = fsm.expected_offset
          /\ fsm.total_length >= 1
          /\ fsm.expected_offset <= End(Meta, read)
      BY <2>1 DEF OpenIsWhole
    <3>3. Len(Bin) \in Nat
      BY <1>1
    <3>4. QED BY <1>3, <3>1, <3>2, <3>3
  <2>3. Cut(Bin', fsm.start_offset, fsm.total_length)
          = Cut(Bin, fsm.start_offset, fsm.total_length)
    BY <1>1, <2>2, CutStays
  <2>4. Bin'[fsm.expected_offset] = Bin[fsm.expected_offset]
    BY <2>2
  <2>5. QED BY <1>1, <1>2, <2>1, <2>3, <2>4 DEF OpenIsWhole
<1>5. Open' = Open
  BY <1>1 DEF Open, Bytes
<1>6. QED BY <1>1, <1>2, <1>4, <1>5 DEF Merged

\* Steps that leave the files of the session alone.
LEMMA FilesStay ==
  ASSUME PipeInv, UNCHANGED <<current, bin, meta, offset>>,
         server' = "meta" <=> server = "meta",
         server = "meta" => payload' = payload
  PROVE  FilesAgree'
<1> SUFFICES ASSUME Serving PROVE FilesAgree'
  BY DEF FilesAgree, Serving
<1>1. Meta' = Meta /\ Bin' = Bin
  BY DEF Meta, Bin
<1>2. \A k \in 1 .. Len(Meta) : RowNamesSegment(Meta, Bin, k)
  BY DEF PipeInv, FilesAgree
<1>3. \A k \in 1 .. Len(Meta) : RowNamesSegment(Meta', Bin', k)
  BY <1>1, <1>2
<1>4. /\ offset' = End(Meta', Len(Meta'))
      /\ server' # "meta" => Len(Bin') = offset'
      /\ server' = "meta" =>
           /\ Len(Bin') = offset' + Len(payload'.bytes)
           /\ \A i \in 1 .. Len(payload'.bytes) : Bin'[offset' + i] = payload'.bytes[i]
  BY <1>1 DEF PipeInv, FilesAgree
<1>5. QED BY <1>1, <1>3, <1>4 DEF FilesAgree

LEMMA SameFiles ==
  ASSUME PipeInv, UNCHANGED <<mergeVars, current, bin, meta>>
  PROVE  Merged'
<1>1. CASE ~Serving
  BY <1>1 DEF PipeInv, Phases, Merged, mergeVars
<1>2. CASE Serving
  BY <1>2, MergedStays DEF PipeInv, PipeTypes, Serving, Meta, Bin
<1>3. QED BY <1>1, <1>2

\* Lines that exist do not change with the server, nor do the others who wait.
LEMMA OthersStay ==
  ASSUME PipeInv, UNCHANGED <<pipe, store, indexVars, query, lines>>
  PROVE  ClipsAreWhole' /\ Queued' /\ Alone'
<1>1. ClipsAreWhole'
  BY DEF PipeInv, ClipsAreWhole
<1>2. Queued'
  BY DEF PipeInv, Queued, Stored, KeyOf, indexVars
<1>3. Alone'
  BY DEF PipeInv, Alone, indexVars
<1>4. QED BY <1>1, <1>2, <1>3

\* Packets that only change what the server knows of fragments, or what it does next.
LEMMA QuietServer ==
  ASSUME PipeInv,
         \/ WaitTimesOut
         \/ \E d \in Datagrams :
              \/ Ignore(d) \/ IgnoreFragment(d) \/ EndFirst(d) \/ Shutdown(d)
              \/ CountChanged(d) \/ Collect(d),
         UNCHANGED <<mergeVars, pipe, store, lines>>
  PROVE  PipeTypes' /\ Phases' /\ Writing' /\ FilesAgree' /\ Merged' /\ Completed'
<1>1. /\ UNCHANGED <<current, bin, meta, offset, payload, sentinel, proc>>
      /\ server \in {"recv", "waiting", "waiting for good"}
      /\ \/ server' = server
         \/ server' \in {"ending", "ending for good"} /\ current # NoSession
            /\ server = "recv"
         \/ server' = "down"
      /\ next' = next \/ (next' \in Sessions \cup {NoSession})
  BY DatagramsAssumption
  DEF Ignore, IgnoreFragment, EndFirst, Shutdown, CountChanged, Collect, WaitTimesOut,
      Fragment, Receives, DatagramsAssumption
<1>2. PipeTypes'
  BY <1>1 DEF PipeInv, PipeTypes, mergeVars, FsmTypeOK
<1>3. Phases'
  BY <1>1 DEF PipeInv, Phases, PipeTypes, Serving, Over, mergeVars
<1>4. Writing'
  BY <1>1 DEF PipeInv, Writing
<1>5. FilesAgree'
  BY <1>1, FilesStay
<1>6. Merged'
  BY <1>1, SameFiles
<1>7. Completed'
  BY <1>1 DEF PipeInv, Completed, Meta, End, mergeVars
<1>8. QED BY <1>2, <1>3, <1>4, <1>5, <1>6, <1>7

\* write_payload is called with the bytes of one segment.
LEMMA PayloadServer ==
  ASSUME PipeInv, NEW d \in Datagrams, WriteChunk(d) \/ Complete(d),
         UNCHANGED <<mergeVars, pipe, store, lines>>
  PROVE  PipeTypes' /\ Phases' /\ Writing' /\ FilesAgree' /\ Merged' /\ Completed'
<1>1. /\ UNCHANGED <<current, next, bin, meta, offset, sentinel, proc>>
      /\ server = "recv" /\ server' = "bin" /\ current # NoSession
  BY DEF WriteChunk, Complete, Fragment, Receives
<1>2. Writing'
  <2>1. d.seq \in Nat /\ d.ts_ms \in Times /\ d.count \in Int
    BY DatagramsAssumption DEF DatagramsAssumption, Times
  <2>2. CASE WriteChunk(d)
    BY <2>1, <2>2 DEF WriteChunk, Writing
  <2>3. CASE Complete(d)
    BY <2>1, <2>3 DEF Complete, Fragment, Misnumbered, Writing
  <2>4. QED BY <2>2, <2>3
<1>3. PipeTypes'
  BY <1>1 DEF PipeInv, PipeTypes, mergeVars, FsmTypeOK
<1>4. Phases'
  BY <1>1 DEF PipeInv, Phases, PipeTypes, Serving, Over, mergeVars
<1>5. FilesAgree'
  BY <1>1, FilesStay
<1>6. Merged'
  BY <1>1, SameFiles
<1>7. Completed'
  BY <1>1 DEF PipeInv, Completed, Meta, End, mergeVars
<1>8. QED BY <1>2, <1>3, <1>4, <1>5, <1>6, <1>7

\* Both files of a session start empty, and no process of an earlier one is left.
LEMMA StartingServer ==
  ASSUME PipeInv, NEW id \in Sessions, Starts(id), ~Serving,
         server \in {"recv", "starting"}, server' = "recv",
         next' \in {next, NoSession}, UNCHANGED <<payload, sentinel>>,
         UNCHANGED <<mergeVars, pipe, store, lines>>
  PROVE  PipeTypes' /\ Phases' /\ Writing' /\ FilesAgree' /\ Merged' /\ Completed'
<1>1. /\ current' = id /\ offset' = 0 /\ proc' = "running" /\ merger = "off"
      /\ bin' = [bin EXCEPT ![id] = <<>>] /\ meta' = [meta EXCEPT ![id] = <<>>]
      /\ store = "off" /\ pipe = <<>>
  BY DEF PipeInv, Phases, Starts
<1>2. Meta' = <<>> /\ Bin' = <<>>
  BY <1>1 DEF PipeInv, PipeTypes, Meta, Bin
<1>3. PipeTypes'
  BY <1>1 DEF PipeInv, PipeTypes, mergeVars, FsmTypeOK
<1>4. Phases'
  BY <1>1 DEF PipeInv, PipeTypes, Phases, Serving, mergeVars
<1>5. FilesAgree'
  BY <1>1, <1>2 DEF FilesAgree, End
<1>6. QED BY <1>1, <1>3, <1>4, <1>5 DEF Writing, Merged, Completed, mergeVars

LEMMA EndingServer ==
  ASSUME PipeInv, TouchSentinel \/ SessionEnded, UNCHANGED <<mergeVars, pipe, store, lines>>
  PROVE  PipeTypes' /\ Phases' /\ Writing' /\ FilesAgree' /\ Merged' /\ Completed'
<1>1. CASE TouchSentinel
  <2>1. /\ UNCHANGED <<current, next, bin, meta, offset, payload, proc>>
        /\ sentinel' = [sentinel EXCEPT ![current] = TRUE]
        /\ server \in {"ending", "ending for good"}
        /\ server' \in {"waiting", "waiting for good"}
        /\ current \in Sessions
    BY <1>1 DEF TouchSentinel, PipeInv, Phases, Serving
  <2>2. PipeTypes'
    BY <2>1 DEF PipeInv, PipeTypes, mergeVars, FsmTypeOK
  <2>3. Phases'
    BY <2>1 DEF PipeInv, Phases, Serving, Over, mergeVars
  <2>4. FilesAgree'
    BY <2>1, FilesStay
  <2>5. Merged'
    BY <2>1, SameFiles
  <2>6. Completed'
    BY <2>1 DEF PipeInv, Completed, Meta, End, mergeVars
  <2>7. QED BY <2>1, <2>2, <2>3, <2>4, <2>5, <2>6 DEF Writing
<1>2. CASE SessionEnded
  <2>1. /\ UNCHANGED <<next, bin, meta, offset, payload, sentinel>>
        /\ current' = NoSession /\ proc = "exited" /\ proc' = "none"
        /\ server' \in {"down", "recv", "starting"}
        /\ server' = "starting" => next # NoSession
        /\ merger = "off" /\ store = "off" /\ pipe = <<>>
    BY <1>2 DEF SessionEnded, PipeInv, Phases
  <2>2. ~Serving'
    BY <2>1, DatagramsAssumption DEF Serving, DatagramsAssumption
  <2>3. PipeTypes'
    BY <2>1 DEF PipeInv, PipeTypes, mergeVars, FsmTypeOK
  <2>4. Phases'
    BY <2>1, <2>2 DEF PipeInv, PipeTypes, Phases, mergeVars
  <2>5. QED BY <2>1, <2>2, <2>3, <2>4 DEF Writing, FilesAgree, Merged, Completed, mergeVars
<1>3. QED BY <1>1, <1>2

\* The bytes are appended where the row to come will say they are.
LEMMA BytesWritten ==
  ASSUME PipeInv, WriteBin, UNCHANGED <<mergeVars, pipe, store, lines>>
  PROVE  PipeTypes' /\ Phases' /\ Writing' /\ FilesAgree' /\ Merged' /\ Completed'
<1>1. /\ UNCHANGED <<current, next, meta, offset, payload, sentinel, proc>>
      /\ server = "bin" /\ server' = "meta" /\ current \in Sessions /\ Serving
      /\ bin' = [bin EXCEPT ![current] = @ \o payload.bytes]
  BY DEF WriteBin, PipeInv, Phases, Serving
<1>2. PICK count \in Nat \ {0} : payload.bytes = SegmentBytes(payload.seq, count)
  BY <1>1 DEF PipeInv, Writing
<1>3. payload.bytes \in Seq(Byte)
  BY <1>1, <1>2, SegmentIsBytes DEF PipeInv, Writing
<1>4. Bin \in Seq(Byte) /\ Meta \in Seq(MetaRecord) /\ Meta' = Meta
  BY <1>1 DEF PipeInv, PipeTypes, Bin, Meta
<1>5. Bin' = Bin \o payload.bytes
  BY <1>1 DEF PipeInv, PipeTypes, Bin
<1>6. /\ Bin' \in Seq(Byte)
      /\ Len(Bin') = Len(Bin) + Len(payload.bytes)
      /\ \A i \in 1 .. Len(Bin) : Bin'[i] = Bin[i]
      /\ \A i \in 1 .. Len(payload.bytes) : Bin'[Len(Bin) + i] = payload.bytes[i]
  BY <1>3, <1>4, <1>5
<1>7. PipeTypes'
  <2>1. bin' \in [Sessions -> Seq(Byte)]
    BY <1>1, <1>3, <1>4 DEF PipeInv, PipeTypes, Bin
  <2>2. QED BY <1>1, <2>1 DEF PipeInv, PipeTypes, mergeVars, FsmTypeOK
<1>8. Phases'
  BY <1>1 DEF PipeInv, Phases, PipeTypes, Serving, Over, mergeVars
<1>9. FilesAgree'
  <2>1. /\ \A k \in 1 .. Len(Meta) : RowNamesSegment(Meta, Bin, k)
        /\ offset = End(Meta, Len(Meta)) /\ Len(Bin) = offset
    BY <1>1 DEF PipeInv, FilesAgree
  <2>2. ASSUME NEW k \in 1 .. Len(Meta) PROVE RowNamesSegment(Meta', Bin', k)
    <3>1. /\ Meta[k] \in MetaRecord /\ RowNamesSegment(Meta, Bin, k)
      BY <1>4, <2>1
    <3>2. Meta[k].offset \in Nat /\ Meta[k].length \in Nat
          /\ Meta[k].offset + Meta[k].length <= Len(Bin)
      BY <3>1 DEF MetaRecord, RowNamesSegment, End
    <3>3. \A i \in 1 .. Meta[k].length : Bin'[Meta[k].offset + i] = Bin[Meta[k].offset + i]
      <4> SUFFICES ASSUME NEW i \in 1 .. Meta[k].length
            PROVE  Bin'[Meta[k].offset + i] = Bin[Meta[k].offset + i]
        OBVIOUS
      <4>1. Meta[k].offset + i \in 1 .. Len(Bin)
        BY <1>4, <3>2
      <4>2. QED BY <1>6, <4>1
    <3>4. Len(Bin) <= Len(Bin') /\ End(Meta, k) <= Len(Bin')
      BY <1>3, <1>4, <1>6, <3>2 DEF End
    <3>5. QED BY <1>4, <3>1, <3>3, <3>4 DEF RowNamesSegment
  <2>3. QED BY <1>1, <1>4, <1>6, <2>1, <2>2 DEF FilesAgree
<1>10. Merged'
  <2>1. merger = "done" => stale
    BY <1>1 DEF PipeInv, Phases, Over
  <2>2. Len(Bin) <= Len(Bin')
    BY <1>3, <1>4, <1>6
  <2>3. QED BY <1>1, <1>4, <1>6, <2>1, <2>2, MergedStays DEF PipeInv
<1>11. Completed'
  BY <1>1, <1>4 DEF PipeInv, Completed, mergeVars, End
<1>12. Writing'
  BY <1>1 DEF PipeInv, Writing
<1>13. QED BY <1>7, <1>8, <1>9, <1>10, <1>11, <1>12

\* The row names the bytes that end the file.
LEMMA RowWritten ==
  ASSUME PipeInv, WriteMeta, UNCHANGED <<mergeVars, pipe, store, lines>>
  PROVE  PipeTypes' /\ Phases' /\ Writing' /\ FilesAgree' /\ Merged' /\ Completed'
<1>1. /\ UNCHANGED <<current, next, bin, sentinel, proc>>
      /\ server = "meta" /\ server' = "recv" /\ current \in Sessions /\ Serving
      /\ meta' = [meta EXCEPT ![current] = Append(@, SidecarRow)]
      /\ offset' = offset + Len(payload.bytes)
  BY DEF WriteMeta, PipeInv, Phases, Serving
<1>2. PICK count \in Nat \ {0} : payload.bytes = SegmentBytes(payload.seq, count)
  BY <1>1 DEF PipeInv, Writing
<1>3. /\ Len(payload.bytes) = count /\ payload.seq \in Nat /\ payload.ts_ms \in Times
      /\ \A i \in 1 .. count : payload.bytes[i] = <<payload.seq, i - 1, count>>
  <2>1. payload.seq \in Nat /\ payload.ts_ms \in Times
    BY <1>1 DEF PipeInv, Writing
  <2>2. /\ Len(SegmentBytes(payload.seq, count)) = count
        /\ \A i \in 1 .. count :
             SegmentBytes(payload.seq, count)[i] = <<payload.seq, i - 1, count>>
    BY <2>1, SegmentIsBytes
  <2>3. QED BY <1>2, <2>1, <2>2
<1>4. /\ Bin \in Seq(Byte) /\ Meta \in Seq(MetaRecord) /\ Bin' = Bin
      /\ Len(Meta) \in Nat /\ offset \in Nat
  BY <1>1 DEF PipeInv, PipeTypes, Bin, Meta
<1>5. SidecarRow \in MetaRecord
  BY <1>1, <1>3, <1>4, NoTags, TimesAreInts DEF SidecarRow, MetaRecord
<1>6. Meta' = Append(Meta, SidecarRow)
  BY <1>1 DEF PipeInv, PipeTypes, Meta
<1>7. /\ Meta' \in Seq(MetaRecord) /\ Len(Meta') = Len(Meta) + 1
      /\ \A k \in 1 .. Len(Meta) : Meta'[k] = Meta[k]
      /\ Meta'[Len(Meta) + 1] = SidecarRow
  BY <1>4, <1>5, <1>6
<1>8. PipeTypes'
  <2>1. meta' \in [Sessions -> Seq(MetaRecord)]
    BY <1>1, <1>4, <1>5 DEF PipeInv, PipeTypes, Meta
  <2>2. offset' \in Nat
    BY <1>1, <1>3, <1>4
  <2>3. QED BY <1>1, <2>1, <2>2 DEF PipeInv, PipeTypes, mergeVars, FsmTypeOK
<1>9. Phases'
  BY <1>1 DEF PipeInv, Phases, PipeTypes, Serving, Over, mergeVars
<1>10. FilesAgree'
  <2>1. /\ \A k \in 1 .. Len(Meta) : RowNamesSegment(Meta, Bin, k)
        /\ offset = End(Meta, Len(Meta)) /\ Len(Bin) = offset + count
        /\ \A i \in 1 .. count : Bin[offset + i] = payload.bytes[i]
    BY <1>1, <1>3 DEF PipeInv, FilesAgree
  <2>2. \A k \in 0 .. Len(Meta) : End(Meta', k) = End(Meta, k)
    BY <1>4, <1>7 DEF End
  <2>3. ASSUME NEW k \in 1 .. Len(Meta) PROVE RowNamesSegment(Meta', Bin', k)
    <3>1. RowNamesSegment(Meta, Bin, k) /\ Meta'[k] = Meta[k]
      BY <1>7, <2>1
    <3>2. End(Meta', k) = End(Meta, k) /\ End(Meta', k - 1) = End(Meta, k - 1)
      BY <1>4, <2>2
    <3>3. QED BY <1>4, <3>1, <3>2 DEF RowNamesSegment
  <2>4. /\ SidecarRow.offset = offset /\ SidecarRow.length = count
        /\ SidecarRow.seq = payload.seq /\ ~SidecarRow.continuous
        /\ SidecarRow.ts_ms = payload.ts_ms
    BY <1>3 DEF SidecarRow
  <2>5. End(Meta', Len(Meta) + 1) = offset + count
    BY <1>4, <1>7, <2>4 DEF End
  <2>6. RowNamesSegment(Meta', Bin', Len(Meta) + 1)
    <3>1. End(Meta', Len(Meta) + 1 - 1) = offset
      BY <1>4, <2>1, <2>2
    <3>2. \A i \in 1 .. count : Bin'[offset + i] = <<payload.seq, i - 1, count>>
      BY <1>3, <1>4, <2>1
    <3>3. End(Meta', Len(Meta) + 1) <= Len(Bin') /\ count >= 1
      BY <1>4, <2>1, <2>5
    <3>4. QED BY <1>3, <1>7, <2>4, <3>1, <3>2, <3>3 DEF RowNamesSegment
  <2>7. QED BY <1>1, <1>3, <1>4, <1>7, <2>1, <2>3, <2>5, <2>6 DEF FilesAgree
<1>11. Merged'
  <2>1. merger = "done" => stale
    BY <1>1 DEF PipeInv, Phases, Over
  <2>2. QED BY <1>1, <1>4, <1>7, <2>1, MergedStays DEF PipeInv
<1>12. Completed'
  BY <1>1 DEF PipeInv, Phases, Over, Completed, mergeVars
<1>13. Writing'
  BY <1>1 DEF Writing
<1>14. QED BY <1>8, <1>9, <1>10, <1>11, <1>12, <1>13

LEMMA ServerKeeps == PipeInv /\ Server => PipeInv'
<1> SUFFICES ASSUME PipeInv, Server PROVE PipeInv'
  OBVIOUS
<1>1. ServerNext /\ UNCHANGED <<mergeVars, pipe, store, lines>>
      /\ UNCHANGED <<pipe, store, indexVars, query, lines>>
  BY DEF Server
<1>2. ClipsAreWhole' /\ Queued' /\ Alone'
  BY <1>1, OthersStay
<1>3. IInv'
  BY <1>1, IndexKeeps DEF PipeInv
<1>4. PipeTypes' /\ Phases' /\ Writing' /\ FilesAgree' /\ Merged' /\ Completed'
  <2>1. CASE \E d \in Datagrams :
               \/ Ignore(d) \/ IgnoreFragment(d) \/ EndFirst(d) \/ Shutdown(d)
               \/ CountChanged(d) \/ Collect(d)
    BY <1>1, <2>1, QuietServer
  <2>2. CASE WaitTimesOut
    BY <1>1, <2>2, QuietServer
  <2>3. CASE \E d \in Datagrams : WriteChunk(d) \/ Complete(d)
    BY <1>1, <2>3, PayloadServer
  <2>4. CASE \E d \in Datagrams : StartSession(d)
    <3>1. PICK d \in Datagrams : StartSession(d)
      BY <2>4
    <3>2. /\ Starts(d.id) /\ server = "recv" /\ server' = "recv" /\ next' = next
          /\ UNCHANGED <<payload, sentinel>> /\ ~Serving /\ d.id \in Sessions
      BY <3>1, DatagramsAssumption
      DEF StartSession, Receives, DatagramsAssumption, Serving
    <3>3. QED BY <1>1, <3>2, StartingServer
  <2>5. CASE StartNext
    <3>1. /\ Starts(next) /\ server = "starting" /\ server' = "recv"
          /\ next' = NoSession /\ UNCHANGED <<payload, sentinel>>
          /\ ~Serving /\ next \in Sessions
      BY <2>5 DEF StartNext, PipeInv, Phases
    <3>2. QED BY <1>1, <3>1, StartingServer
  <2>6. CASE TouchSentinel \/ SessionEnded
    BY <1>1, <2>6, EndingServer
  <2>7. CASE WriteBin
    BY <1>1, <2>7, BytesWritten
  <2>8. CASE WriteMeta
    BY <1>1, <2>8, RowWritten
  <2>9. QED BY <1>1, <2>1, <2>2, <2>3, <2>4, <2>5, <2>6, <2>7, <2>8 DEF ServerNext
<1>5. QED BY <1>2, <1>3, <1>4 DEF PipeInv

-----------------------------------------------------------------------------------
(* stream_merge                                                                  *)

\* What stream_merge works on.
LEMMA Reading ==
  ASSUME PipeInv, merger # "off"
  PROVE  /\ Serving /\ proc = "running" /\ current \in Sessions
         /\ Meta \in Seq(MetaRecord) /\ Bin \in Seq(Byte)
         /\ fsm \in FsmState
         /\ read \in 0 .. Len(Meta)
         /\ End(Meta, read) \in Nat /\ End(Meta, read) <= Len(Bin)
         /\ OpenIsWhole
<1>1. /\ Serving /\ proc = "running" /\ current \in Sessions
      /\ Meta \in Seq(MetaRecord) /\ Bin \in Seq(Byte)
  BY DEF PipeInv, Phases, PipeTypes, Serving, Meta, Bin
<1>2. read \in 0 .. Len(Meta) /\ fsm \in FsmState /\ OpenIsWhole
  BY <1>1 DEF PipeInv, PipeTypes, Merged, FsmTypeOK
<1>3. End(Meta, read) \in Nat /\ End(Meta, read) <= Len(Bin)
  <2>1. CASE read = 0
    BY <2>1, <1>1 DEF End
  <2>2. CASE read # 0
    BY <2>2, <1>1, <1>2, EndIsNat DEF PipeInv, FilesAgree, RowNamesSegment
  <2>3. QED BY <2>1, <2>2
<1>4. QED BY <1>1, <1>2, <1>3

\* The clip that is given out is the open one, and all its bytes are there.
LEMMA Emission ==
  ASSUME PipeInv, merger # "off", fsm.active, out' = Snapshot(fsm), action' \in Emits,
         EmitClip, UNCHANGED <<current, bin, indexVars>>
  PROVE  /\ lines' \in Seq(Clip) /\ pipe' \in Seq(Nat)
         /\ ClipsAreWhole' /\ Queued'
         /\ covered' = covered \cup Open
<1> DEFINE start == fsm.start_offset
           length == fsm.total_length
           line == [id |-> current, start |-> fsm.start_ts_ms, length |-> length,
                    bytes |-> Cut(Bin, start, length)]
<1>1. /\ start \in Nat /\ length \in Nat /\ start + length <= Len(Bin)
      /\ fsm.start_ts_ms \in Times /\ current \in Sessions
      /\ WholeSegments(Cut(Bin, start, length))
      /\ Bin \in Seq(Byte)
  <2>1. /\ start \in Nat /\ length \in Nat /\ fsm.expected_offset \in Nat
    BY Reading DEF FsmState
  <2>2. QED BY <2>1, Reading DEF OpenIsWhole
<1>2. /\ out'.start_offset = start /\ out'.total_length = length
      /\ out'.start_ts_ms = fsm.start_ts_ms
  BY DEF Snapshot
<1> DEFINE region == Bytes(start, length)
           there == region \cap DOMAIN Bin
<1>3. region \cap DOMAIN Bin = region /\ {b - start : b \in region} = 1 .. length
  <2>1. region \subseteq DOMAIN Bin
    BY <1>1 DEF Bytes
  <2>2. \A i \in 1 .. length : start + i \in region /\ (start + i) - start = i
    BY <1>1 DEF Bytes
  <2>3. \A b \in region : b - start \in 1 .. length
    BY <1>1 DEF Bytes
  <2>4. QED BY <2>1, <2>2, <2>3
<1>4. /\ pipe' = Append(pipe, Len(lines) + 1)
      /\ lines' = Append(lines, line)
      /\ covered' = covered \cup region
  <2>1. [i \in {b - start : b \in there} |-> Bin[start + i]] = Cut(Bin, start, length)
    BY <1>3 DEF Cut
  <2>2. /\ pipe' = Append(pipe, Len(lines) + 1)
        /\ lines' = Append(lines,
             [id |-> current, start |-> fsm.start_ts_ms, length |-> length,
              bytes |-> [i \in {b - start : b \in there} |-> Bin[start + i]]])
        /\ covered' = covered \cup region
    BY <1>2 DEF EmitClip, Bin
  <2>3. QED BY <2>1, <2>2
<1>5. line \in Clip
  <2>1. \A i \in 1 .. length : Bin[start + i] \in Byte
    BY <1>1
  <2>2. Cut(Bin, start, length) \in Seq(Byte)
    <3> HIDE DEF start, length
    <3>1. Cut(Bin, start, length) \in [1 .. length -> Byte]
      BY <2>1 DEF Cut
    <3>2. QED BY <1>1, <3>1
  <2>3. QED BY <1>1, <2>2 DEF Clip
<1>6. /\ lines' \in Seq(Clip) /\ Len(lines') = Len(lines) + 1
      /\ \A n \in 1 .. Len(lines) : lines'[n] = lines[n]
      /\ lines'[Len(lines) + 1] = line
      /\ lines \in Seq(Clip)
  BY <1>4, <1>5 DEF PipeInv, PipeTypes
<1>7. /\ pipe' \in Seq(Nat) /\ Len(pipe') = Len(pipe) + 1 /\ pipe \in Seq(Nat)
      /\ \A j \in 1 .. Len(pipe) : pipe'[j] = pipe[j]
      /\ pipe'[Len(pipe) + 1] = Len(lines) + 1
  BY <1>4, <1>6 DEF PipeInv, PipeTypes
<1>8. ClipsAreWhole'
  <2>1. line.length = length /\ line.bytes = Cut(Bin, start, length)
    OBVIOUS
  <2>2. DOMAIN Cut(Bin, start, length) = 1 .. length
    BY DEF Cut
  <2> HIDE DEF line, length, start
  <2>3. DOMAIN line.bytes = 1 .. line.length /\ WholeSegments(line.bytes)
    BY <1>1, <2>1, <2>2
  <2>4. \A n \in 1 .. Len(lines) :
          DOMAIN lines[n].bytes = 1 .. lines[n].length /\ WholeSegments(lines[n].bytes)
    BY <1>6 DEF PipeInv, ClipsAreWhole
  <2>5. \A n \in 1 .. Len(lines) + 1 :
          DOMAIN lines'[n].bytes = 1 .. lines'[n].length
          /\ WholeSegments(lines'[n].bytes)
    BY <1>6, <2>3, <2>4
  <2>6. QED BY <1>6, <2>5 DEF ClipsAreWhole, WholeSegments
<1>9. Queued'
  <2>1. Queued /\ UNCHANGED file /\ Stored' = Stored
    BY DEF PipeInv, indexVars, Stored
  <2>2. /\ Stored \in Nat /\ Len(pipe) \in Nat /\ Len(lines) \in Nat
        /\ Stored + Len(pipe) = Len(lines)
    BY <1>6, <1>7, <2>1 DEF Queued
  <2>3. \A n \in 1 .. Stored : lines'[n] = lines[n]
    BY <1>6, <2>2
  <2>4. \A n \in 1 .. Stored : KeyOf(n)' = KeyOf(n)
    BY <2>3 DEF KeyOf
  <2>5. \A j \in 1 .. Len(pipe') : pipe'[j] = Stored + j
    <3>1. \A j \in 1 .. Len(pipe) : pipe[j] = Stored + j
      BY <2>1 DEF Queued
    <3>2. pipe'[Len(pipe) + 1] = Stored + (Len(pipe) + 1)
      <4>1. Len(lines) + 1 = Stored + (Len(pipe) + 1)
        BY <2>2
      <4>2. QED BY <1>7, <4>1
    <3>3. \A j \in 1 .. Len(pipe) + 1 : j \in 1 .. Len(pipe) \/ j = Len(pipe) + 1
      BY <2>2
    <3>4. QED BY <1>7, <3>1, <3>2, <3>3
  <2>6. QED BY <1>6, <1>7, <2>1, <2>2, <2>4, <2>5 DEF Queued
<1>10. QED BY <1>4, <1>6, <1>7, <1>8, <1>9 DEF Open

LEMMA NoEmission ==
  ASSUME PipeInv, action' \notin Emits, EmitClip, UNCHANGED indexVars
  PROVE  /\ lines' \in Seq(Clip) /\ pipe' \in Seq(Nat)
         /\ ClipsAreWhole' /\ Queued'
         /\ covered' = covered
<1>1. UNCHANGED <<pipe, lines, covered>>
  BY DEF EmitClip
<1>2. ClipsAreWhole' /\ Queued'
  BY <1>1 DEF PipeInv, ClipsAreWhole, Queued, Stored, KeyOf, indexVars
<1>3. QED BY <1>1, <1>2 DEF PipeInv, PipeTypes

\* A row opens a clip, joins the open one right behind it, or is late: rows of the
\* server are not continuous, so no window is ever full.
LEMMA RowMerges ==
  ASSUME PipeInv, merger # "off", Unread, NEW rec, rec = Meta[read + 1],
         ProcessRecord(rec, 0)
  PROVE  \/ /\ fsm' = Started(rec, 0)
            /\ \/ ~fsm.active /\ action' = "NONE"
               \/ fsm.active /\ out' = Snapshot(fsm) /\ action' \in Emits
         \/ /\ fsm.active
            /\ \E tags : fsm' = Appended(rec, 0, tags)
            /\ rec.seq = fsm.expected_seq /\ rec.offset = fsm.expected_offset
            /\ action' = "NONE"
         \/ fsm' = fsm /\ action' = "REJECT_LATE"
<1>1. /\ rec \in MetaRecord /\ ~rec.continuous /\ fsm \in FsmState /\ OpenIsWhole
  <2>1. read + 1 \in 1 .. Len(Meta)
    BY Reading DEF Unread, Meta
  <2>2. QED BY <2>1, Reading DEF PipeInv, FilesAgree, RowNamesSegment
<1>2. ~WindowFull(Started(rec, 0))
  BY <1>1 DEF WindowFull, Started
<1>3. CASE Opens(rec, 0)
  <2>1. ~RestartEmpty(rec, 0)
    BY <1>1 DEF RestartEmpty, OpenIsWhole
  <2>2. CASE Begin(rec, 0)
    BY <1>2, <2>2 DEF Begin, MaybeEmitWindow
  <2>3. CASE CloseAtGap(rec, 0) \/ CutAtBoundary(rec, 0)
    BY <2>3 DEF CloseAtGap, CutAtBoundary, Emits
  <2>4. QED BY <1>3, <2>1, <2>2, <2>3 DEF Opens
<1>4. CASE Joins(rec, 0)
  <2>1. ~AppendContinuous(rec, 0)
    BY <1>1 DEF AppendContinuous, Compatible
  <2>2. AppendWithin(rec, 0)
    BY <1>4, <2>1 DEF Joins
  <2>3. rec.seq = fsm.expected_seq /\ rec.offset = fsm.expected_offset
    <3>1. rec.seq \in Nat /\ fsm.expected_seq \in Nat
      BY <1>1 DEF MetaRecord, FsmState
    <3>2. QED BY <2>2, <3>1 DEF AppendWithin, IsLate, Breaks
  <2>4. QED BY <2>2, <2>3 DEF AppendWithin
<1>5. CASE RejectLate(rec)
  BY <1>5 DEF RejectLate
<1>6. QED BY <1>3, <1>4, <1>5 DEF ProcessRecord

\* The next row, and the bytes it names.
LEMMA NextRow ==
  ASSUME PipeInv, merger # "off", Unread, NEW rec, rec = Meta[read + 1]
  PROVE  /\ rec \in MetaRecord /\ rec.ts_ms \in Times /\ ~rec.continuous
         /\ rec.offset = End(Meta, read) /\ rec.length >= 1
         /\ read + 1 \in 1 .. Len(Meta)
         /\ End(Meta, read + 1) = rec.offset + rec.length
         /\ End(Meta, read + 1) <= Len(Bin)
         /\ \A i \in 1 .. rec.length :
              Bin[rec.offset + i] = <<rec.seq, i - 1, rec.length>>
         /\ 1 .. End(Meta, read + 1) = (1 .. End(Meta, read)) \cup Bytes(rec.offset, rec.length)
<1>1. read + 1 \in 1 .. Len(Meta) /\ read \in Nat /\ Meta \in Seq(MetaRecord)
  BY Reading DEF Unread, Meta
<1>2. rec \in MetaRecord /\ RowNamesSegment(Meta, Bin, read + 1)
  BY <1>1, Reading DEF PipeInv, FilesAgree
<1>3. read + 1 - 1 = read /\ read + 1 # 0
  BY <1>1
<1>4. /\ rec.ts_ms \in Times /\ ~rec.continuous
      /\ rec.offset = End(Meta, read) /\ rec.length >= 1
      /\ End(Meta, read + 1) <= Len(Bin)
      /\ \A i \in 1 .. rec.length :
           Bin[rec.offset + i] = <<rec.seq, i - 1, rec.length>>
  <2>1. End(Meta, read + 1 - 1) = End(Meta, read)
    BY <1>3
  <2> DEFINE k == read + 1
  <2>2. /\ Meta[k].offset = End(Meta, k - 1) /\ Meta[k].length >= 1
        /\ End(Meta, k) <= Len(Bin)
        /\ \A i \in 1 .. Meta[k].length :
             Bin[Meta[k].offset + i] = <<Meta[k].seq, i - 1, Meta[k].length>>
        /\ ~Meta[k].continuous /\ Meta[k].ts_ms \in Times
    BY <1>2 DEF RowNamesSegment
  <2>3. rec = Meta[k] /\ k - 1 = read
    BY <1>1
  <2> HIDE DEF k
  <2>4. QED BY <2>1, <2>2, <2>3, Zenon DEF k
<1>5. End(Meta, read + 1) = rec.offset + rec.length
  BY <1>3 DEF End
<1>6. rec.offset \in Nat /\ rec.length \in Nat
  BY <1>2 DEF MetaRecord
<1>7. 1 .. rec.offset + rec.length = (1 .. rec.offset) \cup Bytes(rec.offset, rec.length)
  BY <1>6 DEF Bytes
<1>8. QED BY <1>1, <1>2, <1>4, <1>5, <1>7

LEMMA OpenedIsWhole ==
  ASSUME PipeInv, merger # "off", Unread, NEW rec, rec = Meta[read + 1],
         fsm' = Started(rec, 0), read' = read + 1, UNCHANGED <<current, bin, meta>>
  PROVE  OpenIsWhole' /\ Open' = Bytes(rec.offset, rec.length)
<1>1. /\ fsm'.active /\ fsm'.continuous = rec.continuous
      /\ fsm'.total_length = rec.length /\ fsm'.start_ts_ms = rec.ts_ms
      /\ fsm'.start_offset = rec.offset /\ fsm'.expected_seq = rec.seq + 1
      /\ fsm'.expected_offset = rec.offset + rec.length
  BY DEF Started
<1>2. Meta' = Meta /\ Bin' = Bin
  BY DEF Meta, Bin
<1>3. rec.length \in Nat \ {0} /\ rec.seq \in Nat /\ rec.offset \in Nat
  BY NextRow DEF MetaRecord
<1>4. \A i \in 1 .. rec.length : Bin[rec.offset + i] = <<rec.seq, i - 1, rec.length>>
  BY NextRow
<1>5. WholeSegments(Cut(Bin, rec.offset, rec.length))
  <2> DEFINE f == Cut(Bin, rec.offset, rec.length)
  <2>1. DOMAIN f = 1 .. rec.length
    BY DEF Cut
  <2>2. \A i \in 1 .. rec.length : f[i] = <<rec.seq, i - 1, rec.length>>
    BY <1>4 DEF Cut
  <2> HIDE DEF f
  <2>3. WholeSegments(f)
    BY <1>3, <2>1, <2>2, OneSegment
  <2>4. QED BY <2>3 DEF f
<1>6. Bin[rec.offset + rec.length][1] = rec.seq
  <2>1. Bin[rec.offset + rec.length] = <<rec.seq, rec.length - 1, rec.length>>
    BY <1>3, <1>4
  <2>2. QED BY <2>1
<1>7. rec.offset + rec.length <= End(Meta, read + 1)
  BY <1>3, NextRow
<1>8. QED BY <1>1, <1>2, <1>3, <1>5, <1>6, <1>7, NextRow DEF OpenIsWhole, Open

LEMMA JoinedIsWhole ==
  ASSUME PipeInv, merger # "off", Unread, NEW rec, rec = Meta[read + 1],
         fsm.active, NEW tags, fsm' = Appended(rec, 0, tags),
         rec.seq = fsm.expected_seq, rec.offset = fsm.expected_offset,
         read' = read + 1, UNCHANGED <<current, bin, meta>>
  PROVE  OpenIsWhole' /\ Open' = Open \cup Bytes(rec.offset, rec.length)
<1> DEFINE start == fsm.start_offset
           n == fsm.total_length
           m == rec.length
<1>1. fsm \in FsmState /\ OpenIsWhole /\ Bin \in Seq(Byte)
  BY Reading
<1>2. /\ fsm'.active /\ fsm'.continuous = fsm.continuous
      /\ fsm'.total_length = n + m /\ fsm'.start_ts_ms = fsm.start_ts_ms
      /\ fsm'.start_offset = start /\ fsm'.expected_seq = rec.seq + 1
      /\ fsm'.expected_offset = rec.offset + m
  BY <1>1 DEF Appended, FsmState
<1>3. Meta' = Meta /\ Bin' = Bin
  BY DEF Meta, Bin
<1>4. m \in Nat \ {0} /\ rec.seq \in Nat /\ rec.offset \in Nat
  BY NextRow DEF MetaRecord
<1>5. start \in Nat /\ n \in Nat
  BY <1>1 DEF FsmState
<1>6. /\ n \in Nat \ {0} /\ start + n = rec.offset /\ ~fsm.continuous
      /\ fsm.start_ts_ms \in Times
      /\ WholeSegments(Cut(Bin, start, n))
      /\ Bin[rec.offset][1] + 1 = rec.seq
  BY <1>1, <1>5 DEF OpenIsWhole
<1>7. /\ rec.offset + m <= Len(Bin) /\ rec.offset + m = End(Meta, read + 1)
      /\ \A i \in 1 .. m : Bin[rec.offset + i] = <<rec.seq, i - 1, m>>
  BY NextRow
<1>8. WholeSegments(Cut(Bin, start, n + m))
  <2>1. start + n + m <= Len(Bin) /\ n >= 1 /\ m >= 1 /\ m \in Nat
    BY <1>4, <1>6, <1>7
  <2>2. /\ Bin[start + n][1] + 1 = rec.seq
        /\ \A i \in 1 .. m : Bin[start + n + i] = <<rec.seq, i - 1, m>>
    BY <1>6, <1>7
  <2> HIDE DEF start, n, m
  <2>3. QED BY <1>1, <1>5, <1>6, <2>1, <2>2, SegmentJoins
<1>9. Bin[rec.offset + m][1] = rec.seq
  BY <1>4, <1>7
<1>10. Bytes(start, n + m) = Bytes(start, n) \cup Bytes(rec.offset, m)
  BY <1>4, <1>5, <1>6 DEF Bytes
<1>11. OpenIsWhole'
  <2>1. n + m >= 1 /\ start + (n + m) = rec.offset + m
    BY <1>4, <1>5, <1>6
  <2>2. rec.offset + m <= End(Meta, read + 1)
    BY <1>4, <1>7
  <2>3. QED BY <1>2, <1>3, <1>6, <1>8, <1>9, <2>1, <2>2 DEF OpenIsWhole
<1>12. QED BY <1>2, <1>10, <1>11 DEF Open

\* What every step of stream_merge leaves alone.
LEMMA MergerFrame ==
  ASSUME PipeInv, Merging, merger # "off", merger' # "off", stale' = stale,
         FsmTypeOK', read' \in Nat,
         merger' \in {"running", "ending", "done"},
         \/ merger' = merger
         \/ merger' = "ending" /\ sentinel[current]
         \/ merger' = "done" /\ merger = "ending",
         lines' \in Seq(Clip), pipe' \in Seq(Nat)
  PROVE  /\ PipeTypes' /\ Phases' /\ Writing' /\ FilesAgree' /\ Completed' /\ Alone'
         /\ IInv'
         /\ UNCHANGED <<current, bin, meta, indexVars>>
<1>1. UNCHANGED <<serverVars, indexVars, store, query, asked, queries>>
  BY DEF Merging
<1>2. PipeTypes'
  BY <1>1 DEF PipeInv, PipeTypes, serverVars
<1>3. Phases'
  <2>1. merger \in {"running", "ending", "done"} /\ proc = "running"
    BY Reading DEF PipeInv, PipeTypes
  <2>2. \/ merger' = merger
        \/ merger' \in {"ending", "done"} /\ (~stale => server \in Over)
    BY <2>1 DEF PipeInv, Phases
  <2>3. QED BY <1>1, <2>1, <2>2 DEF PipeInv, Phases, Serving, serverVars
<1>4. Writing' /\ FilesAgree'
  BY <1>1, FilesStay DEF PipeInv, Writing, serverVars
<1>5. Completed' /\ Alone'
  BY <1>1, Reading DEF PipeInv, Completed, Alone, serverVars, indexVars
<1>6. IInv'
  BY <1>1, IndexKeeps DEF PipeInv
<1>7. QED BY <1>1, <1>2, <1>3, <1>4, <1>5, <1>6 DEF serverVars

LEMMA MergeRowKeeps == PipeInv /\ MergeRow => PipeInv'
<1> SUFFICES ASSUME PipeInv, MergeRow PROVE PipeInv'
  OBVIOUS
<1> DEFINE rec == Meta[read + 1]
           new == Bytes(rec.offset, rec.length)
<1>1. /\ merger \in {"running", "ending"} /\ Unread /\ Merging
      /\ ProcessRecord(rec, 0) /\ EmitClip
      /\ refused' = IF action' = "REJECT_LATE" THEN refused \cup new ELSE refused
      /\ read' = read + 1 /\ UNCHANGED <<merger, stale>>
  BY DEF MergeRow, Meta
<1>2. merger # "off" /\ UNCHANGED <<current, bin, meta, indexVars>>
  BY <1>1 DEF Merging, serverVars
<1>3. /\ rec \in MetaRecord /\ read + 1 \in 1 .. Len(Meta)
      /\ 1 .. End(Meta, read + 1) = (1 .. End(Meta, read)) \cup new
  BY <1>1, <1>2, NextRow
<1>4. FsmTypeOK'
  BY <1>1, <1>3, ProcessTypes DEF PipeInv, PipeTypes
<1>5. covered \cup refused \cup Open = 1 .. End(Meta, read) /\ OpenIsWhole
  BY <1>2 DEF PipeInv, Merged
<1> HIDE DEF new
<1>6. /\ OpenIsWhole'
      /\ covered' \cup refused' \cup Open' = 1 .. End(Meta, read + 1)
      /\ lines' \in Seq(Clip) /\ pipe' \in Seq(Nat) /\ ClipsAreWhole' /\ Queued'
  <2>1. CASE fsm' = Started(rec, 0) /\ ~fsm.active /\ action' = "NONE"
    <3>1. OpenIsWhole' /\ Open' = new
      BY <1>1, <1>2, <2>1, OpenedIsWhole DEF new
    <3>2. /\ lines' \in Seq(Clip) /\ pipe' \in Seq(Nat) /\ ClipsAreWhole' /\ Queued'
          /\ covered' = covered
      BY <1>1, <1>2, <2>1, NoEmission DEF Emits
    <3>3. Open = {} /\ refused' = refused
      BY <1>1, <2>1 DEF Open
    <3>4. QED BY <1>3, <1>5, <3>1, <3>2, <3>3
  <2>2. CASE fsm' = Started(rec, 0) /\ fsm.active /\ out' = Snapshot(fsm) /\ action' \in Emits
    <3>1. OpenIsWhole' /\ Open' = new
      BY <1>1, <1>2, <2>2, OpenedIsWhole DEF new
    <3>2. /\ lines' \in Seq(Clip) /\ pipe' \in Seq(Nat) /\ ClipsAreWhole' /\ Queued'
          /\ covered' = covered \cup Open
      BY <1>1, <1>2, <2>2, Emission
    <3>3. refused' = refused
      BY <1>1, <2>2 DEF Emits
    <3>4. QED BY <1>3, <1>5, <3>1, <3>2, <3>3
  <2>3. CASE /\ fsm.active /\ \E tags : fsm' = Appended(rec, 0, tags)
             /\ rec.seq = fsm.expected_seq /\ rec.offset = fsm.expected_offset
             /\ action' = "NONE"
    <3>1. OpenIsWhole' /\ Open' = Open \cup new
      BY <1>1, <1>2, <2>3, JoinedIsWhole DEF new
    <3>2. /\ lines' \in Seq(Clip) /\ pipe' \in Seq(Nat) /\ ClipsAreWhole' /\ Queued'
          /\ covered' = covered
      BY <1>1, <1>2, <2>3, NoEmission DEF Emits
    <3>3. refused' = refused
      BY <1>1, <2>3
    <3>4. QED BY <1>3, <1>5, <3>1, <3>2, <3>3
  <2>4. CASE fsm' = fsm /\ action' = "REJECT_LATE"
    <3>1. /\ lines' \in Seq(Clip) /\ pipe' \in Seq(Nat) /\ ClipsAreWhole' /\ Queued'
          /\ covered' = covered
      BY <1>1, <1>2, <2>4, NoEmission DEF Emits
    <3>2. Open' = Open /\ refused' = refused \cup new
      BY <1>1, <2>4 DEF Open, Bytes
    <3>3. OpenIsWhole'
      <4>1. /\ Meta' = Meta /\ Bin' = Bin /\ End(Meta, read) <= End(Meta, read + 1)
            /\ End(Meta, read) \in Nat /\ End(Meta, read + 1) \in Nat
        <5>1. End(Meta, read + 1) = rec.offset + rec.length /\ rec.offset = End(Meta, read)
          BY <1>1, <1>2, NextRow
        <5>2. rec.offset \in Nat /\ rec.length \in Nat
          BY <1>3 DEF MetaRecord
        <5>3. QED BY <1>2, <5>1, <5>2 DEF Meta, Bin
      <4>2. fsm.expected_offset \in Nat
        BY <1>2, Reading DEF FsmState
      <4>3. QED BY <1>1, <1>5, <2>4, <4>1, <4>2 DEF OpenIsWhole
    <3>4. QED BY <1>3, <1>5, <3>1, <3>2, <3>3
  <2>5. QED BY <1>1, <1>2, <2>1, <2>2, <2>3, <2>4, RowMerges
<1>7. /\ PipeTypes' /\ Phases' /\ Writing' /\ FilesAgree' /\ Completed' /\ Alone' /\ IInv'
  BY <1>1, <1>2, <1>3, <1>4, <1>6, MergerFrame
<1>8. Merged'
  <2>1. Meta' = Meta /\ merger' \in {"running", "ending"}
    BY <1>1, <1>2 DEF Meta
  <2>2. QED BY <1>1, <1>3, <1>6, <2>1 DEF Merged
<1>9. QED BY <1>6, <1>7, <1>8 DEF PipeInv

\* A pause or the end gives out what is held, and nothing is held any more.
LEMMA FlushKeeps == PipeInv /\ (MergerIdles \/ MergerEnds) => PipeInv'
<1> SUFFICES ASSUME PipeInv, MergerIdles \/ MergerEnds PROVE PipeInv'
  OBVIOUS
<1>1. /\ Merging /\ EmitClip /\ UNCHANGED <<read, stale, refused>>
      /\ \/ CheckIdle(IdleMs) /\ merger = "running" /\ merger' = merger
         \/ FlushFinal /\ merger = "ending" /\ merger' = "done" /\ ~Unread
  BY DEF MergerIdles, MergerEnds
<1>2. merger # "off" /\ merger' # "off" /\ UNCHANGED <<current, bin, meta, indexVars>>
  BY <1>1 DEF Merging, serverVars
<1>3. IdleMs \in Int
  BY FsmAssumption DEF FsmAssumption
<1>4. FsmTypeOK'
  BY <1>1, <1>3, FlushTypes DEF PipeInv, PipeTypes
<1>5. covered \cup refused \cup Open = 1 .. End(Meta, read) /\ OpenIsWhole
      /\ read \in 0 .. Len(Meta)
  BY <1>2, Reading DEF PipeInv, Merged
<1>6. \/ Holding /\ out' = Snapshot(fsm) /\ fsm' = ResetFsm /\ action' \in Emits
      \/ fsm' = fsm /\ action' = "NONE" /\ (FlushFinal => ~Holding)
  BY <1>1 DEF CheckIdle, FlushFinal, EmitWhole, EmitNothing, Emits
<1>7. /\ OpenIsWhole'
      /\ covered' \cup refused' \cup Open' = 1 .. End(Meta, read)
      /\ lines' \in Seq(Clip) /\ pipe' \in Seq(Nat) /\ ClipsAreWhole' /\ Queued'
      /\ merger' = "done" => ~fsm'.active
  <2>1. CASE Holding /\ out' = Snapshot(fsm) /\ fsm' = ResetFsm /\ action' \in Emits
    <3>1. ~fsm'.active
      BY <2>1 DEF ResetFsm
    <3>2. /\ lines' \in Seq(Clip) /\ pipe' \in Seq(Nat) /\ ClipsAreWhole' /\ Queued'
          /\ covered' = covered \cup Open
      BY <1>1, <1>2, <2>1, Emission DEF Holding
    <3>3. QED BY <1>1, <1>5, <3>1, <3>2 DEF OpenIsWhole, Open
  <2>2. CASE fsm' = fsm /\ action' = "NONE" /\ (FlushFinal => ~Holding)
    <3>1. /\ lines' \in Seq(Clip) /\ pipe' \in Seq(Nat) /\ ClipsAreWhole' /\ Queued'
          /\ covered' = covered
      BY <1>1, <1>2, <2>2, NoEmission DEF Emits
    <3>2. Open' = Open /\ OpenIsWhole'
      BY <1>1, <1>2, <1>5, <2>2 DEF Open, Bytes, OpenIsWhole, Meta, Bin
    <3>3. merger' = "done" => ~fsm'.active
      <4>1. fsm.active => fsm.total_length # 0
        BY <1>2, <1>5, Reading DEF OpenIsWhole, FsmState
      <4>2. QED BY <1>1, <2>2, <4>1 DEF Holding
    <3>4. QED BY <1>1, <1>5, <3>1, <3>2, <3>3
  <2>3. QED BY <1>6, <2>1, <2>2
<1>8. /\ PipeTypes' /\ Phases' /\ Writing' /\ FilesAgree' /\ Completed' /\ Alone' /\ IInv'
  BY <1>1, <1>2, <1>4, <1>5, <1>7, MergerFrame
<1>9. Merged'
  <2>1. Meta' = Meta
    BY <1>2 DEF Meta
  <2>2. merger' = "done" => read = Len(Meta)
    <3>1. Len(Meta) \in Nat
      BY <1>2, Reading
    <3>2. QED BY <1>1, <1>5, <3>1 DEF Unread, Meta
  <2>3. QED BY <1>1, <1>5, <1>7, <2>1, <2>2 DEF Merged
<1>10. QED BY <1>7, <1>8, <1>9 DEF PipeInv

LEMMA SeeSentinelKeeps == PipeInv /\ SeeSentinel => PipeInv'
<1> SUFFICES ASSUME PipeInv, SeeSentinel PROVE PipeInv'
  OBVIOUS
<1>1. /\ merger = "running" /\ merger' = "ending" /\ sentinel[current] /\ Merging
      /\ UNCHANGED <<fsm, action, out, read, stale, covered, refused, pipe, lines>>
      /\ UNCHANGED <<current, bin, meta, indexVars>>
  BY DEF SeeSentinel, Merging, serverVars
<1>2. FsmTypeOK' /\ read' \in Nat /\ lines' \in Seq(Clip) /\ pipe' \in Seq(Nat)
  BY <1>1 DEF PipeInv, PipeTypes, FsmTypeOK
<1>3. /\ PipeTypes' /\ Phases' /\ Writing' /\ FilesAgree' /\ Completed' /\ Alone' /\ IInv'
  <2>1. merger # "off" /\ merger' # "off" /\ stale' = stale
    BY <1>1
  <2>2. QED BY <1>1, <1>2, <2>1, MergerFrame
<1>4. ClipsAreWhole' /\ Queued'
  BY <1>1 DEF PipeInv, ClipsAreWhole, Queued, Stored, KeyOf, indexVars
<1>5. Merged'
  BY <1>1 DEF PipeInv, Merged, Meta, Bin, Open, OpenIsWhole, Bytes, End
<1>6. QED BY <1>3, <1>4, <1>5 DEF PipeInv

LEMMA MergerStartsKeeps == PipeInv /\ MergerStarts => PipeInv'
<1> SUFFICES ASSUME PipeInv, MergerStarts PROVE PipeInv'
  OBVIOUS
<1>1. /\ proc = "running" /\ merger = "off" /\ Merging
      /\ merger' = (IF sentinel[current] THEN "ending" ELSE "running")
      /\ stale' = sentinel[current] /\ fsm' = ResetFsm /\ action' = "NONE"
      /\ out' = NoClip /\ read' = 0 /\ covered' = {} /\ refused' = {}
      /\ UNCHANGED <<pipe, lines>>
      /\ UNCHANGED <<serverVars, indexVars, store, query, asked, queries>>
  BY DEF MergerStarts, Merging
<1>2. FsmTypeOK'
  BY <1>1, ResetType, NoClipType DEF FsmTypeOK, Actions
<1>3. Serving /\ sentinel[current] \in BOOLEAN
  BY <1>1 DEF PipeInv, PipeTypes, Phases, Serving
<1>4. PipeTypes'
  BY <1>1, <1>2, <1>3 DEF PipeInv, PipeTypes, serverVars
<1>5. Phases'
  BY <1>1, <1>3 DEF PipeInv, Phases, Serving, serverVars
<1>6. Writing' /\ FilesAgree'
  BY <1>1, FilesStay DEF PipeInv, Writing, serverVars
<1>7. Merged'
  <2>1. ~fsm'.active
    BY <1>1 DEF ResetFsm
  <2>2. Meta' \in Seq(MetaRecord)
    BY <1>1, <1>3 DEF PipeInv, PipeTypes, Serving, Meta, serverVars
  <2>3. Len(Meta') \in Nat /\ End(Meta', 0) = 0
    BY <2>2 DEF End
  <2>4. 1 .. 0 = {}
    OBVIOUS
  <2>5. QED BY <1>1, <2>1, <2>3, <2>4 DEF Merged, OpenIsWhole, Open
<1>8. Completed' /\ Alone' /\ ClipsAreWhole' /\ Queued'
  BY <1>1 DEF PipeInv, Completed, Alone, ClipsAreWhole, Queued, Stored, KeyOf, indexVars,
     serverVars
<1>9. IInv'
  BY <1>1, IndexKeeps DEF PipeInv
<1>10. QED BY <1>4, <1>5, <1>6, <1>7, <1>8, <1>9 DEF PipeInv

LEMMA MergerKeeps == PipeInv /\ Merger => PipeInv'
BY MergerStartsKeeps, MergeRowKeeps, FlushKeeps, SeeSentinelKeeps DEF Merger

-----------------------------------------------------------------------------------
(* clip_store                                                                    *)

\* What stays true while the files and stream_merge stand still.
LEMMA SourceStays ==
  ASSUME PipeInv, UNCHANGED <<server, current, bin, meta, offset, payload>>,
         UNCHANGED <<fsm, merger, read, stale, covered, refused>>
  PROVE  Writing' /\ FilesAgree' /\ Merged'
<1>1. Writing'
  BY DEF PipeInv, Writing
<1>2. FilesAgree'
  BY FilesStay
<1>3. Merged'
  BY DEF PipeInv, Merged, Meta, Bin, Open, OpenIsWhole, Bytes, End
<1>4. QED BY <1>1, <1>2, <1>3

\* The key of a clip is one the database may hold.
LEMMA ClipKey ==
  ASSUME lines \in Seq(Clip), NEW n \in 1 .. Len(lines)
  PROVE  KeyOf(n) \in Keys
<1>1. lines[n].id \in Sessions /\ lines[n].start \in Times
  <2>1. lines[n] \in Clip
    OBVIOUS
  <2>2. QED BY <2>1 DEF Clip
<1>2. PICK d \in Datagrams : lines[n].start = d.ts_ms
  BY <1>1 DEF Times
<1>3. <<lines[n].id, Seconds(d.ts_ms)>> \in Keys
  BY <1>1, PipelineAssumption DEF PipelineAssumption
<1>4. QED BY <1>2, <1>3 DEF KeyOf

LEMMA LineIsValue == Line \in Values /\ Line # Erased
BY PipelineAssumption, ValuesAssumption DEF PipelineAssumption, ValuesAssumption, Line

LEMMA StoreStartsKeeps == PipeInv /\ StoreStarts => PipeInv'
<1> SUFFICES ASSUME PipeInv, StoreStarts PROVE PipeInv'
  OBVIOUS
<1>1. /\ proc = "running" /\ store = "off" /\ store' = "appending" /\ query # "running"
      /\ UNCHANGED <<serverVars, mergeVars, pipe, lines, indexVars, query>>
  BY DEF StoreStarts, Storing, indexVars
<1>2. PipeTypes'
  BY <1>1 DEF PipeInv, PipeTypes, serverVars, mergeVars, FsmTypeOK
<1>3. Phases'
  BY <1>1 DEF PipeInv, Phases, Serving, serverVars, mergeVars
<1>4. Writing' /\ FilesAgree' /\ Merged'
  BY <1>1, SourceStays DEF serverVars, mergeVars
<1>5. Completed' /\ Alone' /\ ClipsAreWhole' /\ Queued'
  BY <1>1 DEF PipeInv, Completed, Alone, ClipsAreWhole, Queued, Stored, KeyOf, indexVars,
     serverVars
<1>6. IInv'
  BY <1>1, IndexKeeps DEF PipeInv
<1>7. QED BY <1>2, <1>3, <1>4, <1>5, <1>6 DEF PipeInv

\* The line that leaves the pipe is the next row of the file.
LEMMA StoreClipKeeps == PipeInv /\ StoreClip => PipeInv'
<1> SUFFICES ASSUME PipeInv, StoreClip PROVE PipeInv'
  OBVIOUS
<1> DEFINE row == [key |-> KeyOf(Head(pipe)), val |-> Line, exp |-> 0,
                   n |-> Head(pipe), whole |-> TRUE]
<1>1. /\ store = "appending" /\ pipe # <<>> /\ file' = Append(file, row)
      /\ pipe' = Tail(pipe)
      /\ UNCHANGED <<serverVars, mergeVars, lines, wanted, pos, index, grown, next_cap,
                     bucket, goal, idx, pc, answer, query, store>>
  BY DEF StoreClip, Storing
<1>2. /\ pipe \in Seq(Nat) /\ file \in Seq(Row) /\ lines \in Seq(Clip)
      /\ OldFile \in Seq(Row)
  BY IndexAssumption DEF PipeInv, PipeTypes, IInv, IndexTypeOK, IndexAssumption
<1>3. /\ Stored \in Nat /\ Stored + Len(pipe) = Len(lines)
      /\ \A i \in 1 .. Len(OldFile) : file[i] = OldFile[i]
      /\ \A n \in 1 .. Stored :
           file[Len(OldFile) + n] =
             [key |-> KeyOf(n), val |-> Line, exp |-> 0, n |-> n, whole |-> TRUE]
      /\ \A j \in 1 .. Len(pipe) : pipe[j] = Stored + j
  BY DEF PipeInv, Queued
<1>4. /\ Len(pipe) \in Nat /\ Len(pipe) >= 1 /\ Len(lines) \in Nat
      /\ Head(pipe) = Stored + 1 /\ Stored + 1 \in 1 .. Len(lines)
  <2>1. Len(pipe) \in Nat /\ Len(pipe) >= 1 /\ Head(pipe) = pipe[1] /\ Len(lines) \in Nat
    BY <1>1, <1>2
  <2>2. QED BY <1>3, <2>1
<1>5. row \in Row
  <2>1. KeyOf(Head(pipe)) \in Keys /\ Head(pipe) \in Nat
    BY <1>2, <1>3, <1>4, ClipKey
  <2>2. QED BY <2>1, LineIsValue DEF Row
<1> HIDE DEF row
<1>6. /\ file' \in Seq(Row) /\ Len(file') = Len(file) + 1
      /\ \A i \in 1 .. Len(file) : file'[i] = file[i]
      /\ file'[Len(file) + 1] = row
  BY <1>1, <1>2, <1>5
<1>7. /\ pipe' \in Seq(Nat) /\ Len(pipe') = Len(pipe) - 1
      /\ \A j \in 1 .. Len(pipe) - 1 : pipe'[j] = pipe[j + 1]
  BY <1>1, <1>2
<1>8. IInv'
  <2>1. pc = "idle"
    BY <1>1 DEF PipeInv, Alone
  <2>2. FileChanges
    BY <1>1, <1>6, <2>1 DEF FileChanges
  <2>3. QED BY <2>2, IndexKeeps DEF PipeInv, IndexNext
<1>9. Queued'
  <2>1. Stored' = Stored + 1 /\ Len(file) = Len(OldFile) + Stored
        /\ Len(file) \in Nat /\ Len(OldFile) \in Nat
    BY <1>2, <1>6 DEF Stored
  <2>2. \A i \in 1 .. Len(OldFile) : file'[i] = OldFile[i]
    BY <1>3, <1>6, <2>1
  <2>3. ASSUME NEW n \in 1 .. Stored + 1
        PROVE  file'[Len(OldFile) + n] =
                 [key |-> KeyOf(n), val |-> Line, exp |-> 0, n |-> n, whole |-> TRUE]
    <3>1. CASE n \in 1 .. Stored
      <4>1. file'[Len(OldFile) + n] = file[Len(OldFile) + n]
        BY <1>3, <1>6, <2>1, <3>1
      <4>2. QED BY <1>3, <3>1, <4>1
    <3>2. CASE n = Stored + 1
      <4>1. file'[Len(OldFile) + n] = row /\ Head(pipe) = n
        BY <1>3, <1>4, <1>6, <2>1, <3>2
      <4>2. QED BY <4>1 DEF row
    <3>3. QED BY <1>3, <3>1, <3>2
  <2>4. \A n : KeyOf(n)' = KeyOf(n)
    BY <1>1 DEF KeyOf
  <2>5. \A j \in 1 .. Len(pipe) - 1 : pipe'[j] = Stored + 1 + j
    <3> SUFFICES ASSUME NEW j \in 1 .. Len(pipe) - 1 PROVE pipe'[j] = Stored + 1 + j
      OBVIOUS
    <3>1. j + 1 \in 1 .. Len(pipe) /\ Stored + (j + 1) = Stored + 1 + j
      BY <1>3, <1>4
    <3>2. QED BY <1>3, <1>7, <3>1
  <2>6. Stored + 1 \in Nat /\ (Stored + 1) + (Len(pipe) - 1) = Len(lines)
    BY <1>3, <1>4
  <2>7. QED BY <1>1, <1>7, <2>1, <2>2, <2>3, <2>4, <2>5, <2>6 DEF Queued
<1>10. PipeTypes'
  BY <1>1, <1>7 DEF PipeInv, PipeTypes, serverVars, mergeVars, FsmTypeOK
<1>11. Phases'
  BY <1>1 DEF PipeInv, Phases, Serving, serverVars, mergeVars
<1>12. Writing' /\ FilesAgree' /\ Merged'
  BY <1>1, SourceStays DEF serverVars, mergeVars
<1>13. Completed' /\ Alone' /\ ClipsAreWhole'
  BY <1>1 DEF PipeInv, Completed, Alone, ClipsAreWhole, serverVars, mergeVars, Meta, End
<1>14. QED BY <1>8, <1>9, <1>10, <1>11, <1>12, <1>13 DEF PipeInv

\* The session ends when everything read is given out and stored.
LEMMA SessionExitsKeeps == PipeInv /\ SessionExits => PipeInv'
<1> SUFFICES ASSUME PipeInv, SessionExits PROVE PipeInv'
  OBVIOUS
<1>1. /\ store = "appending" /\ pipe = <<>> /\ merger = "done" /\ store' = "off"
      /\ merger' = "off" /\ proc' = "exited"
      /\ UNCHANGED <<server, next, current, payload, offset, bin, meta, sentinel>>
      /\ UNCHANGED <<fsm, action, out, read, stale, covered, refused, indexVars, pipe,
                     query, lines>>
  BY DEF SessionExits
<1>2. Serving /\ proc = "running" /\ Merged
  BY <1>1, Reading DEF PipeInv
<1>3. PipeTypes'
  BY <1>1 DEF PipeInv, PipeTypes, FsmTypeOK
<1>4. Phases'
  BY <1>1, <1>2 DEF PipeInv, Phases, Serving
<1>5. Writing' /\ FilesAgree'
  BY <1>1, FilesStay DEF PipeInv, Writing
<1>6. Merged'
  BY <1>1 DEF Merged
<1>7. Completed'
  <2>1. ~stale => covered \cup refused = 1 .. End(Meta, Len(Meta))
    BY <1>1, <1>2 DEF Merged, Open
  <2>2. QED BY <1>1, <2>1 DEF Completed, Meta, End
<1>8. Alone' /\ ClipsAreWhole' /\ Queued'
  BY <1>1 DEF PipeInv, Alone, ClipsAreWhole, Queued, Stored, KeyOf, indexVars
<1>9. IInv'
  BY <1>1, IndexKeeps DEF PipeInv
<1>10. QED BY <1>3, <1>4, <1>5, <1>6, <1>7, <1>8, <1>9 DEF PipeInv

-----------------------------------------------------------------------------------
(* Queries                                                                       *)

\* A query takes steps of the index, alone and without changing the file.
LEMMA QuerySteps ==
  ASSUME PipeInv, Query
  PROVE  /\ Querying /\ file' = file
         /\ query' = "running" => pc' # "idle" /\ store = "off"
         /\ query' # "running" => query' = "none" /\ pc' = "idle"
         /\ IndexNext
<1>1. CASE LockGranted
  <2>1. PICK q \in Queries : StartLoad(q.keys)
    BY <1>1 DEF LockGranted
  <2>2. q.keys = {} \/ \E key \in Keys : q.keys = {key}
    BY PipelineAssumption DEF PipelineAssumption
  <2>3. IndexNext
    BY <2>1, <2>2 DEF IndexNext
  <2>4. store = "off"
    BY <1>1 DEF LockGranted, PipeInv, PipeTypes
  <2>5. QED BY <1>1, <2>1, <2>3, <2>4 DEF LockGranted, StartLoad
<1>2. CASE QueryStep
  <2>1. IndexStep /\ Querying /\ query = "running" /\ query' = query
    BY <1>2 DEF QueryStep
  <2>2. file' = file /\ pc' # "idle"
    <3>1. CASE SkipLine \/ TakeLine \/ EndOfFile
      BY <3>1 DEF SkipLine, TakeLine, EndOfFile
    <3>2. CASE LoadFails
      BY <3>2 DEF LoadFails, Freed
    <3>3. CASE Double \/ HasRoom \/ Allocate \/ SkipBucket \/ MoveBucket \/ Replace
      BY <3>3 DEF Double, HasRoom, Allocate, SkipBucket, MoveBucket, Replace, Find
    <3>4. CASE NextBucket \/ PlaceMoved \/ Put
      BY <3>4 DEF NextBucket, PlaceMoved, Put, Insert, Overwrite
    <3>5. CASE Scan \/ GetFromNothing \/ Get \/ Got
      BY <3>5 DEF Scan, GetFromNothing, Get, Got, Find
    <3>6. QED BY <2>1, <3>1, <3>2, <3>3, <3>4, <3>5 DEF IndexStep
  <2>3. store = "off"
    BY <2>1 DEF PipeInv, Alone
  <2>4. QED BY <2>1, <2>2, <2>3 DEF IndexNext
<1>3. CASE QueryEnds
  BY <1>3 DEF QueryEnds, Release, Freed, IndexNext
<1>4. QED BY <1>1, <1>2, <1>3 DEF Query

LEMMA QueryKeeps == PipeInv /\ (AskFor \/ Query) => PipeInv'
<1> SUFFICES ASSUME PipeInv, AskFor \/ Query PROVE PipeInv'
  OBVIOUS
<1>1. UNCHANGED <<serverVars, mergeVars, pipe, store, lines, file>> /\ Alone' /\ IInv'
  <2>1. CASE AskFor
    <3>1. /\ query = "none" /\ query' = "waiting" /\ UNCHANGED indexVars
          /\ UNCHANGED <<serverVars, mergeVars, pipe, store, lines>>
      BY <2>1 DEF AskFor, Querying
    <3>2. QED BY <3>1, IndexKeeps DEF PipeInv, Alone, indexVars
  <2>2. CASE Query
    <3>1. /\ Querying /\ file' = file /\ IndexNext
          /\ query' = "running" => pc' # "idle" /\ store = "off"
          /\ query' # "running" => query' = "none" /\ pc' = "idle"
      BY <2>2, QuerySteps
    <3>2. IInv'
      BY <3>1, IndexKeeps DEF PipeInv
    <3>3. QED BY <3>1, <3>2 DEF Querying, Alone
  <2>3. QED BY <2>1, <2>2
<1>2. PipeTypes'
  BY <1>1 DEF PipeInv, PipeTypes, serverVars, mergeVars, FsmTypeOK
<1>3. Phases'
  BY <1>1 DEF PipeInv, Phases, Serving, serverVars, mergeVars
<1>4. Writing' /\ FilesAgree' /\ Merged'
  BY <1>1, SourceStays DEF serverVars, mergeVars
<1>5. Completed' /\ ClipsAreWhole' /\ Queued'
  BY <1>1 DEF PipeInv, Completed, ClipsAreWhole, Queued, Stored, KeyOf, serverVars,
     mergeVars, Meta, End
<1>6. QED BY <1>1, <1>2, <1>3, <1>4, <1>5 DEF PipeInv

-----------------------------------------------------------------------------------
(* The inductive invariant                                                       *)

LEMMA PipeStarts == Init => PipeInv
<1> SUFFICES ASSUME Init PROVE PipeInv
  OBVIOUS
<1>1. IInv
  BY IndexStarts DEF Init
<1>2. /\ server = "recv" /\ next = NoSession /\ current = NoSession /\ offset = 0
      /\ bin = [id \in Sessions |-> <<>>] /\ meta = [id \in Sessions |-> <<>>]
      /\ sentinel = [id \in Sessions |-> FALSE] /\ proc = "none"
      /\ merger = "off" /\ read = 0 /\ pipe = <<>> /\ store = "off" /\ query = "none"
      /\ stale = FALSE /\ lines = <<>> /\ file = OldFile /\ pc = "idle"
      /\ FsmInit
  BY DEF Init, ServerInit, IndexInit
<1>3. ~Serving
  BY <1>2, DatagramsAssumption DEF Serving, DatagramsAssumption
<1>4. PipeTypes
  <2>1. FsmTypeOK
    BY <1>2, ResetType, NoClipType DEF FsmInit, FsmTypeOK, Actions
  <2>2. bin \in [Sessions -> Seq(Byte)] /\ meta \in [Sessions -> Seq(MetaRecord)]
    BY <1>2
  <2>3. sentinel \in [Sessions -> BOOLEAN] /\ pipe \in Seq(Nat) /\ lines \in Seq(Clip)
    BY <1>2
  <2>4. QED BY <1>2, <2>1, <2>2, <2>3 DEF PipeTypes
<1>5. Phases /\ Writing /\ FilesAgree /\ Merged /\ Completed /\ ClipsAreWhole /\ Alone
  BY <1>2, <1>3 DEF Phases, Writing, FilesAgree, Merged, Completed, ClipsAreWhole, Alone
<1>6. Queued
  BY <1>2, IndexAssumption DEF Queued, Stored, IndexAssumption
<1>7. QED BY <1>1, <1>4, <1>5, <1>6 DEF PipeInv

LEMMA PipeKeeps == PipeInv /\ [Next]_vars => PipeInv'
<1> SUFFICES ASSUME PipeInv, [Next]_vars PROVE PipeInv'
  OBVIOUS
<1>1. CASE Server
  BY <1>1, ServerKeeps
<1>2. CASE Merger
  BY <1>2, MergerKeeps
<1>3. CASE Store
  BY <1>3, StoreStartsKeeps, StoreClipKeeps, SessionExitsKeeps DEF Store
<1>4. CASE AskFor \/ Query
  BY <1>4, QueryKeeps
<1>5. CASE UNCHANGED vars
  <2>1. UNCHANGED <<serverVars, mergeVars, pipe, store, indexVars, query, lines>>
    BY <1>5 DEF vars
  <2>2. PipeTypes'
    BY <2>1 DEF PipeInv, PipeTypes, serverVars, mergeVars, FsmTypeOK
  <2>3. Phases'
    BY <2>1 DEF PipeInv, Phases, Serving, serverVars, mergeVars
  <2>4. Writing' /\ FilesAgree' /\ Merged'
    BY <2>1, SourceStays DEF serverVars, mergeVars
  <2>5. Completed' /\ Alone' /\ ClipsAreWhole' /\ Queued'
    BY <2>1, OthersStay DEF PipeInv, Completed, serverVars, mergeVars, Meta, End
  <2>6. IInv'
    BY <2>1, IndexKeeps DEF PipeInv
  <2>7. QED BY <2>2, <2>3, <2>4, <2>5, <2>6 DEF PipeInv
<1>6. QED BY <1>1, <1>2, <1>3, <1>4, <1>5 DEF Next

-----------------------------------------------------------------------------------
(* What the invariant means                                                      *)

\* The place of line n in the file.
Place(n) == Len(OldFile) + n

\* The rows of the file that have a number are the lines stored, in order.
LEMMA StoredRows ==
  ASSUME PipeInv
  PROVE  /\ Stored \in Nat /\ Stored <= Len(lines) /\ Len(OldFile) \in Nat
         /\ DOMAIN file = 1 .. Len(OldFile) + Stored
         /\ \A i \in 1 .. Len(OldFile) : file[i].n = 0
         /\ \A n \in 1 .. Stored :
              /\ Place(n) \in DOMAIN file /\ file[Place(n)].n = n
              /\ file[Place(n)].key = KeyOf(n) /\ file[Place(n)].whole
              /\ RowIsLive(file[Place(n)], 0)
         /\ \A i \in DOMAIN file :
              file[i].n # 0 => file[i].n \in 1 .. Stored /\ i = Place(file[i].n)
         /\ {file[i].n : i \in DOMAIN file} \ {0} = 1 .. Stored
<1>1. /\ pipe \in Seq(Nat) /\ file \in Seq(Row) /\ lines \in Seq(Clip)
      /\ OldFile \in Seq(Row)
  BY IndexAssumption DEF PipeInv, PipeTypes, IInv, IndexTypeOK, IndexAssumption
<1>2. Queued
  BY DEF PipeInv
<1>3. /\ Stored \in Nat /\ Stored <= Len(lines) /\ Len(OldFile) \in Nat
      /\ DOMAIN file = 1 .. Len(OldFile) + Stored
  <2>1. Stored \in Nat /\ Stored + Len(pipe) = Len(lines)
    BY <1>2 DEF Queued
  <2>2. /\ Len(pipe) \in Nat /\ Len(OldFile) \in Nat /\ Len(file) \in Nat
        /\ DOMAIN file = 1 .. Len(file)
    BY <1>1
  <2>3. Len(file) = Len(OldFile) + Stored
    BY <2>2 DEF Stored
  <2>4. QED BY <2>1, <2>2, <2>3
<1>4. \A i \in 1 .. Len(OldFile) : file[i].n = 0
  BY <1>1, <1>2, PipelineAssumption DEF Queued, PipelineAssumption
<1>5. ASSUME NEW n \in 1 .. Stored
      PROVE  /\ Place(n) \in DOMAIN file /\ file[Place(n)].n = n
             /\ file[Place(n)].key = KeyOf(n) /\ file[Place(n)].whole
             /\ RowIsLive(file[Place(n)], 0)
  <2>1. file[Place(n)] =
          [key |-> KeyOf(n), val |-> Line, exp |-> 0, n |-> n, whole |-> TRUE]
    BY <1>2 DEF Queued, Place
  <2>2. /\ file[Place(n)].n = n /\ file[Place(n)].key = KeyOf(n)
        /\ file[Place(n)].whole /\ file[Place(n)].val = Line /\ file[Place(n)].exp = 0
    BY <2>1
  <2>3. Place(n) \in DOMAIN file
    BY <1>3 DEF Place
  <2>4. RowIsLive(file[Place(n)], 0)
    BY <2>2, LineIsValue DEF RowIsLive, IsTombstone, IsExpired
  <2>5. QED BY <2>2, <2>3, <2>4
<1>6. ASSUME NEW i \in DOMAIN file, file[i].n # 0
      PROVE  file[i].n \in 1 .. Stored /\ i = Place(file[i].n)
  <2>1. i \in 1 .. Len(OldFile) + Stored /\ i \notin 1 .. Len(OldFile)
    BY <1>3, <1>4, <1>6
  <2>2. i - Len(OldFile) \in 1 .. Stored /\ Place(i - Len(OldFile)) = i
    BY <1>3, <2>1 DEF Place
  <2>3. file[i].n = i - Len(OldFile)
    BY <1>5, <2>2
  <2>4. QED BY <2>2, <2>3
<1>7. {file[i].n : i \in DOMAIN file} \ {0} = 1 .. Stored
  <2>1. \A n \in 1 .. Stored : n # 0 /\ Place(n) \in DOMAIN file /\ file[Place(n)].n = n
    BY <1>3, <1>5
  <2>2. QED BY <1>6, <2>1
<1>8. QED BY <1>3, <1>4, <1>5, <1>6, <1>7

LEMMA EndedMeansComplete == PipeInv => SessionComplete
<1> SUFFICES ASSUME PipeInv, proc = "exited", ~stale
    PROVE  /\ covered \cup refused = DOMAIN bin[current]
           /\ DOMAIN lines = {file[i].n : i \in DOMAIN file} \ {0}
  BY DEF SessionComplete
<1>1. covered \cup refused = DOMAIN bin[current]
  <2>1. Serving /\ server \in Over /\ Bin \in Seq(Byte)
    BY DEF PipeInv, PipeTypes, Phases, Serving, Bin
  <2>2. Len(Bin) = End(Meta, Len(Meta))
    BY <2>1 DEF PipeInv, FilesAgree, Over
  <2>3. covered \cup refused = 1 .. End(Meta, Len(Meta))
    BY DEF PipeInv, Completed
  <2>4. QED BY <2>1, <2>2, <2>3 DEF Bin
<1>2. DOMAIN lines = {file[i].n : i \in DOMAIN file} \ {0}
  <2>1. pipe = <<>> /\ lines \in Seq(Clip) /\ Stored + Len(pipe) = Len(lines)
    BY DEF PipeInv, PipeTypes, Phases, Queued
  <2>2. Stored = Len(lines) /\ DOMAIN lines = 1 .. Len(lines)
    BY <2>1, StoredRows
  <2>3. QED BY <2>2, StoredRows
<1>3. QED BY <1>1, <1>2

\* Rows written after a whole row are whole lines.
LEMMA StoredIsReadable ==
  ASSUME PipeInv, NEW n \in 1 .. Stored
  PROVE  Place(n) \in Readable(file)
<1>1. /\ Place(n) \in DOMAIN file /\ file[Place(n)].whole
      /\ Len(OldFile) \in Nat /\ Stored \in Nat
  BY StoredRows
<1>2. ASSUME Place(n) > 1 PROVE file[Place(n) - 1].whole
  <2>1. CASE n = 1
    <3>1. /\ Place(n) - 1 = Len(OldFile) /\ OldFile # <<>>
          /\ Len(OldFile) \in 1 .. Len(OldFile)
      BY <1>1, <1>2, <2>1 DEF Place
    <3>2. file[Len(OldFile)] = OldFile[Len(OldFile)]
      BY <3>1 DEF PipeInv, Queued
    <3>3. OldFile[Len(OldFile)].whole
      BY <3>1, PipelineAssumption DEF PipelineAssumption
    <3>4. QED BY <3>1, <3>2, <3>3
  <2>2. CASE n # 1
    <3>1. n - 1 \in 1 .. Stored /\ Place(n - 1) = Place(n) - 1
      BY <1>1, <2>2 DEF Place
    <3>2. \A m \in 1 .. Stored : file[Place(m)].whole
      BY StoredRows
    <3>3. file[Place(n - 1)].whole
      BY <3>1, <3>2
    <3>4. QED BY <3>1, <3>3
  <2>3. QED BY <2>1, <2>2
<1>3. QED BY <1>1, <1>2 DEF Readable

\* A stored clip is the latest of its key unless a later one has the same key.
LEMMA LatestStored ==
  ASSUME PipeInv, NEW n \in 1 .. Stored
  PROVE  file[Place(n)] \in LatestRows(file)
           <=> \A m \in 1 .. Stored : m > n => KeyOf(m) # KeyOf(n)
<1>1. /\ Stored \in Nat /\ Len(OldFile) \in Nat
      /\ DOMAIN file = 1 .. Len(OldFile) + Stored
      /\ \A m \in 1 .. Stored : file[Place(m)].key = KeyOf(m) /\ file[Place(m)].n = m
      /\ \A i \in DOMAIN file : file[i].n # 0 => i = Place(file[i].n)
  BY StoredRows
<1>2. \A m \in 1 .. Stored : Place(m) \in Readable(file)
  BY StoredIsReadable
<1>3. ASSUME file[Place(n)] \in LatestRows(file), NEW m \in 1 .. Stored, m > n
      PROVE  KeyOf(m) # KeyOf(n)
  <2>1. PICK j \in Readable(file) :
          /\ file[j] = file[Place(n)]
          /\ \A k \in Readable(file) : k > j => file[k].key # file[j].key
    BY <1>3 DEF LatestRows
  <2>2. j = Place(n)
    <3>1. file[j].n = n /\ n # 0 /\ j \in DOMAIN file
      BY <1>1, <2>1 DEF Readable
    <3>2. QED BY <1>1, <3>1
  <2>3. Place(m) > Place(n)
    BY <1>1, <1>3 DEF Place
  <2>4. QED BY <1>1, <1>2, <2>1, <2>2, <2>3
<1>4. ASSUME \A m \in 1 .. Stored : m > n => KeyOf(m) # KeyOf(n)
      PROVE  file[Place(n)] \in LatestRows(file)
  <2>1. ASSUME NEW k \in Readable(file), k > Place(n)
        PROVE  file[k].key # file[Place(n)].key
    <3>1. k - Len(OldFile) \in 1 .. Stored /\ Place(k - Len(OldFile)) = k
          /\ k - Len(OldFile) > n
      <4>1. k \in 1 .. Len(OldFile) + Stored
        BY <1>1 DEF Readable
      <4>2. QED BY <1>1, <2>1, <4>1 DEF Place
    <3>2. QED BY <1>1, <1>4, <3>1
  <2>2. QED BY <1>2, <2>1 DEF LatestRows
<1>5. QED BY <1>3, <1>4

LEMMA AnsweredIsExact == PipeInv => OnlySameSecondReplaced
<1> SUFFICES ASSUME PipeInv, pc = "answered", wanted = {}
    PROVE  Printed \ {0} =
             {n \in 1 .. Stored :
                /\ lines[n].id = asked.id
                /\ \A m \in 1 .. Stored :
                     m > n /\ Seconds(lines[m].start) = Seconds(lines[n].start)
                       => lines[m].id # asked.id}
  BY StoredRows DEF OnlySameSecondReplaced
<1>1. answer = LatestRows(file)
  <2>1. AnswerIsLatest
    BY DEF PipeInv, IInv
  <2>2. QED BY <2>1 DEF AnswerIsLatest
<1>2. /\ \A n \in 1 .. Stored :
           /\ file[Place(n)].n = n /\ RowIsLive(file[Place(n)], 0)
           /\ file[Place(n)].key[1] = lines[n].id /\ n # 0
      /\ \A i \in DOMAIN file :
           file[i].n # 0 => file[i].n \in 1 .. Stored /\ i = Place(file[i].n)
  <2>1. \A n \in 1 .. Stored : KeyOf(n)[1] = lines[n].id /\ n # 0
    BY DEF KeyOf
  <2>2. QED BY <2>1, StoredRows
<1>3. ASSUME NEW n \in Printed, n # 0
      PROVE  /\ n \in 1 .. Stored /\ lines[n].id = asked.id
             /\ file[Place(n)] \in LatestRows(file)
  <2>1. PICK row \in LatestRows(file) : row.key[1] = asked.id /\ row.n = n
    BY <1>1 DEF Printed
  <2>2. PICK i \in DOMAIN file : row = file[i]
    BY DEF LatestRows, Readable
  <2>3. n \in 1 .. Stored /\ i = Place(n)
    BY <1>2, <1>3, <2>1, <2>2
  <2>4. QED BY <1>2, <2>1, <2>2, <2>3
<1>4. ASSUME NEW n \in 1 .. Stored, lines[n].id = asked.id,
             file[Place(n)] \in LatestRows(file)
      PROVE  n \in Printed /\ n # 0
  BY <1>1, <1>2, <1>4 DEF Printed
<1>5. ASSUME NEW n \in 1 .. Stored, lines[n].id = asked.id
      PROVE  file[Place(n)] \in LatestRows(file)
               <=> \A m \in 1 .. Stored :
                     m > n /\ Seconds(lines[m].start) = Seconds(lines[n].start)
                       => lines[m].id # asked.id
  BY <1>5, LatestStored DEF KeyOf
<1>6. QED BY <1>3, <1>4, <1>5

-----------------------------------------------------------------------------------
(* Theorems                                                                      *)

\* The files, the processes, the pipe and the database agree, at every step.
THEOREM PipelineInvariant == Spec => []PipeInv
<1>1. Init => PipeInv
  BY PipeStarts
<1>2. PipeInv /\ [Next]_vars => PipeInv'
  BY PipeKeeps
<1>3. QED BY <1>1, <1>2, PTL DEF Spec

\* Whatever fragments are lost, repeated, reordered or cut differently, every clip
\* that stream_merge gives out consists of whole consecutive segments, all of whose
\* bytes are in the file (udp_stream_data_server.py:76-79, sm_fsm.c:93-160).
THEOREM ClipsAreWholeHolds == Spec => []ClipsAreWhole
<1>1. PipeInv => ClipsAreWhole
  BY DEF PipeInv
<1>2. QED BY <1>1, PipelineInvariant, PTL

\* When a dispatcher has exited, its clips and the late rows make up the file of the
\* session, and every clip is in the database, unless an old sentinel ended
\* stream_merge before the data came (stream_merge.c:248).
THEOREM SessionCompleteHolds == Spec => []SessionComplete
BY EndedMeansComplete, PipelineInvariant, PTL

\* A query for a session prints a clip that was stored exactly if no later clip of
\* that session starts in the same second (clip_store.c:263, db_query.c:77-140).
THEOREM OnlySameSecondReplacedHolds == Spec => []OnlySameSecondReplaced
BY AnsweredIsExact, PipelineInvariant, PTL

\* What holds of the index alone holds of it here, where clip_store writes the file
\* and the lock keeps it still while a query runs (clip_store.c:251).
THEOREM QueriesAreExact == Spec => [](ProbesEnd /\ IndexIsLatest /\ AnswerIsLatest)
<1>1. PipeInv => IInv
  BY DEF PipeInv
<1>2. IInv => ProbesEnd /\ IndexIsLatest /\ AnswerIsLatest
  BY RoomMeansEnd DEF IInv
<1>3. QED BY <1>1, <1>2, PipelineInvariant, PTL
===================================================================================
