# A TLA+ model of the stream data pipeline

The repository is a set of small C programs, linked into one `box` binary, that
cut a growing media file into clips and keep a database of them:

```
 ingestor ──files──▶ stream_merge ──pipe──▶ log_parse ──pipe──▶ clip_store ──▶ database file
                          └───────────── pipeline_dispatcher ─────────────┘
```

This directory models the parts whose correctness is hard to test, checks the
models with TLC on small instances, and proves the main results with TLAPS.

## 1. The system

| Component | State | Operations | What makes it correct | What is hard |
|---|---|---|---|---|
| Clip state machine (`stream_merge/sm_fsm.c`, `sm_events.c`) | the open clip: region, timestamps, expected sequence and offset, stream format, events | process a row, idle check, final flush | clips tile the file; no byte lost, repeated or invented; no hidden gap; old rows rejected | rows lost, repeated, reordered; a window cut inside a row; format changes; zero lengths |
| Main loop (`stream_merge/stream_merge.c`, `lib/libpipeline.c`) | watches, read position, deadline, sentinel flag | startup, wait for the sidecar, drain, poll, idle, final drain | no lost wake-up; the sentinel ends it after everything is drained; pauses flush | file written between a check and a watch; partial lines; sentinel at any time |
| Sidecar reader (`sm_reader.c`) | none | parse a line | accepted rows are well typed | formatting only |
| Store process (`clip_store/clip_store.c`) | open inode, lock, stdio buffer, exit status | append session, set, delete, get, list, prefix, compact | a map of expiring values; success means stored | locks follow inodes, names do not; buffered rows; kills |
| File format and index (`db_format.c`, `db_query.c`) | the file; a hash table during a call | append, parse, put, grow, find, latest row of each key | the last row of a key wins; a query answers what a scan of the file would | torn rows; colliding keys; rows that move while the table grows |
| Compaction (`db_compact.c`) | `<db>.tmp` | load, write, fsync, rename | invisible to readers | kill between two steps; two at a time |
| Dispatcher (`pipeline_dispatcher/`) | pids, pipe ends, interrupt flag | pipe, fork, close, wait, kill | no orphans; the exit code tells the truth; end of file reaches every stage | signal between a test and a sleep; failing forks |
| Filter (`log_parse/`) | options, the line and its captured values, the full log, aggregates, a summary | parse, log, filter, aggregate, count, print | exit status 0 means a complete log and exact output | early exits of a turn; failing allocations and streams |
| Dynamic buffer (`lib/dynamic_buffer.c`) | allocation, length, capacity, failure latch | append, reserve, reset, free | the terminator always fits; growth ends | sizes near `SIZE_MAX`; failing reallocations |
| Codecs (`base64.c`, `jsonl_codec.c`) | none | encode, decode, look up a field | conversion | character level only |
| UDP server (`scripts/example/full-run/udp_stream_data_server.py`) | current session, fragments of open segments, the dispatcher it started | start, chunk, fragment, end, shutdown | bytes are in the file before the row that names them; a segment is put together from its own fragments | UDP itself; session switches; sentinels left over |

The programs interact by files and pipes only. The ingestor and `stream_merge`
share a directory: `<id>.bin`, the sidecar `<id>.meta.jsonl` and the sentinel
`.pipeline_end`, with inotify as the wake-up. The three stages are joined by two
pipes that `pipeline_dispatcher` creates. All invocations of `clip_store` share
a database path and `flock()` on the inode behind it.

`PROJECT.json` lists every component with its status, the map from definitions
to source lines, the hazards and the findings.

## 2. Modules

| Module | Role |
|---|---|
| `SmFsm` | `sm_fsm.c`: one action per branch of `sm_fsm_process_record`, `CheckIdle`, `FlushFinal`. State as in the C interface: `*fsm`, the returned action, `*out` |
| `ClipLedger` | abstract: one open region of the file, which grows at its end and is given out from its start |
| `ClipCutter` | drives `SmFsm` with arbitrary rows, idle checks and one final flush; history variables and the properties of the cutting |
| `SmFsmProofs` | what each call of the state machine keeps, for every caller |
| `ClipCutterProofs` | proofs of the properties of the cutting, and of the refinement of `ClipLedger` |
| `StreamMerge` | `stream_merge_main` step by step beside an ingestor, calling `SmFsm` |
| `StreamMergeProofs` | no lost wake-up; clean exits are complete; no busy loop |
| `ClipDb` | database file as a sequence of rows: which lines parse, the latest row of a key, liveness, the order of a compacted file |
| `ClipKV` | abstract: a map of expiring values, each call served as of the second in which it got the lock |
| `ClipStore` | concurrent invocations with inodes, locks, buffers, compaction, kills |
| `ClipStoreProofs` | compaction is invisible; what may be lost, and what not; the refinement of `ClipKV` |
| `Dispatcher` | the parent, its children, pipes and signals |
| `DispatcherProofs` | no orphans; the exit code tells the truth; signals go to own children; no pipe end is forgotten |
| `RowIndex` | `db_query.c` turn by turn: loading, probing, growth, insertion, lookup |
| `RowIndexProofs` | every probe ends; the index and the answers are what the file says |
| `DynamicBuffer` | `dynamic_buffer.c` with `size_t` that wraps |
| `LogParse` | `log_parse`: options, both input modes, full log, filter, aggregates and output, formatting in a `DynamicBuffer` |
| `LogParseProofs` | complete logs, exact output; the terminator fits and the doubling loop makes progress |
| `UdpIngestor` | the UDP server, with datagrams that are lost, repeated and reordered |
| `Pipeline` | composes `UdpIngestor`, `SmFsm`, the store and `RowIndex`, over several sessions and queries on one database |
| `PipelineProofs` | whole clips, complete sessions, exact queries, for any datagrams |
| `MC*` | constants of the TLC instances |

An action named `X_Something` with a comment that begins with "Fault:" is a
wrong version of `X`. It belongs to no specification; each property of a passing
run is shown to fail when one of them replaces the right version (`mutants` in
`PROJECT.json`).

### How the models correspond to the code

*SmFsm.* The branches are disjoint by their guards, in the order of the code's
`if`s: inactive (`Begin`), late (`RejectLate`), a gap with nothing collected
(`RestartEmpty`), a gap (`CloseAtGap`), compatible continuous rows
(`AppendContinuous`), the boundary (`CutAtBoundary`), the rest (`AppendWithin`).
The window test at the end of a call is part of the action that makes it
(`MaybeEmitWindow`). Options go through `atof`, so `ClipMs` and `IdleMs` are any
integers. Lengths, offsets and sequence numbers are natural numbers: the reader
admits integers up to 2^53 - 1, so 64-bit sums of two do not wrap, and `Tiling`
bounds the total length by the distance of two offsets. Tags beyond
`SM_EVENT_MAX_ITEMS` are dropped; which ones is left open (`Retained`).

*StreamMerge.* `pc` names the places between two system calls. A line is written
in two halves, so a read may end inside one. The inotify queues are the set of
kinds of pending events on the directory and a flag for the sidecar. Time is
relative: the clock is always 0 and `Tick` moves what the program remembers into
the past, no further than it can tell apart, which makes the state space finite
without bounding time. A failing `read` on a watch is only logged, any other
failing call ends the process.

*ClipStore.* A path names an inode, a lock belongs to an inode, and both can part:
`db`, `fd` and `holder` are separate. A new file gets any inode nobody uses (`Free`).
`AppendRow` is `append_db_row`: its `fseek` writes out the row before it, its own row
stays in `buf` until the next append or `fclose`. A kill loses the buffer; of a row
longer than the buffer the first part is in the file already and stays there as a torn
item. A row behind a torn one is unreadable, as both share a line. Reads and the load
of a compaction are one step since they happen under the lock. `n` numbers the rows
for the properties and is not data. Power loss is not modelled.

*Dispatcher.* Pipe ends are sets of holders, so that end of file and SIGPIPE are
what the kernel makes of them. A forked child has the parent's ends and handler
until `Exec`. `waitpid` is two steps: finding the child alive, and sleeping; a
signal ends the sleep with EINTR, and in any other state only sets the flag. A
record is a clip that passes the filter; log_parse holds records in its stdout
buffer until it flushes.

*RowIndex.* A call of `load_latest_rows` or `load_latest_row` runs from `"read"` to
`"answered"` or `"failed"`; a turn of `getline`, of the doubling loop, of the loop
that moves buckets, and of `find_slot` is a step each. `used[]` and `rows[]` are one
function whose domain is the used buckets. `goal` tells what `find_slot` was called
for. A capacity is a power of two in the code, so the mask is a remainder. The file
may be any sequence of rows, torn and glued ones included.

*DynamicBuffer.* A buffer is its allocation, length, capacity and latch; contents
are left out. Sums and products wrap at `SizeMax`. The doubling loop is a step per
turn, so that an endless loop would be a behaviour; every other path of a call is
one action.

*LogParse.* A line is what the program extracts from it: the captured groups in regex
mode, the fields in JSONL mode, each with its text and its kind. A turn of the main
loop goes through capture, full log, filter, and aggregation, counting or output, and
every early end of a turn is an action. A record is formatted as a list of appends to
the dynamic buffer, each of which may grow it or fail. Streams remember what was given
to them and whether some of it was lost, since stdio reports a failing write now,
later or at `fclose`.

*UdpIngestor.* Any datagram of a fixed set may arrive at any time, any number of
times. `write_payload` and `end_session` are several steps, because `stream_merge`
watches the files between them. A byte is named by the segment, the fragment and
the number of fragments it was sent with, so a mixture can be told.

*Pipeline.* `stream_merge` is reduced to what `StreamMerge` shows of it: it
processes the rows in order, flushes in a pause, and ends after a last drain once
it has seen the sentinel. Its clips are cut by the actions of `SmFsm`. `log_parse`
passes every clip and is a queue. An append session holds the lock until its input
ends; a query gets it in between and runs `RowIndex` on the file as it is then.
The failures of single programs are in their own modules.

## 3. What is checked

| Run | Shows |
|---|---|
| `clip_cutter` | `Tiling`, `ByteAccounting`, `AllGivenOut`, `NoHiddenGap`, `WithinWindow`, `NoBacklog`, `EventsBelong`, `LateRejectedWhileOpen` and the refinement `LedgerSpec`, for rows cut by timestamps and rows of two continuous formats in one file |
| `cutter_late_after_idle` | violated: rows are never accepted twice |
| `stream_merge` | `PollSeesEverything`, `CleanExitIsComplete`, `NoWaitMeansFlush`; `SentinelTerminates`, `StartupEnds`, `LinesAreParsed`, `BytesAreFlushed` |
| `stream_merge_early_end` | violated: a clean exit leaves no line unread |
| `clip_store` | the refinement `KVSpec` of the map, with kills, expiry and compaction |
| `clip_store_losses` | `BoundedLoss`, `NoTornAnswer`, `NoResurrection` with torn rows and failing last writes |
| `clip_store_online_compaction` | violated: what was reported as stored stays |
| `clip_store_full_disk` | violated: the same, on a full disk |
| `dispatcher` | `NoOrphans`, `SuccessIsComplete`, `KillsOwnChildren`, `Terminates` |
| `dispatcher_interrupt` | violated: an interrupted dispatcher exits |
| `pipeline` | `ClipsAreWhole`: a clip is made of whole segments that are in the file; `SessionComplete`: a session that ends in order has lost nothing; `OnlySameSecondReplaced`: what a query leaves out; `ProbesEnd`, `IndexIsLatest`, `AnswerIsLatest` of the index; `QueriesGetTheLock` |
| `log_parse` | `SuccessIsLogged`, `OutputIsExact`, `CapturesBelong`, `RoomForTerminator`, `Ends` |

### Bounds

* `ClipCutter`: three rows (`MaxFed`) out of 180 of either kind and one second
  (`MaxNow`) of pause. Every branch is the reaction of one row to the state two
  others can build: one opens the clip, one extends it, one ends it. Offsets 0..4
  and lengths 0..3 give gaps, overlaps, repeats and empty rows; a window is 2 bytes
  of one stream and 4 aligned bytes of the other, so one row can be less than,
  equal to and more than a window. Three tags against `MaxEvents = 2` reach the
  limit. The proofs have no bound.
* `StreamMerge`: three lines, one of them skipped; two ticks to an idle flush, a
  poll and the wait for the sidecar; one failing call. The rows are not empty
  and carry timestamps, on which `NoWaitMeansFlush` depends: with an empty row, or
  with a continuous clip that a window cut has just emptied, the state machine is
  active with nothing to flush, and after `idle_ms` the loop polls with a timeout
  of zero until the next row.
* `ClipStore`: two processes, two keys; three invocations with expiry, or four
  without. Four is the shortest run in which a killed compaction leaves a row
  that is deleted before the next one. Processes, keys and inodes are interchangeable
  (`Symmetry`, used with safety properties only). There are enough inodes for
  the files two processes can hold.
* `Dispatcher`: two records, pipes that hold one, two signals.
* `Pipeline`: five datagrams (`MaxReceived`) of nine kinds. A start, two fragments
  and an end are four; the fifth is a repeat, a fragment of another cut of the same
  segment, a fragment with an index out of range, a chunk of the next second, a
  switch of session or a restart of the same one. One query, which may come at any
  time. All keys of a session collide, and two buckets at the start make the table
  grow at the second row. The database begins with a row half written by a killed
  writer and a row glued to it.
* `LogParse`: three lines (`MaxLines`) of seven kinds under 12 + 18 + 150 + 3
  combinations of options. `InitialCap = 3` and `SizeMax = 15` put one record
  within the first doublings, one behind the last doubling and below `SizeMax`,
  where the fallback is taken, and one above it.

Runs with `CHECK_DEADLOCK FALSE` are those of programs that end, of a store that
nobody invokes any more, and of rows or datagrams that have run out;
`SentinelTerminates`, `Terminates` and `Ends` state that the ends are reached.

### Assumptions

* `StreamMerge` is checked with weak fairness of the merger's steps and of time.
  Nothing is assumed of the ingestor. The merger runs alone in its process, so it
  is scheduled when it can run.
* `Dispatcher` assumes weak fairness of the parent and of each child, and for
  `Terminates` also that the session ends, which `SentinelTerminates` shows of
  `stream_merge` once the sentinel is there. `dispatcher_interrupt` drops that
  last assumption. clip_store's wait for its lock is not in this model: another
  holder of the lock can delay the end; `QueriesGetTheLock` is about the lock.
* `Pipeline` assumes weak fairness of each step of `stream_merge`, `clip_store` and
  a query, processes of their own, but not of an idle flush, and nothing of the
  server or the client: `QueriesGetTheLock` is conditional on sessions that are told
  to end.
* `LogParse` is one process with weak fairness; its input ends.
* `Offline = TRUE` in the passing runs of `ClipStore` is an assumption about
  operation: compaction runs while no other invocation does. The code does not
  enforce it, and `clip_store_online_compaction` shows what happens without it.

### Findings

1. *Late rows after a pause* (`sm_fsm.c:144`). The idle flush resets
   `expected_seq`; the next row is accepted whatever its number.
2. *Early end of a session* (`stream_merge.c:275`). The sentinel seen while
   waiting for the sidecar ends the process with status 0; lines in a sidecar that
   exists by then are not read.
3. *Compaction beside other invocations* (`clip_store.c:198`). The lock is on the
   inode that was opened; after a rename a waiting writer gets the lock of a file
   without a name.
4. *Full disk* (`clip_store.c:287`). The last row is written by an unchecked
   `fclose`.
5. *Lost interrupt* (`pd_spawn.c:49`, `:81`). A signal between the test of the
   flag and `waitpid`, or a SIGTERM to a child before `execv`, has no effect.

Three statements of the documents differ from the code and have no run of their
own:

* `.docs/applets/log-parse.md:25` and `man/log_parse.1:74-76` say that the full log
  receives the records before filtering. In JSONL mode an object that lacks the key
  of a filter other than `>` is skipped before the log is written
  (`log_parse.c:294-301`). `SuccessIsLogged` therefore counts it as no record.
* `man/log_parse.1`, EXIT STATUS, gives 0 for success. Nothing looks at the result of
  `puts`, `printf` or the flush of stdout, so status 0 is returned with output lost
  (`OutputIsExact` excepts it), and status 2, returned on a failing full log, is
  not mentioned.
* The synopsis of `man/log_parse.1` lists `--sum`, `--avg`, `--max` and `--min` side by
  side; of several only the last one counts.

## 4. What is proved

All theorems hold for every value of the constants under the assumptions named in
the modules: `FsmAssumption`, `CutterAssumption`, `MergeAssumption`,
`ValuesAssumption`, `StoreAssumption`, `DispatcherAssumption`, `IndexAssumption`,
`SizeAssumption`, `LogParseAssumption`, `DatagramsAssumption` and
`PipelineAssumption`. They state the types of options and
input, and what the operating system promises: a free inode for a new file, strings
that lie in memory. `DatagramsAssumption` says that sequence numbers are natural, as
the client sends them (`stream_merge` skips a row with a negative one);
`PipelineAssumption` that the database did not end in a torn row when the pipeline
began, in which case the first clip stored would be lost (`ClipStore` covers that). The bounds of the instances (`MaxFed`, `MaxLines`, ...) are
constants, so the theorems hold without them.

Each module has one invariant, `IInv` or a set of named parts, that is proved
inductive part by part, one step per action.

**`ClipCutterProofs`**, with `SmFsmProofs`: `TypeCorrect`, `ClipsTile`,
`BytesConserved`, `NothingOwed`, `GapsEndClips`, `OldRowsRejected`,
`ClipsWithinWindow`, `ContinuousKeepsUp`, `EventsFollowClips`, and
`CutterImplementsLedger`, that the state machine implements `ClipLedger`.

* Type correctness is inductive with one addition: an inactive state machine is
  the reset one. Without it `Begin` could not be shown to start from nothing.
* `Tiling` is inductive on top of it. It is the fact the rest stands on: a row
  that is appended starts at `expected_offset`, which `Tiling` makes the end of
  the region, so regions are joined without hole or overlap. `ByteAccounting`
  follows by splitting a region at a cut, `NothingOwed` from the reset at the
  final flush.
* `LateRejectedWhileOpen` needs that `expected_seq` is one more than the last
  accepted number while a clip is open; `NoHiddenGap` that it counts the rows.
* `NoBacklog` needs that a steady run has the state machine's current format, so
  that its rows and the window are compared with the same target.

**`StreamMergeProofs`**: `MergeType`, `NoLostWakeUp`, `NothingLeftBehind`, and
`NoBusyLoop`.

* `PollSeesEverything` is about `poll` only. It is inductive once it is said for
  every place: a complete line that was not read is announced on the watch from the
  first drain on (`LinesAnnounced`), and the sentinel is known or announced from the
  moment the directory is watched (`EndAnnounced`). Both survive because every loop
  consumes events before it looks.
* A clean exit is complete because the loop is left only when the sentinel is known,
  after which nothing more is written (`EndKnown`), and the drains that follow end at
  the end of the sidecar (`Drained`).
* `NoBusyLoop` has a hypothesis, `PlainLines`: poll intervals that are positive, and
  rows that are not empty and are cut by timestamps. The bounds of `StreamMerge` in
  section 3 tell what happens without it.

**`ClipStoreProofs`**. For every file: a reader finds one row per key, a compacted
file in any row order shows every later reader what the old file would have shown
(`CompactionIsTransparent`), and an append changes the row of one key
(`AppendReplacesOneKey`). Of `ClipStore!Spec`, for any number of processes and
inodes:

* Whatever runs beside a compaction, who works holds the lock of the file it has
  open, and a query prints whole rows only (`StoreType`, `QueriesPrintWholeRows`).
* If compaction runs alone (`Offline`), the path names the file all work on
  (`Files`), a temporary file has the live rows of that file (`Renaming`), a buffered
  row is the newest there is (`Buffers`), each row that is missing is paid for by a
  loss (`Accounts`), and without a loss nobody finds a row older than one reported as
  stored (`Ages`). They are inductive together, and give `LossesAreBounded` and
  `OldRowsStayAway`.
* `StoredRowsStay`: if also no row is longer than the buffer and the last write does
  not fail, whatever was reported as stored stays. That is `AckedStays`, the property
  two other runs see violated, under the conditions those runs break.
* `StoreIsAMap`: under `Offline` the processes implement `ClipKV`. A step leaves the
  rows of the file as they are, writes out one row, spoils one, or replaces the file
  by its live rows, and each of the four is a step of the map or none.

**`DispatcherProofs`**: `DispatcherType`, `NoChildLeftBehind`, `ExitCodeTellsTruth`,
`OnlyOwnChildrenKilled`, and `NoEndIsForgotten`.

* The pids the parent knows are exactly those of children that it has not reaped
  (`KnownAreUnreaped`); with where its loops are (`Progress`), orphans and signals to
  foreign pids are excluded.
* Exit code 0 means completeness because of the pipe ends: `ParentHolds` and
  `ChildrenHold` say who has which end at each place, so a stage that has seen the end
  of its input comes after everyone who could write to it, and `Flow` counts the
  records from stage to stage. `Codes` ties the exit code to the statuses.
* `NoEndIsForgotten` is the safety part of `Terminates`.

**`RowIndexProofs`**, for every file, set of keys, hash and number of buckets:
`EveryProbeEnds`, `IndexHoldsLatest`, `QueryFindsLatest` and `IndexType`.

* A table is *sound* when the probe for each of its keys meets the key's own bucket
  before a free one. That alone is not what the properties say, but without it they
  are not inductive: from soundness the free bucket at which a probe stops proves
  that the key is nowhere in the table (`Absent`), and no key has two buckets
  (`OneBucketPerKey`). `Placing` and `Replacing` show that a put keeps a table sound.
* `Moves` says what the larger table holds in the middle of growth: exactly the rows
  of the buckets already visited, with room for the rest and for the row in hand.
  `Probing` says where the cursor of `find_slot` may stand for each of its callers.
* The rows of the index are compared with the lines read so far by `LineSkipped` and
  `LineTaken`, one line at a time, so no induction over the file is needed.

**`LogParseProofs`**, for every list of options, input and assignment of sizes:
`LogIsComplete`, `PrintedExactly`, `CapturesAreOfTheLine`, `RecordsFit` and
`ParseTypes`.

* What log_parse keeps is an account of a prefix of its input: the full log of the
  first `Logged` lines, output, aggregates and count of the first `Handled`. The two
  differ while a line is at hand. `Turns` says what is known of that line: behind the
  parser it is a record, before it is printed it passes the filter.
* A summary is a fold over the lines, and the property compares it with one over all
  lines at once. `Tally` says what sum, count, minimum and maximum are of a prefix,
  and `TallyAdds` that one more line keeps it. The sum, and the list of pieces of a
  record, are recursive functions; what is proved about them goes back to
  `LeastNatural`, that a set of natural numbers has a least member, so an induction is
  a smallest counterexample.
* The steps of log_parse are steps of `DynamicBuffer` or leave it alone
  (`BufferFollows`), so its invariant holds here too. Of the buffer by itself, in any
  sequence of calls: the terminator fits (`TerminatorFits`), sizes never wrap
  (`SizesStaySizes`), each turn of the doubling loop goes up, also where doubling would
  overflow (`LoopMakesProgress`), and nothing is appended between a failure and a reset
  (`FailureSticks`). The invariant needs that a capacity about to be doubled is not 0.

**`PipelineProofs`**, for any set of datagrams in any order, any options and any hash:
`ClipsAreWholeHolds`, `SessionCompleteHolds`, `OnlySameSecondReplacedHolds` and
`QueriesAreExact`.

* The invariant follows the data. `FilesAgree`: row k of the sidecar begins where row
  k - 1 ends and names one whole segment, and the file goes on behind the last row only
  while `write_payload` is between its two writes. `Merged`: each byte of a row that was
  read is in a clip, was refused as late, or is in the open clip, which holds whole
  segments in a row (`OpenIsWhole`). `Queued`: pipe and database together hold the
  lines in order.
* The server may append while `stream_merge` works, so what is known of the open clip
  must survive growth of the files (`MergedStays`). That it can, and that a session is
  complete when its dispatcher has exited, needs `Phases`: a merger that ends although
  no old sentinel was there ends after the server has stopped writing.
* A row of the server is not continuous, so no window is ever full, and a row opens a
  clip, joins one right behind it, or is late (`RowMerges`, `SegmentJoins`).
* The steps on the database are steps of `RowIndex` (`QuerySteps`, `StoreClipKeeps`),
  because the lock keeps appending sessions and queries apart (`Alone`). A query then
  prints the latest rows of the file, and a stored clip is one of them exactly if no
  later one has its session and second (`LatestStored`).

Only model-checked: liveness under fairness (`SentinelTerminates`, `StartupEnds`,
`LinesAreParsed`, `BytesAreFlushed`, `Terminates`, `Ends`, `QueriesGetTheLock`); it and
ENABLED are out of the prover's reach.

## 5. What is not modelled

* Argument parsing and validation (`pd_config.c`, `pipeline_dispatcher.c`): a
  sequential check without state that outlives it, which decides only whether the
  dispatcher starts.
* The conversion of characters: base64, the JSON scanner of `sm_reader.c` and the
  text of `jsonl_codec.c`. The models take what these return: a field that is there
  or not, a value of a kind, a line that parses or not.
* Logging and the multiplexer `main.c`, on which nothing depends; benchmarks and the
  demonstration scripts, except the UDP server and what its client sends.
* cJSON and miniz, whose sources are not in the repository.
* Power loss; limits of `long` and of floating point in aggregates.

## 6. Plan

Every safety invariant that a run checks is proved, and both refinements. What can be
added:

* the safety half of termination: measures that each step of a query (`IndexStep`) and
  of a turn of `log_parse` lowers, so that only fairness is left to TLC;
* that `StreamMerge` implements the reduced merger of `Pipeline`: rows in order, flushes
  in between, and a last drain;
* the same of the dispatcher and `log_parse` for the queue between the stages.
