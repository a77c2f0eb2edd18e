------------------------------ MODULE DynamicBuffer ------------------------------
(*******************************************************************************)
(* The growable byte buffer of the applets and codecs                          *)
(* (src/lib/dynamic_buffer.c).                                                 *)
(*                                                                             *)
(* Contents are left out: a buffer is its allocation, length, capacity and     *)
(* failure latch.  size_t counts from 0 to SizeMax and wraps.  The doubling    *)
(* loop of dynamic_buffer_reserve is a step per turn; every other path of a    *)
(* call is one action.                                                         *)
(*******************************************************************************)
EXTENDS Integers

CONSTANTS
  SizeMax,      \* SIZE_MAX
  InitialCap    \* 128

ASSUME SizeAssumption ==
  /\ SizeMax \in Nat
  /\ InitialCap \in 1 .. SizeMax

VARIABLES
  buf,          \* dynamic_buffer_t
  phase,        \* "growing" when reserve is between the test of cap and realloc
  adds,         \* the bytes the call appends once there is room
  need,         \* need and next of dynamic_buffer_reserve
  next_size,
  rc            \* what the last call returned

bufferVars == <<buf, phase, adds, need, next_size, rc>>

Sizes == 0 .. SizeMax

\* The sum of two sizes.
Wrapped(n) == n % (SizeMax + 1)

NULL == "NULL"
Heap == "heap"   \* any other pointer

ZeroBuffer == [data |-> NULL, len |-> 0, cap |-> 0, failed |-> 0]

\* Contract errors that only a caller who writes the fields can cause.
Corrupt(b) == (b.cap > 0 /\ b.data = NULL) \/ (b.data = Heap /\ b.len >= b.cap)

Overflows(extra) == extra > SizeMax - 1 - buf.len

\* Fault: the byte of the terminator is forgotten.
Needed_NoTerminator(extra) == buf.len + extra

Needed(extra) == buf.len + extra + 1

BufferInit ==
  /\ buf = ZeroBuffer
  /\ phase = "idle"
  /\ adds = 0
  /\ need = 0
  /\ next_size = 0
  /\ rc = 0

Free ==
  /\ phase = "idle"
  /\ buf' = ZeroBuffer
  /\ UNCHANGED <<phase, adds, need, next_size, rc>>

Reset ==
  /\ phase = "idle"
  /\ buf' = [data |-> buf.data, len |-> 0,
             cap |-> IF buf.data = NULL THEN 0 ELSE buf.cap, failed |-> 0]
  /\ UNCHANGED <<phase, adds, need, next_size, rc>>

\* Every failing path sets the latch and returns -1.
Fails ==
  /\ buf' = [buf EXCEPT !.failed = 1]
  /\ phase' = "idle"
  /\ rc' = -1
  /\ UNCHANGED <<adds, need, next_size>>

\* append_mem or append_str called with NULL.
AppendNull == phase = "idle" /\ Fails

-----------------------------------------------------------------------------------
(* reserve(extra), and what the caller appends then                              *)

Refuse(extra) ==
  /\ phase = "idle"
  /\ buf.failed = 1 \/ Corrupt(buf) \/ Overflows(extra)
  /\ Fails

Usable(extra) == phase = "idle" /\ buf.failed = 0 /\ ~Corrupt(buf) /\ ~Overflows(extra)

Fits(extra, n) ==
  /\ Usable(extra)
  /\ Needed(extra) <= buf.cap
  /\ buf' = [buf EXCEPT !.len = @ + n]
  /\ rc' = 0
  /\ UNCHANGED <<phase, adds, need, next_size>>

MustGrow(extra, n) ==
  /\ Usable(extra)
  /\ Needed(extra) > buf.cap
  /\ phase' = "growing"
  /\ adds' = n
  /\ need' = Needed(extra)
  /\ next_size' = IF buf.cap = 0 THEN InitialCap ELSE buf.cap
  /\ UNCHANGED <<buf, rc>>

Reserve(extra) == Refuse(extra) \/ Fits(extra, 0) \/ MustGrow(extra, 0)

\* append_char, append_mem and append_str of n bytes.
AppendBytes(n) == Refuse(n) \/ Fits(n, n) \/ MustGrow(n, n)

\* Fault: the capacity is doubled whatever it is.
Double_NoFallback ==
  /\ phase = "growing"
  /\ next_size < need
  /\ next_size' = Wrapped(next_size * 2)
  /\ UNCHANGED <<buf, phase, adds, need, rc>>

Double ==
  /\ phase = "growing"
  /\ next_size < need
  /\ next_size' = IF next_size > SizeMax \div 2 THEN need ELSE Wrapped(next_size * 2)
  /\ UNCHANGED <<buf, phase, adds, need, rc>>

Reallocate ==
  /\ phase = "growing"
  /\ next_size >= need
  /\ buf' = [data |-> Heap, len |-> buf.len + adds, cap |-> next_size, failed |-> 0]
  /\ phase' = "idle"
  /\ rc' = 0
  /\ UNCHANGED <<adds, need, next_size>>

ReallocFails == phase = "growing" /\ next_size >= need /\ Fails

Grow == Double \/ Reallocate \/ ReallocFails

BufferNext ==
  \/ Free \/ Reset \/ AppendNull
  \/ \E n \in Sizes : Reserve(n) \/ AppendBytes(n)
  \/ Grow

BufferSpec == BufferInit /\ [][BufferNext]_bufferVars

-----------------------------------------------------------------------------------

BufferTypeOK ==
  /\ buf \in [data : {NULL, Heap}, len : Sizes, cap : Sizes, failed : {0, 1}]
  /\ phase \in {"idle", "growing"}
  /\ adds \in Sizes
  /\ need \in Sizes
  /\ next_size \in Sizes
  /\ rc \in {0, -1}

\* No size wraps on the way, and a buffer that was only used through its functions
\* always has room for the terminator that every append writes at data[len]
\* (dynamic_buffer.c:10-11, 93, 104, 131): never more content than capacity, at any
\* length up to SIZE_MAX, after any failures.
RoomForTerminator ==
  /\ IF buf.data = Heap THEN buf.len < buf.cap ELSE buf.len = 0 /\ buf.cap = 0
  /\ buf.cap <= SizeMax
  /\ phase = "growing" =>
       /\ buf.len + adds < need
       /\ buf.cap < need
       /\ buf.failed = 0

\* A doubling never loses what was reached: next grows until it covers need, so the
\* loop ends (dynamic_buffer.c:75-81).
DoublingGrows ==
  [][phase = "growing" /\ phase' = "growing" =>
       next_size' > next_size /\ need' = need]_bufferVars

\* Once a call has failed nothing is appended until the buffer is reset or freed
\* (dynamic_buffer.h:14-15).
FailureLatched ==
  [][buf.failed = 1 => (buf' = buf) \/ (buf'.failed = 0 /\ buf'.len = 0)]_bufferVars
===================================================================================
