------------------------------ MODULE MCClipCutter -------------------------------
(* Instances of ClipCutter.                                                        *)
EXTENDS ClipCutter

Plain == [continuous |-> FALSE, byte_rate |-> 0, frame_align |-> 0]
Pcm(rate, align) == [continuous |-> TRUE, byte_rate |-> rate, frame_align |-> align]

Row(s, o, l, t, k, e) ==
  [seq |-> s, offset |-> o, length |-> l, ts_ms |-> t, continuous |-> k.continuous,
   byte_rate |-> k.byte_rate, frame_align |-> k.frame_align, events |-> e]

\* Rows cut by timestamps: any order, any offset, timestamps that repeat or go back.
TimestampRows ==
  {Row(s, o, l, t, Plain, {}) :
     s \in 0 .. 2, o \in 0 .. 3, l \in 0 .. 2, t \in {0, 1000, 2000}}

EventOf(s) == CASE s = 0 -> {"audio"} [] s = 1 -> {"motion"} [] s = 2 -> {"speech"}

\* Rows of two continuous streams, with one event each; with ClipMs = 2000 a window
\* is 2 bytes of the first stream and 4 aligned bytes of the second.
ContinuousRows ==
  {Row(s, o, l, 1000 * s, k, EventOf(s)) :
     s \in 0 .. 2, o \in {0, 1, 2, 4}, l \in 1 .. 3, k \in {Pcm(1, 0), Pcm(2, 4)}}

MixedRows == TimestampRows \cup ContinuousRows

\* An ingestor in good order except for repeats: row s is bytes 2s and 2s+1.
OrderedRows == {Row(s, 2 * s, 2, 1000 * s, Plain, {}) : s \in 0 .. 3}

SmallBytes == 0 .. 4
ManyBytes == 0 .. 7
===================================================================================
