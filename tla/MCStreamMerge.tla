------------------------------ MODULE MCStreamMerge ------------------------------
(* Instances of StreamMerge.                                                       *)
EXTENDS StreamMerge

Row(s, o, l, t) ==
  [seq |-> s, offset |-> o, length |-> l, ts_ms |-> t, continuous |-> FALSE,
   byte_rate |-> 0, frame_align |-> 0, events |-> {}]

\* Two contiguous rows, a line that is skipped, a row after a lost one.
FourLines == <<Row(0, 0, 2, 0), Row(1, 2, 1, 1000), Skipped, Row(3, 3, 1, 2000)>>

ThreeLines == <<Row(0, 0, 2, 0), Skipped, Row(1, 2, 1, 2000)>>
===================================================================================
