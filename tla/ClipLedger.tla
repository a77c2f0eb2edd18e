------------------------------- MODULE ClipLedger --------------------------------
(*******************************************************************************)
(* What the clip state machine promises about the bytes of a session file.     *)
(*                                                                             *)
(* One region [lo, hi) of the file is open.  A chunk extends the open region   *)
(* only when it starts where the region ends; a region is left only by giving  *)
(* it out, whole or prefix by prefix.  "given" is the region that the last     *)
(* call handed out, empty when it handed out none.                             *)
(*******************************************************************************)
EXTENDS Integers

VARIABLES lo, hi, given

vars == <<lo, hi, given>>

Nothing == <<0, 0>>

Init == lo = 0 /\ hi = 0 /\ given = Nothing

Region(from, to) == IF from = to THEN Nothing ELSE <<from, to>>

\* The chunk [hi, hi') adjoins the open region; a prefix may be given out.
Adjoin ==
  /\ lo' \in Nat /\ hi' \in Nat
  /\ hi <= hi' /\ lo <= lo' /\ lo' <= hi'
  /\ given' = Region(lo, lo')

\* The chunk [from, hi') lies elsewhere and nothing is open.
Reopen ==
  /\ lo = hi
  /\ lo' \in Nat /\ hi' \in Nat
  /\ lo' <= hi'
  /\ \E from \in 0 .. lo' : given' = Region(from, lo')

\* The chunk [lo', hi') lies elsewhere: the open region is given out whole.
Replace ==
  /\ lo < hi
  /\ lo' \in Nat /\ hi' \in Nat
  /\ lo' <= hi'
  /\ given' = Region(lo, hi)

\* The stream pauses or ends.
GiveAll ==
  /\ lo < hi
  /\ given' = Region(lo, hi)
  /\ lo' = 0 /\ hi' = 0

Refuse == given' = Nothing /\ UNCHANGED <<lo, hi>>

Next == Adjoin \/ Reopen \/ Replace \/ GiveAll \/ Refuse

Spec == Init /\ [][Next]_vars
===================================================================================
