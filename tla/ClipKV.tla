---------------------------------- MODULE ClipKV ----------------------------------
(*******************************************************************************)
(* What clip_store promises to its callers: a map from keys to values that     *)
(* expire, served one call at a time.                                          *)
(*                                                                             *)
(* A call is served as of the second in which it began.  How the rows are      *)
(* stored, when a file is compacted and which caller dies do not show, except  *)
(* that a row whose caller died may or may not have been stored.               *)
(*******************************************************************************)
EXTENDS ClipDb

CONSTANT Calls     \* identities of callers

VARIABLES
  rows,     \* the row of every key that has one
  now,      \* time(2)
  asof,     \* the second as of which each caller is served
  answer    \* the rows the last query returned

vars == <<rows, now, asof, answer>>

Init == rows = {} /\ now \in Nat /\ asof = [p \in Calls |-> 0] /\ answer = {}

Grant(p) == asof' = [asof EXCEPT ![p] = now] /\ UNCHANGED <<rows, now, answer>>

\* The row of one key is replaced by a newer one, or removed.
Store(k) ==
  /\ {r \in rows' : r.key # k} = {r \in rows : r.key # k}
  /\ rows' \subseteq Row
  /\ \A r, s \in rows' : r.key = s.key => r = s
  /\ \A r \in rows' \ rows, s \in rows : r.n > s.n
  /\ UNCHANGED <<now, asof, answer>>

\* Only rows that no later call can be served may be forgotten.
Forget ==
  /\ rows' \subseteq rows
  /\ \A r \in rows \ rows' : IsExpired(r, now)
  /\ UNCHANGED <<now, asof, answer>>

Answer(p, keys) ==
  /\ answer' = {r \in rows : r.key \in keys /\ ~IsExpired(r, asof[p])}
  /\ UNCHANGED <<rows, now, asof>>

Tick == now' > now /\ now' \in Nat /\ UNCHANGED <<rows, asof, answer>>

Next ==
  \/ \E p \in Calls : Grant(p)
  \/ \E k \in Keys : Store(k)
  \/ Forget
  \/ \E p \in Calls, keys \in SUBSET Keys : Answer(p, keys)
  \/ Tick

Spec == Init /\ [][Next]_vars
===================================================================================
