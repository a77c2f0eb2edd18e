------------------------------- MODULE MCDispatcher -------------------------------
(*******************************************************************************)
(* Dispatcher for TLC: two records through pipes that hold one, so that a      *)
(* writer can find its pipe full, and two signals, so that a second one comes  *)
(* while the children are being collected.                                     *)
(*******************************************************************************)
EXTENDS Dispatcher
===================================================================================
